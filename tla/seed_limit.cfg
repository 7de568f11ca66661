\* Limits of less and of more than a chunk a second.
CONSTANTS
    f1 = f1
    f2 = f2
    r1 = r1
    NoRoom = NoRoom
    Files = {f1, f2}
    Rooms = {r1}
    Limits = {0, 1, 2, 3}
    Kilo = 1
    ChunkSize = 2
    Second = 2
    MaxWord = 6
    MaxClock = 4
SPECIFICATION Spec
INVARIANTS
    TypeOK
    WithinLimit
    RefillIsExact
PROPERTIES
    WaitHelps
