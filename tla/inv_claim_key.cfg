\* A host that moves between its two rooms while a guest waits.
CONSTANTS
    a = a
    h = h
    Host = h
    NoRoom = NoRoom
    NoCode = NoCode
    NoRecord = NoRecord
    Nodes = {h, a}
    Rooms = {r1, r2}
    Codes = {c1}
    Knows <- HostKnowsAll
    Seekers = {a}
    MaxLookups = 1
SPECIFICATION Spec
INVARIANTS
    KeyFitsRoom
