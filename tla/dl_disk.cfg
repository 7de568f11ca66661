\* One file of two chunks, one peer and two rooms between which both move; crashes
\* and write errors.
CONSTANTS
    p1 = p1
    p2 = p2
    f1 = f1
    f2 = f2
    NoRoom = NoRoom
    Peers = {p1}
    Files = {f1}
    Names = {f1}
    Rooms = {r1, r2}
    ChunkCount <- TwoChunks
    NameOf <- OwnName
    Owns <- OwnsAll
    Fickle = {p1}
    Lossy = {p1}
    Stale = {}
    MaxConcurrent = 1
    MaxInFlight = 2
    MaxFailures = 3
    DiskFaults = TRUE
    MaxNet = 2
SPECIFICATION Spec
INVARIANTS
    TypeOK
    BitsNeverAhead
    InFlightIsMissing
    KnownIsAnnounced
PROPERTIES
    ImplementsStore
