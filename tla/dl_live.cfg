\* Peers that stay and answer, one of them with a changed copy, and one slot.
CONSTANTS
    p1 = p1
    p2 = p2
    f1 = f1
    f2 = f2
    NoRoom = NoRoom
    Peers = {p1, p2}
    Files = {f1}
    Names = {f1}
    Rooms = {r1}
    ChunkCount <- TwoChunks
    NameOf <- OwnName
    Owns <- OwnsAll
    Fickle = {}
    Lossy = {}
    Stale = {p2}
    MaxConcurrent = 1
    MaxInFlight = 1
    MaxFailures = 2
    DiskFaults = FALSE
    MaxNet = 1
SPECIFICATION FairSpec
INVARIANTS
    FlightIsBounded
    BlockedAtThree
PROPERTIES
    RequestsAvoidTheBlamed
    FlightLands
