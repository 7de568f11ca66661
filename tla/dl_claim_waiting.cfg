\* One download started before the bitmap of its peer has come.
CONSTANTS
    p1 = p1
    p2 = p2
    f1 = f1
    f2 = f2
    NoRoom = NoRoom
    Peers = {p1}
    Files = {f1}
    Names = {f1}
    Rooms = {r1}
    ChunkCount <- OneChunk
    NameOf <- OwnName
    Owns <- OwnsAll
    Fickle = {}
    Lossy = {}
    Stale = {}
    MaxConcurrent = 1
    MaxInFlight = 1
    MaxFailures = 2
    DiskFaults = FALSE
    MaxNet = 1
SPECIFICATION FairSpec
PROPERTIES
    WaitingResumes
