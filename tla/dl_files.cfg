\* Two downloads, of two chunks and of one, from one peer; the user acts also while a
\* message is under way.
CONSTANTS
    p1 = p1
    p2 = p2
    f1 = f1
    f2 = f2
    NoRoom = NoRoom
    Peers = {p1}
    Files = {f1, f2}
    Names = {f1, f2}
    Rooms = {r1}
    ChunkCount <- TwoAndOne
    NameOf <- OwnName
    Owns <- OwnsAll
    Fickle = {}
    Lossy = {}
    Stale = {}
    MaxConcurrent = 1
    MaxInFlight = 2
    MaxFailures = 2
    DiskFaults = FALSE
    MaxNet = 2
SPECIFICATION Spec
INVARIANTS
    QueueMatches
    InFlightIsMissing
    CompletedIsWhole
    AnswerComes
