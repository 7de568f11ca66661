\* A host with two rooms, a guest that looks things up, two codes.
CONSTANTS
    a = a
    h = h
    Host = h
    NoRoom = NoRoom
    NoCode = NoCode
    NoRecord = NoRecord
    Nodes = {h, a}
    Rooms = {r1, r2}
    Codes = {c1, c2}
    Knows <- HostKnowsAll
    Seekers = {a}
    MaxLookups = 2
SPECIFICATION FairSpec
INVARIANTS
    TypeOK
    KeysAreGranted
    LookupUnderWay
    HeldIsRegistered
PROPERTIES
    RequestFollowsCode
    EntersLastAsked
    LookupSettles
