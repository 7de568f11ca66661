\* Two processes, either of which may be killed, an account and a room.
CONSTANTS
    Procs = {p, q}
    Ids = {u}
    NoId = NoId
    Passwords = {w1, w2}
    Rooms = {r}
    NoKey = NoKey
    Stale = Stale
    Fallible = {p, q}
    MaxRegistrations = 2
SPECIFICATION Spec
SYMMETRY Symmetry
CONSTRAINT Unraced
INVARIANTS
    TypeOK
    SessionsHoldThePid
    OpensWithItsPassword
PROPERTIES
    RoomsKept
CHECK_DEADLOCK FALSE
