\* One process that is never killed and whose writes never fail.
CONSTANTS
    Procs = {p}
    Ids = {u}
    NoId = NoId
    Passwords = {w1, w2}
    Rooms = {r}
    NoKey = NoKey
    Stale = Stale
    Fallible = {}
    MaxRegistrations = 2
SPECIFICATION Spec
SYMMETRY Symmetry
INVARIANT PasswordOpens
CHECK_DEADLOCK FALSE
