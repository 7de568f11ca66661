\* Two rooms, at most two commands and three events waiting.
CONSTANTS
    Rooms = {r1, r2}
    NoRoom = NoRoom
    MaxCommands = 2
    MaxEvents = 3
SPECIFICATION FairSpec
INVARIANTS
    TypeOK
    RoomAgrees
    ExpiredIsGone
    MessagesGoWhereTyped
    WaitingIsPending
PROPERTIES
    SeedsFollowRooms
    ChatSettles
    LossIsShown
CHECK_DEADLOCK FALSE
