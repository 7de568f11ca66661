------------------------------- MODULE Client -------------------------------
(***************************************************************************)
(* The terminal interface and AppCore (main.rs, tui/input.rs, app/core.rs):*)
(* two tasks with a queue of commands one way and of events the other.     *)
(* The interface opens a chat before AppCore has joined its room, and      *)
(* events move it to another screen whatever it shows. What the interface  *)
(* reads of AppCore is what it has been sent, so the events of a handler   *)
(* are sent at its end; events that only add a line of text are left out.  *)
(*                                                                         *)
(* Of the invitations kept by Invite and the seeds and downloads of a room *)
(* only what a change of room does to them is here: one seed stands for    *)
(* all, and a code under way may yield any room, fail, or be lost.         *)
(***************************************************************************)
EXTENDS Integers, Sequences, SequencesExt

CONSTANTS
    Rooms,
    NoRoom,
    MaxCommands,    \* bound: commands waiting for AppCore (the channel holds 256)
    MaxEvents       \* bound: events waiting for the interface (as many)

ASSUME ClientAssumption ==
    /\ NoRoom \notin Rooms
    /\ MaxCommands \in Nat \ {0}
    /\ MaxEvents \in Nat \ {0, 1}     \* a change of room is two

VARIABLES
    (* interface *)
    phase,      \* with events to take before the next key, or waiting for a key
    screen,     \* what is shown
    (* channels *)
    cmds,       \* commands AppCore has not received
    events,     \* events the interface has not received
    (* AppCore *)
    active,     \* active_room
    records,    \* room_store, in its order
    over,       \* the recorded rooms whose lifetime is over
    code,       \* how far the last invitation code entered has come
    seed        \* the status of a seed

tui == <<phase, screen>>
app == <<active, records, over, code, seed>>
vars == <<tui, cmds, events, app>>
-----------------------------------------------------------------------------
(* Values *)

Screens == {"MainMenu", "RoomList", "InviteEntry", "Chat"}
Steps   == {"UrlInput", "CodeInput", "Waiting", "Failed"}
Screen(at) == [at |-> at, room |-> NoRoom, expired |-> FALSE, step |-> "UrlInput",
               list |-> <<>>, marked |-> 0]
Menu    == Screen("MainMenu")
Chat(r) == [Screen("Chat") EXCEPT !.room = r]
Entry(step) == [Screen("InviteEntry") EXCEPT !.step = step]

Cmd(do, r)  == [do |-> do, room |-> r, settled |-> FALSE]
Event(kind) == [kind |-> kind, room |-> NoRoom, list |-> <<>>]
Joined(r)   == [Event("JoinedRoom") EXCEPT !.room = r]
Listed(rs)  == [Event("RoomList") EXCEPT !.list = rs]

Commands == [do : {"ListRooms", "CreateRoom", "JoinRoom", "DeleteRoom", "LeaveRoom",
                   "EnterInviteCode", "SendMessage", "SeedPause", "SeedResume"},
             room : Rooms \cup {NoRoom}, settled : BOOLEAN]
Events == [kind : {"JoinedRoom", "LeftRoom", "RoomExpired", "RoomList", "Error"},
           room : Rooms \cup {NoRoom}, list : Seq(Rooms)]

SeedStates == {"Active", "AutoPaused", "ManualPaused"}

\* Looked up while pending_invite_code is set; then its host is asked, who answers in
\* time or is lost (no event ends that wait).
CodeStates == {"None", "Lookup", "Asked", "Lost"}
CodeUnderWay == code \in {"Lookup", "Asked"}

Has(r)  == Contains(records, r)
Gone(r) == ~Has(r) \/ r \in over      \* RoomStore::is_expired

Init ==
    /\ phase = "key"
    /\ screen = Menu
    /\ cmds = <<>>
    /\ events = <<>>
    /\ active = NoRoom
    /\ records \in {<<>>} \cup {<<r>> : r \in Rooms}
    /\ over = {}
    /\ code = "None"
    /\ seed = "AutoPaused"
-----------------------------------------------------------------------------
(* The interface: events *)

\* The chat of a room entered replaces whatever is shown.
OpenedAsWas(s, r) == [Chat(r) EXCEPT !.expired = s.expired]    \* mutant: a mark kept
Opened(s, r) == Chat(r)

\* handle_app_event: what it makes of the screen.
Shown(s, e) ==
    CASE e.kind = "JoinedRoom" -> Opened(s, e.room)
      [] e.kind = "LeftRoom" -> Menu
      [] e.kind = "RoomExpired" /\ s.at = "Chat" -> [s EXCEPT !.expired = TRUE]
      [] e.kind = "RoomList" /\ s.at = "RoomList" -> [s EXCEPT !.list = e.list]
      [] e.kind = "Error" /\ s.at = "InviteEntry" -> Entry("Failed")
      [] OTHER -> s

\* run_tui_loop takes events as long as there are any, then waits for a key, but not
\* for long.
Drain ==
    /\ events # <<>>
    /\ phase' = IF Tail(events) = <<>> THEN "key" ELSE "drain"
    /\ screen' = Shown(screen, Head(events))
    /\ events' = Tail(events)
    /\ UNCHANGED <<cmds, app>>
-----------------------------------------------------------------------------
(* The interface: keys *)

AfterKey == IF events = <<>> THEN "key" ELSE "drain"

Goto(s) ==
    /\ phase' = AfterKey
    /\ screen' = s
    /\ UNCHANGED <<cmds, events, app>>

Command(c, s) ==
    /\ Len(cmds) < MaxCommands
    /\ phase' = AfterKey
    /\ screen' = s
    /\ cmds' = Append(cmds, c)
    /\ UNCHANGED <<events, app>>

On(at) == phase = "key" /\ screen.at = at
Escape == Goto(Menu)

\* On the screens of FriendList, Settings and CreateRoom an event changes what it would
\* change here, and only the last has a command about rooms: they are part of the menu.
KeyMainMenu ==
    /\ On("MainMenu")
    /\ Goto(Entry("UrlInput")) \/ Command(Cmd("ListRooms", NoRoom), Screen("RoomList"))

KeyCreateRoom ==
    /\ On("MainMenu")
    /\ Command(Cmd("CreateRoom", NoRoom), Menu)

\* A room is marked to be deleted by its place in the list.
KeyRoomList ==
    LET marked == screen.marked  unmarked == [screen EXCEPT !.marked = 0] IN
    /\ On("RoomList")
    /\ \/ /\ marked = 0
          /\ \/ \E n \in DOMAIN screen.list :
                  LET r == screen.list[n] IN
                  \/ Command(Cmd("JoinRoom", r), Chat(r))
                  \/ Goto([screen EXCEPT !.marked = n])
             \/ Escape
       \/ /\ marked # 0
          /\ \/ Goto(unmarked)
             \/ /\ marked \in DOMAIN screen.list
                /\ Command(Cmd("DeleteRoom", screen.list[marked]),
                           [unmarked EXCEPT !.list = RemoveAt(@, marked)])

\* The name of a room is looked up between the first two steps (Invite). The bound
\* Idle: one code at a time; overlapping ones are in Invite.
KeyInviteEntry ==
    LET step == screen.step
        Idle == ~CodeUnderWay /\ \A n \in DOMAIN cmds : cmds[n].do # "EnterInviteCode" IN
    /\ On("InviteEntry")
    /\ \/ step \in {"UrlInput", "Failed"} /\ Goto(Entry("CodeInput"))
       \/ step = "CodeInput" /\ Idle /\ Command(Cmd("EnterInviteCode", NoRoom), Entry("Waiting"))
       \/ step = "CodeInput" /\ Goto(Entry("UrlInput"))
       \/ step \in {"UrlInput", "Waiting", "Failed"} /\ Escape

\* Nothing is under way that may change the room.
Unsettling == {"JoinRoom", "CreateRoom", "LeaveRoom", "EnterInviteCode"}
Settled ==
    /\ \A n \in DOMAIN cmds : cmds[n].do \notin Unsettling
    /\ \A n \in DOMAIN events : events[n].kind \notin {"JoinedRoom", "LeftRoom"}
    /\ ~CodeUnderWay

\* parse_chat_command: a message, or a command on a seed; those on downloads and
\* invitations are in Download and Invite.
KeyCommand ==
    /\ On("Chat") /\ ~screen.expired
    /\ \/ \E do \in {"SeedPause", "SeedResume"} : Command(Cmd(do, NoRoom), screen)
       \/ ~Settled /\ Command(Cmd("SendMessage", NoRoom), screen)
       \/ Settled /\ Command([Cmd("SendMessage", screen.room) EXCEPT !.settled = TRUE], screen)

\* handle_chat: the room may be left also when it is over, and nothing else then.
KeyChat == KeyCommand \/ (On("Chat") /\ Command(Cmd("LeaveRoom", NoRoom), Menu))
-----------------------------------------------------------------------------
(* AppCore: rooms *)

\* The next command.
Receive(do) ==
    /\ cmds # <<>> /\ Head(cmds).do = do
    /\ cmds' = Tail(cmds)

Tell(es) ==
    /\ Len(events) + Len(es) <= MaxEvents
    /\ events' = events \o es

PausedByLeaving(s) == IF s = "Active" THEN "AutoPaused" ELSE s
ResumedAll(s) == "Active"     \* mutant: manual pauses too
ResumedByRejoining(s) == IF s = "AutoPaused" THEN "Active" ELSE s

LeftEvents == IF active = NoRoom THEN <<>> ELSE <<Event("LeftRoom")>>
SeedOutside == IF active = NoRoom THEN seed ELSE PausedByLeaving(seed)

\* leave_room: mutant, the interface is not told.
LeaveRoomSilently ==
    /\ Receive("LeaveRoom")
    /\ active' = NoRoom
    /\ seed' = SeedOutside
    /\ Tell(<<>>)
    /\ UNCHANGED <<tui, records, over, code>>

LeaveRoom ==
    /\ Receive("LeaveRoom")
    /\ active' = NoRoom
    /\ seed' = SeedOutside
    /\ Tell(LeftEvents)
    /\ UNCHANGED <<tui, records, over, code>>

\* Why a room cannot be entered: its lifetime is over, or it has no record.
RefusedAlike(r) == Event("Error")                   \* mutant: all the same
Refused(r) == IF Contains(records', r) THEN Event("RoomExpired") ELSE Event("Error")

\* join_room, with the records and lifetimes there are by then: the present room is
\* left even when the other cannot be entered.
MayEnter(r) == Contains(records', r) /\ r \notin over'

\* mutant: the interface, which opened the chat, is not told.
EnterUntold(r) ==
    /\ active' = IF MayEnter(r) THEN r ELSE NoRoom
    /\ seed' = IF MayEnter(r) THEN ResumedByRejoining(SeedOutside) ELSE SeedOutside
    /\ Tell(LeftEvents \o IF MayEnter(r) THEN <<>> ELSE <<Refused(r)>>)

Enter(r) ==
    /\ active' = IF MayEnter(r) THEN r ELSE NoRoom
    /\ seed' = IF MayEnter(r) THEN ResumedByRejoining(SeedOutside) ELSE SeedOutside
    /\ Tell(LeftEvents \o <<IF MayEnter(r) THEN Joined(r) ELSE Refused(r)>>)

JoinRoom ==
    /\ Receive("JoinRoom")
    /\ UNCHANGED <<records, over>>
    /\ Enter(Head(cmds).room)
    /\ UNCHANGED <<tui, code>>

\* create_room: a new room is saved and entered, unless its name is refused or the
\* save fails (the record stays).
CreateRoom ==
    /\ Receive("CreateRoom")
    /\ \/ \E r \in Rooms :
            /\ ~Has(r) /\ active # r
            /\ records' = Append(records, r)
            /\ UNCHANGED over
            /\ \/ Enter(r)
               \/ Tell(<<Event("Error")>>) /\ UNCHANGED <<active, seed>>
       \/ Tell(<<Event("Error")>>) /\ UNCHANGED <<active, seed, records, over>>
    /\ UNCHANGED <<tui, code>>

\* What is left of the records keeps its order.
Without(rs) ==
    /\ \E n \in 0..Len(records) : \E left \in [1..n -> Rooms] :
          /\ ToSet(left) = ToSet(records) \ rs
          /\ \A a, b \in 1..n, c, d \in DOMAIN records :
                a < b /\ left[a] = records[c] /\ left[b] = records[d] => c < d
          /\ records' = left
    /\ over' = over \ rs

DeleteRoom ==
    LET r == Head(cmds).room IN
    /\ Receive("DeleteRoom")
    /\ Without({r})
    /\ Tell(IF Has(r) THEN <<>> ELSE <<Event("Error")>>)
    /\ UNCHANGED <<tui, active, code, seed>>

\* ListRooms: expired rooms are removed on the way.
ListRooms ==
    /\ Receive("ListRooms")
    /\ Without(over)
    /\ Tell(<<Listed(records')>>)
    /\ UNCHANGED <<tui, active, code, seed>>

\* A room without a lifetime is one whose turn never comes.
Expire(r) ==
    /\ Has(r)
    /\ over' = over \cup {r}
    /\ UNCHANGED <<tui, cmds, events, active, records, code, seed>>

\* Once a minute the lifetime of the active room is looked at.
CheckExpiryOfRecords ==                             \* mutant: a removed record is fine
    /\ active # NoRoom /\ active \in over
    /\ ~Contains(events, Event("RoomExpired"))
    /\ Tell(<<Event("RoomExpired")>>)
    /\ UNCHANGED <<tui, cmds, active, records, over, code, seed>>

CheckExpiry ==
    /\ active # NoRoom /\ Gone(active)
    /\ ~Contains(events, Event("RoomExpired"))      \* bound: one at a time
    /\ Tell(<<Event("RoomExpired")>>)
    /\ UNCHANGED <<tui, cmds, active, records, over, code, seed>>
-----------------------------------------------------------------------------
(* AppCore: the rest *)

\* What comes of a code is in Invite.
EnterInviteCode ==
    /\ Receive("EnterInviteCode")
    /\ code' = "Lookup"
    /\ UNCHANGED <<tui, events, active, records, over, seed>>

CodeMoves(from, to, es) ==
    /\ code = from /\ code' = to
    /\ Tell(es)
    /\ UNCHANGED <<tui, cmds, active, records, over, seed>>

\* The lookup finds no record, or one that cannot be read.
CodeNotFound == CodeMoves("Lookup", "None", <<Event("Error")>>)

\* handle_invite_dht_result: the host named by the record is asked.
CodeResolved == CodeMoves("Lookup", "Asked", <<>>)

\* InviteRejected, or InviteAccepted with a key that cannot be read.
InviteRefusedUntold == CodeMoves("Asked", "None", <<>>)         \* mutant
InviteRefused == CodeMoves("Asked", "None", <<Event("Error")>>)

\* OutboundFailure: the host is away, or does not answer in time. The router drops it,
\* pending_invite_room_id stays set, and nobody is told.
RequestLost == CodeMoves("Asked", "Lost", <<>>)

\* RoomStore::insert
InsertedAgain(r) == Append(records, r)              \* mutant: nothing replaced
Inserted(r) == IF Has(r) THEN records ELSE Append(records, r)

\* InviteAccepted: the record is made or replaced, without a lifetime.
InviteAccepted(r) ==
    /\ code = "Asked" /\ code' = "None"
    /\ records' = Inserted(r)
    /\ over' = over \ {r}
    /\ Enter(r)
    /\ UNCHANGED <<tui, cmds>>

\* A message goes to the room AppCore is in, whatever the interface shows.
SendMessage ==
    /\ Receive("SendMessage")
    /\ Tell(<<>>)
    /\ UNCHANGED <<tui, active, records, over, code, seed>>

SeedCommand ==
    /\ \/ Receive("SeedPause") /\ seed' = "ManualPaused"
       \/ Receive("SeedResume") /\ seed' = "Active"
    /\ UNCHANGED <<tui, events, active, records, over, code>>

-----------------------------------------------------------------------------
Interface ==
    \/ Drain
    \/ KeyMainMenu \/ KeyCreateRoom \/ KeyRoomList \/ KeyInviteEntry
    \/ KeyChat

HandleCommand ==
    \/ LeaveRoom \/ JoinRoom \/ CreateRoom \/ DeleteRoom \/ ListRooms
    \/ EnterInviteCode \/ SendMessage \/ SeedCommand

Network ==
    \/ CodeNotFound \/ CodeResolved \/ InviteRefused \/ RequestLost
    \/ \E r \in Rooms : InviteAccepted(r)

Next ==
    \/ Interface
    \/ HandleCommand \/ Network \/ CheckExpiry
    \/ \E r \in Rooms : Expire(r)

Spec == Init /\ [][Next]_vars

\* The loop of the interface never stops by itself, and AppCore's select! takes its
\* ready branches in random order; neither keys nor answers need ever come.
FairSpec ==
    /\ Spec
    /\ WF_vars(Drain) /\ WF_vars(HandleCommand) /\ WF_vars(CheckExpiry)
-----------------------------------------------------------------------------
(* Properties *)

\* A list is only kept by the list of rooms, a room only by a chat, and a step only
\* by the entry of codes.
TypeOK ==
    /\ phase \in {"drain", "key"}
    /\ screen \in [at : Screens, room : Rooms \cup {NoRoom}, expired : BOOLEAN,
                   step : Steps, list : Seq(Rooms), marked : Nat]
    /\ screen.at = "Chat" <=> screen.room # NoRoom
    /\ screen.at # "Chat" => ~screen.expired
    /\ screen.at # "RoomList" => screen.list = <<>> /\ screen.marked = 0
    /\ screen.at # "InviteEntry" => screen.step = "UrlInput"
    /\ cmds \in Seq(Commands) /\ Len(cmds) <= MaxCommands
    /\ events \in Seq(Events) /\ Len(events) <= MaxEvents
    /\ active \in Rooms \cup {NoRoom}
    /\ records \in Seq(Rooms) /\ IsInjective(records)
    /\ over \subseteq ToSet(records)
    /\ code \in CodeStates
    /\ seed \in SeedStates

Quiet == cmds = <<>> /\ events = <<>>

\* Once everything sent is handled, AppCore is in a room only while its chat is on
\* the screen, and a chat on the screen that is not marked expired is of the room
\* AppCore is in, unless the room could not be found.
RoomAgrees ==
    Quiet => /\ active # NoRoom => screen.at = "Chat" /\ screen.room = active
             /\ screen.at = "Chat" /\ ~screen.expired /\ Has(screen.room) =>
                    active = screen.room

\* Once everything sent is handled, only the chat of a room that is over or removed
\* is marked expired, although the event names no room.
ExpiredIsGone == Quiet /\ screen.expired => Gone(screen.room)

\* Once everything sent is handled, nobody waits for the answer to a code that was
\* accepted, refused or not found: what ends a code ends the wait for it. A request
\* that was lost does not: its user waits on.
WaitingIsPending == Quiet /\ screen.step = "Waiting" => code # "None"

\* A message typed while nothing was under way that changes the room is sent in the
\* room that was on the screen, or nowhere, although the command names no room.
MessagesGoWhereTyped ==
    cmds # <<>> /\ Head(cmds).do = "SendMessage" /\ Head(cmds).settled =>
        active \in {NoRoom, Head(cmds).room}

\* A seed paused by leaving is resumed on entering a room, and one paused by hand
\* only by hand.
SeedsFollowRooms ==
    [][/\ seed' = "AutoPaused" => active' = NoRoom
       /\ seed = "ManualPaused" /\ seed' # seed => HandleCommand /\ active' = active]_vars

\* A chat opened before its room is joined does not stay so.
ChatSettles ==
    []<>~(screen.at = "Chat" /\ ~screen.expired /\ active # screen.room /\ Has(screen.room))

\* A user is told in the end of the loss of the room he is in, also when its record
\* was removed under him.
LossIsShown == []<>~(active # NoRoom /\ Gone(active) /\ ~screen.expired)
=============================================================================
