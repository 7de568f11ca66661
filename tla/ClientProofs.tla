---------------------------- MODULE ClientProofs ----------------------------
(***************************************************************************)
(* Theorems about Client, for every set of rooms and any number of         *)
(* commands and events waiting.                                            *)
(***************************************************************************)
EXTENDS Client, SequenceTheorems, TLAPS

-----------------------------------------------------------------------------
(* What is under way *)

\* The screens are moved by the entry into a room and by the way out of one.
Moves == {"JoinedRoom", "LeftRoom"}
FromChat == {"SeedPause", "SeedResume", "SendMessage"}

Moved(es) == \E n \in DOMAIN es : es[n].kind \in Moves
NotMoved(es, n) == \A m \in DOMAIN es : m > n => es[m].kind \notin Moves

\* The last move among the events is into room r.
EndsIn(es, r) ==
    \E n \in DOMAIN es : es[n].kind = "JoinedRoom" /\ es[n].room = r /\ NotMoved(es, n)

\* Among the events is an expiry with no move after it.
Expires(es) == \E n \in DOMAIN es : es[n].kind = "RoomExpired" /\ NotMoved(es, n)

Fails(es) == \E n \in DOMAIN es : es[n].kind = "Error"

\* Among the commands is the one to join room r, and after it only what is typed in a chat.
Opening(cs, r) ==
    \E n \in DOMAIN cs : /\ cs[n].do = "JoinRoom" /\ cs[n].room = r
                         /\ \A m \in DOMAIN cs : m > n => cs[m].do \in FromChat

Asked(cs, do) == \E n \in DOMAIN cs : cs[n].do = do

\* What is under way when the first event has been taken.
LEMMA EventTaken ==
    ASSUME NEW es \in Seq(Events), es # <<>>
    PROVE  LET e == Head(es)  rest == Tail(es) IN
           /\ e \in Events /\ rest \in Seq(Events) /\ Len(rest) = Len(es) - 1
           /\ \A n \in DOMAIN rest : rest[n] = es[n + 1] /\ n + 1 \in DOMAIN es
           /\ e = es[1] /\ 1 \in DOMAIN es
           /\ Moved(es) <=> Moved(rest) \/ e.kind \in Moves
           /\ \A r : EndsIn(es, r) <=>
                \/ EndsIn(rest, r)
                \/ e.kind = "JoinedRoom" /\ e.room = r /\ ~Moved(rest)
           /\ Expires(es) <=> Expires(rest) \/ (e.kind = "RoomExpired" /\ ~Moved(rest))
           /\ Fails(es) <=> Fails(rest) \/ e.kind = "Error"
<1> DEFINE e == Head(es)
           rest == Tail(es)
<1>1. /\ e \in Events /\ rest \in Seq(Events) /\ Len(rest) = Len(es) - 1
      /\ \A n \in 1..Len(rest) : rest[n] = es[n + 1]
  BY HeadTailProperties
<1>2. e = es[1] /\ Len(es) \in Nat \ {0}
  BY EmptySeq
<1>3. /\ DOMAIN es = 1..Len(es) /\ DOMAIN rest = 1..Len(rest)
      /\ Len(rest) = Len(es) - 1 /\ Len(es) \in Nat \ {0}
  BY <1>1, <1>2
<1> HIDE DEF e, rest
<1>4. \A n \in DOMAIN es : n = 1 \/ (n - 1 \in DOMAIN rest /\ rest[n - 1] = es[n])
  BY <1>1, <1>3
<1>5. \A n \in DOMAIN rest : rest[n] = es[n + 1] /\ n + 1 \in DOMAIN es
  BY <1>1, <1>3
<1>6. 1 \in DOMAIN es
  BY <1>3
<1>7. Moved(es) <=> Moved(rest) \/ e.kind \in Moves
  BY <1>2, <1>4, <1>5, <1>6 DEF Moved
<1>8. NotMoved(es, 1) <=> ~Moved(rest)
  BY <1>3, <1>4, <1>5 DEF NotMoved, Moved
<1>9. ASSUME NEW n \in DOMAIN rest PROVE NotMoved(es, n + 1) <=> NotMoved(rest, n)
  <2>1. ASSUME NotMoved(es, n + 1), NEW m \in DOMAIN rest, m > n
        PROVE  rest[m].kind \notin Moves
    BY <1>3, <1>5, <2>1 DEF NotMoved
  <2>2. ASSUME NotMoved(rest, n), NEW m \in DOMAIN es, m > n + 1
        PROVE  es[m].kind \notin Moves
    <3>1. m - 1 \in DOMAIN rest /\ rest[m - 1] = es[m] /\ m - 1 > n
      BY <1>3, <1>4, <2>2
    <3> QED BY <2>2, <3>1 DEF NotMoved
  <2> QED BY <2>1, <2>2 DEF NotMoved
<1>10. ASSUME NEW r
       PROVE  EndsIn(es, r) <=> \/ EndsIn(rest, r)
                                \/ e.kind = "JoinedRoom" /\ e.room = r /\ ~Moved(rest)
  <2>1. EndsIn(rest, r) => EndsIn(es, r)
    BY <1>5, <1>9 DEF EndsIn
  <2>2. e.kind = "JoinedRoom" /\ e.room = r /\ ~Moved(rest) => EndsIn(es, r)
    BY <1>2, <1>6, <1>8 DEF EndsIn
  <2>3. ASSUME NEW n \in DOMAIN es, es[n].kind = "JoinedRoom", es[n].room = r, NotMoved(es, n)
        PROVE  \/ EndsIn(rest, r)
               \/ e.kind = "JoinedRoom" /\ e.room = r /\ ~Moved(rest)
    <3>1. CASE n = 1
      BY <2>3, <3>1, <1>2, <1>8
    <3>2. CASE n # 1
      <4>1. n - 1 \in DOMAIN rest /\ rest[n - 1] = es[n] /\ (n - 1) + 1 = n
        BY <3>2, <1>3, <1>4
      <4> QED BY <2>3, <4>1, <1>9 DEF EndsIn
    <3> QED BY <3>1, <3>2
  <2> QED BY <2>1, <2>2, <2>3 DEF EndsIn
<1>11. Expires(es) <=> Expires(rest) \/ (e.kind = "RoomExpired" /\ ~Moved(rest))
  <2>1. Expires(rest) => Expires(es)
    BY <1>5, <1>9 DEF Expires
  <2>2. e.kind = "RoomExpired" /\ ~Moved(rest) => Expires(es)
    BY <1>2, <1>6, <1>8 DEF Expires
  <2>3. ASSUME NEW n \in DOMAIN es, es[n].kind = "RoomExpired", NotMoved(es, n)
        PROVE  Expires(rest) \/ (e.kind = "RoomExpired" /\ ~Moved(rest))
    <3>1. CASE n = 1
      BY <2>3, <3>1, <1>2, <1>8
    <3>2. CASE n # 1
      <4>1. n - 1 \in DOMAIN rest /\ rest[n - 1] = es[n] /\ (n - 1) + 1 = n
        BY <3>2, <1>3, <1>4
      <4> QED BY <2>3, <4>1, <1>9 DEF Expires
    <3> QED BY <3>1, <3>2
  <2> QED BY <2>1, <2>2, <2>3 DEF Expires
<1>12. Fails(es) <=> Fails(rest) \/ e.kind = "Error"
  BY <1>2, <1>4, <1>5, <1>6 DEF Fails
<1> QED BY <1>1, <1>2, <1>5, <1>6, <1>7, <1>10, <1>11, <1>12 DEF e, rest

\* What is under way when an event has been sent.
LEMMA EventSent ==
    ASSUME NEW es \in Seq(Events), NEW e \in Events
    PROVE  LET all == Append(es, e) IN
           /\ all \in Seq(Events) /\ Len(all) = Len(es) + 1
           /\ \A n \in DOMAIN all : all[n] = e \/ (n \in DOMAIN es /\ all[n] = es[n])
           /\ Moved(all) <=> Moved(es) \/ e.kind \in Moves
           /\ \A r : EndsIn(all, r) <=>
                \/ e.kind = "JoinedRoom" /\ e.room = r
                \/ EndsIn(es, r) /\ e.kind \notin Moves
           /\ Expires(all) <=> e.kind = "RoomExpired" \/ (Expires(es) /\ e.kind \notin Moves)
           /\ Fails(all) <=> Fails(es) \/ e.kind = "Error"
<1> DEFINE all == Append(es, e)
           last == Len(es) + 1
<1>1. /\ all \in Seq(Events) /\ Len(all) = last
      /\ \A n \in 1..Len(es) : all[n] = es[n]
      /\ all[last] = e
  BY AppendProperties
<1>2. /\ DOMAIN es = 1..Len(es) /\ DOMAIN all = 1..last /\ Len(es) \in Nat
      /\ last = Len(es) + 1
  BY <1>1
<1> HIDE DEF all, last
<1>3. \A n \in DOMAIN all : n = last \/ (n \in DOMAIN es /\ all[n] = es[n] /\ n < last)
  BY <1>1, <1>2
<1>4. \A n \in DOMAIN es : n \in DOMAIN all /\ all[n] = es[n] /\ n < last
  BY <1>1, <1>2
<1>5. last \in DOMAIN all /\ all[last] = e
  BY <1>1, <1>2
<1>6. Moved(all) <=> Moved(es) \/ e.kind \in Moves
  BY <1>3, <1>4, <1>5 DEF Moved
<1>7. NotMoved(all, last)
  BY <1>2 DEF NotMoved
<1>8. \A n \in DOMAIN es : NotMoved(all, n) <=> NotMoved(es, n) /\ e.kind \notin Moves
  BY <1>3, <1>4, <1>5 DEF NotMoved
<1>9. ASSUME NEW r
      PROVE  EndsIn(all, r) <=> \/ e.kind = "JoinedRoom" /\ e.room = r
                                \/ EndsIn(es, r) /\ e.kind \notin Moves
  BY <1>3, <1>4, <1>5, <1>7, <1>8 DEF EndsIn
<1>10. Expires(all) <=> e.kind = "RoomExpired" \/ (Expires(es) /\ e.kind \notin Moves)
  BY <1>3, <1>4, <1>5, <1>7, <1>8 DEF Expires
<1>11. Fails(all) <=> Fails(es) \/ e.kind = "Error"
  BY <1>3, <1>4, <1>5 DEF Fails
<1> QED BY <1>1, <1>2, <1>3, <1>5, <1>6, <1>9, <1>10, <1>11 DEF all, last

\* A handler sends none, one or two events.
LEMMA Sent ==
    ASSUME NEW es \in Seq(Events), NEW e \in Events, NEW f \in Events
    PROVE  /\ es \o <<>> = es
           /\ es \o <<e>> = Append(es, e)
           /\ es \o (<<e>> \o <<f>>) = Append(Append(es, e), f)
           /\ <<>> \o <<e>> = <<e>>
           /\ Len(<<e>>) = 1 /\ Len(<<e>> \o <<f>>) = 2
<1>1. <<e>> \in Seq(Events) /\ <<f>> \in Seq(Events)
  OBVIOUS
<1>2. Append(es, e) \in Seq(Events) /\ es \o <<e>> = Append(es, e)
  BY AppendProperties, AppendIsConcat
<1>3. es \o (<<e>> \o <<f>>) = (es \o <<e>>) \o <<f>>
  BY <1>1, ConcatAssociative
<1>4. Append(es, e) \o <<f>> = Append(Append(es, e), f)
  BY <1>2, AppendIsConcat
<1>5. Len(<<e>> \o <<f>>) = 2
  BY <1>1, ConcatProperties
<1> QED BY <1>1, <1>2, <1>3, <1>4, <1>5, ConcatEmptySeq

\* What is left when a command has been received.
LEMMA CommandTaken ==
    ASSUME NEW cs \in Seq(Commands), cs # <<>>
    PROVE  LET c == Head(cs)  rest == Tail(cs) IN
           /\ c \in Commands /\ rest \in Seq(Commands) /\ Len(rest) = Len(cs) - 1
           /\ \A n \in DOMAIN rest : rest[n] = cs[n + 1] /\ n + 1 \in DOMAIN cs
           /\ c = cs[1] /\ 1 \in DOMAIN cs
           /\ \A r : Opening(cs, r) =>
                \/ Opening(rest, r)
                \/ /\ c.do = "JoinRoom" /\ c.room = r
                   /\ \A n \in DOMAIN rest : rest[n].do \in FromChat
           /\ \A do : Asked(cs, do) <=> Asked(rest, do) \/ c.do = do
<1> DEFINE c == Head(cs)
           rest == Tail(cs)
<1>1. /\ c \in Commands /\ rest \in Seq(Commands) /\ Len(rest) = Len(cs) - 1
      /\ \A n \in 1..Len(rest) : rest[n] = cs[n + 1]
  BY HeadTailProperties
<1>2. c = cs[1] /\ Len(cs) \in Nat \ {0}
  BY EmptySeq
<1>3. /\ DOMAIN cs = 1..Len(cs) /\ DOMAIN rest = 1..Len(rest)
      /\ Len(rest) = Len(cs) - 1 /\ Len(cs) \in Nat \ {0}
  BY <1>1, <1>2
<1> HIDE DEF c, rest
<1>4. \A n \in DOMAIN cs : n = 1 \/ (n - 1 \in DOMAIN rest /\ rest[n - 1] = cs[n])
  BY <1>1, <1>3
<1>5. \A n \in DOMAIN rest : rest[n] = cs[n + 1] /\ n + 1 \in DOMAIN cs
  BY <1>1, <1>3
<1>6. 1 \in DOMAIN cs
  BY <1>3
<1>7. ASSUME NEW r, NEW n \in DOMAIN cs, cs[n].do = "JoinRoom", cs[n].room = r,
             \A m \in DOMAIN cs : m > n => cs[m].do \in FromChat
      PROVE  \/ Opening(rest, r)
             \/ /\ c.do = "JoinRoom" /\ c.room = r
                /\ \A m \in DOMAIN rest : rest[m].do \in FromChat
  <2>1. \A m \in DOMAIN rest : m + 1 > n => rest[m].do \in FromChat
    BY <1>5, <1>7
  <2>2. CASE n = 1
    BY <1>2, <1>3, <1>7, <2>1, <2>2
  <2>3. CASE n # 1
    <3>1. n - 1 \in DOMAIN rest /\ rest[n - 1] = cs[n]
      BY <2>3, <1>4
    <3>2. \A m \in DOMAIN rest : m > n - 1 => rest[m].do \in FromChat
      BY <1>3, <2>1
    <3> QED BY <1>7, <3>1, <3>2 DEF Opening
  <2> QED BY <2>2, <2>3
<1>8. ASSUME NEW do PROVE Asked(cs, do) <=> Asked(rest, do) \/ c.do = do
  BY <1>2, <1>4, <1>5, <1>6 DEF Asked
<1> QED BY <1>1, <1>2, <1>5, <1>6, <1>7, <1>8 DEF Opening, c, rest

\* What is waiting when a command has been sent.
LEMMA CommandSent ==
    ASSUME NEW cs \in Seq(Commands), NEW c \in Commands
    PROVE  LET all == Append(cs, c) IN
           /\ all \in Seq(Commands) /\ Len(all) = Len(cs) + 1
           /\ \A n \in DOMAIN all : \/ n \in DOMAIN cs /\ all[n] = cs[n] /\ n < Len(all)
                                    \/ n = Len(all) /\ all[n] = c
           /\ \A n \in DOMAIN cs : n \in DOMAIN all /\ all[n] = cs[n]
           /\ \A r : Opening(cs, r) /\ c.do \in FromChat => Opening(all, r)
           /\ c.do = "JoinRoom" => Opening(all, c.room)
           /\ \A do : Asked(all, do) <=> Asked(cs, do) \/ c.do = do
<1> DEFINE all == Append(cs, c)
           last == Len(cs) + 1
<1>1. /\ all \in Seq(Commands) /\ Len(all) = last
      /\ \A n \in 1..Len(cs) : all[n] = cs[n]
      /\ all[last] = c
  BY AppendProperties
<1>2. /\ DOMAIN cs = 1..Len(cs) /\ DOMAIN all = 1..last /\ Len(cs) \in Nat
      /\ last = Len(cs) + 1
  BY <1>1
<1> HIDE DEF all, last
<1>3. \A n \in DOMAIN all : n = last \/ (n \in DOMAIN cs /\ all[n] = cs[n] /\ n < last)
  BY <1>1, <1>2
<1>4. \A n \in DOMAIN cs : n \in DOMAIN all /\ all[n] = cs[n] /\ n < last
  BY <1>1, <1>2
<1>5. last \in DOMAIN all /\ all[last] = c
  BY <1>1, <1>2
<1>6. ASSUME NEW r, Opening(cs, r), c.do \in FromChat PROVE Opening(all, r)
  BY <1>3, <1>4, <1>5, <1>6 DEF Opening
<1>7. ASSUME c.do = "JoinRoom" PROVE Opening(all, c.room)
  <2>1. \A m \in DOMAIN all : ~(m > last)
    BY <1>2
  <2> QED BY <1>5, <1>7, <2>1 DEF Opening
<1>8. ASSUME NEW do PROVE Asked(all, do) <=> Asked(cs, do) \/ c.do = do
  BY <1>3, <1>4, <1>5 DEF Asked
<1> QED BY <1>1, <1>3, <1>4, <1>5, <1>6, <1>7, <1>8 DEF all, last
-----------------------------------------------------------------------------
(* The inductive invariant *)

\* A room entered or to be entered is one.
RoomsNamed ==
    /\ \A n \in DOMAIN events : events[n].kind = "JoinedRoom" => events[n].room # NoRoom
    /\ \A n \in DOMAIN cmds : cmds[n].do = "JoinRoom" => cmds[n].room # NoRoom

SeedInv == seed = "AutoPaused" => active = NoRoom

\* The events lead where AppCore is.
EventsInv ==
    /\ \A r \in Rooms : EndsIn(events, r) => active = r
    /\ active # NoRoom => \/ EndsIn(events, active)
                          \/ screen.room = active /\ ~Moved(events)
                          \/ Asked(cmds, "LeaveRoom") \/ Asked(cmds, "JoinRoom")
    /\ Expires(events) /\ active # NoRoom => Gone(active)

\* A chat shown whose room was refused, with nothing under way that could make it again.
Refusal(r) ==
    /\ Gone(r) /\ ~Asked(cmds, "CreateRoom")
    /\ screen.expired \/ ~Has(r) \/ Expires(events)

ChatInv ==
    screen.at = "Chat" /\ ~Opening(cmds, screen.room) /\ ~Moved(events) =>
        /\ active = screen.room \/ Refusal(screen.room)
        /\ screen.expired => Gone(screen.room)

WaitingInv ==
    screen.step = "Waiting" =>
        code # "None" \/ Asked(cmds, "EnterInviteCode") \/ Moved(events) \/ Fails(events)

MessagesInv ==
    \A n \in DOMAIN cmds : cmds[n].do = "SendMessage" /\ cmds[n].settled =>
        /\ active \in {NoRoom, cmds[n].room} /\ ~CodeUnderWay
        /\ \A m \in DOMAIN cmds : m < n => cmds[m].do \notin Unsettling

IInv ==
    /\ TypeOK /\ RoomsNamed /\ SeedInv
    /\ EventsInv /\ ChatInv /\ WaitingInv /\ MessagesInv
-----------------------------------------------------------------------------
(* Values *)

ScreenOK(s) ==
    /\ s \in [at : Screens, room : Rooms \cup {NoRoom}, expired : BOOLEAN,
              step : Steps, list : Seq(Rooms), marked : Nat]
    /\ s.at = "Chat" <=> s.room # NoRoom
    /\ s.at # "Chat" => ~s.expired
    /\ s.at # "RoomList" => s.list = <<>> /\ s.marked = 0
    /\ s.at # "InviteEntry" => s.step = "UrlInput"

ChannelsOK ==
    /\ cmds \in Seq(Commands) /\ Len(cmds) <= MaxCommands
    /\ events \in Seq(Events) /\ Len(events) <= MaxEvents

RecordsOK ==
    /\ records \in Seq(Rooms) /\ IsInjective(records)
    /\ over \subseteq ToSet(records)

AppOK ==
    /\ active \in Rooms \cup {NoRoom} /\ RecordsOK
    /\ code \in CodeStates
    /\ seed \in SeedStates

LEMMA TypeParts ==
    TypeOK <=> phase \in {"drain", "key"} /\ ScreenOK(screen) /\ ChannelsOK /\ AppOK
BY DEF TypeOK, ScreenOK, ChannelsOK, AppOK, RecordsOK

LEMMA TypePartsNext ==
    TypeOK' <=> /\ phase' \in {"drain", "key"} /\ ScreenOK(screen)'
                /\ ChannelsOK' /\ AppOK'
BY DEF TypeOK, ScreenOK, ChannelsOK, AppOK, RecordsOK

LEMMA ScreenValues ==
    /\ ScreenOK(Menu) /\ Menu.at = "MainMenu" /\ Menu.step = "UrlInput" /\ Menu.room = NoRoom
    /\ \A at \in {"RoomList", "MainMenu"} :
          /\ ScreenOK(Screen(at)) /\ Screen(at).at = at
          /\ Screen(at).room = NoRoom /\ Screen(at).step = "UrlInput"
    /\ \A step \in Steps : /\ ScreenOK(Entry(step)) /\ Entry(step).at = "InviteEntry"
                           /\ Entry(step).room = NoRoom /\ Entry(step).step = step
    /\ \A r \in Rooms : /\ ScreenOK(Chat(r)) /\ Chat(r).at = "Chat" /\ Chat(r).room = r
                        /\ ~Chat(r).expired /\ Chat(r).step = "UrlInput"
<1>1. NoRoom \notin Rooms /\ <<>> \in Seq(Rooms)
  BY ClientAssumption
<1> QED BY <1>1 DEF ScreenOK, Screen, Menu, Entry, Chat, Screens, Steps

LEMMA EventValues ==
    /\ \A kind \in {"LeftRoom", "RoomExpired", "Error"} :
          Event(kind) \in Events /\ Event(kind).kind = kind
    /\ \A r \in Rooms : /\ Joined(r) \in Events /\ Joined(r).kind = "JoinedRoom"
                        /\ Joined(r).room = r
    /\ \A rs \in Seq(Rooms) : /\ Listed(rs) \in Events /\ Listed(rs).kind = "RoomList"
                              /\ Listed(rs).list = rs
<1>1. <<>> \in Seq(Rooms)
  OBVIOUS
<1> QED BY <1>1 DEF Event, Events, Joined, Listed
-----------------------------------------------------------------------------
(* Records *)

LEMMA HasRecord ==
    ASSUME NEW rs \in Seq(Rooms), NEW r
    PROVE  Contains(rs, r) <=> r \in ToSet(rs)
BY DEF Contains, ToSet

\* What is removed keeps the rest, and no room that is over or without a record
\* becomes one to enter.
LEMMA WithoutKeeps ==
    ASSUME RecordsOK, NEW gone, Without(gone)
    PROVE  /\ RecordsOK'
           /\ \A q \in Rooms : (Gone(q) => Gone(q)') /\ (~Has(q) => ~Has(q)')
           /\ \A q \in gone : ~Has(q)'
<1>0. PICK n \in 0..Len(records) : \E left \in [1..n -> Rooms] :
          /\ ToSet(left) = ToSet(records) \ gone
          /\ \A a, b \in 1..n, c, d \in DOMAIN records :
                a < b /\ left[a] = records[c] /\ left[b] = records[d] => c < d
          /\ records' = left
  BY DEF Without
<1>1. PICK left \in [1..n -> Rooms] :
          /\ ToSet(left) = ToSet(records) \ gone
          /\ \A a, b \in 1..n, c, d \in DOMAIN records :
                a < b /\ left[a] = records[c] /\ left[b] = records[d] => c < d
          /\ records' = left
  BY <1>0
<1>2. records \in Seq(Rooms) /\ n \in Nat
  BY DEF RecordsOK
<1>3. left \in Seq(Rooms)
  BY <1>2
<1>4. ASSUME NEW a \in 1..n, NEW b \in 1..n, left[a] = left[b] PROVE a = b
  <2>1. left[a] \in ToSet(left)
    BY DEF ToSet
  <2>2. PICK c \in DOMAIN records : left[a] = records[c]
    BY <1>1, <2>1 DEF ToSet
  <2>3. ~(a < b) /\ ~(b < a)
    <3>1. c \in Nat
      BY <1>2
    <3>2. ~(c < c)
      BY <3>1
    <3>3. \A i, j \in 1..n : i < j /\ left[i] = records[c] /\ left[j] = records[c] => c < c
      BY <1>1, <2>2
    <3>4. left[b] = records[c]
      BY <1>4, <2>2
    <3> QED BY <3>2, <3>3, <3>4, <2>2
  <2> QED BY <1>2, <2>3
<1>5. IsInjective(left)
  BY <1>4 DEF IsInjective
<1>6. \A q : Contains(left, q) <=> Contains(records, q) /\ q \notin gone
  BY <1>1, <1>2, <1>3, HasRecord
<1>7. over' = over \ gone /\ over' \subseteq ToSet(left)
  BY <1>1 DEF Without, RecordsOK
<1>8. RecordsOK'
  BY <1>1, <1>3, <1>5, <1>7 DEF RecordsOK
<1>9. \A q : Has(q)' <=> Has(q) /\ q \notin gone
  BY <1>1, <1>6 DEF Has
<1>10. \A q \in Rooms : Gone(q) => Gone(q)'
  BY <1>7, <1>9 DEF Gone
<1> QED BY <1>8, <1>9, <1>10

LEMMA AppendRecord ==
    ASSUME RecordsOK, NEW r \in Rooms, ~Has(r)
    PROVE  LET all == Append(records, r) IN
           /\ all \in Seq(Rooms) /\ IsInjective(all) /\ over \subseteq ToSet(all)
           /\ \A q : Contains(all, q) <=> Has(q) \/ q = r
<1> DEFINE all == Append(records, r)
           last == Len(records) + 1
<1>0. records \in Seq(Rooms) /\ IsInjective(records)
  BY DEF RecordsOK
<1>1. /\ all \in Seq(Rooms) /\ Len(all) = last
      /\ \A n \in 1..Len(records) : all[n] = records[n]
      /\ all[last] = r
  BY <1>0, AppendProperties
<1>2. /\ DOMAIN records = 1..Len(records) /\ DOMAIN all = 1..last /\ Len(records) \in Nat
      /\ last = Len(records) + 1
  BY <1>0, <1>1
<1> HIDE DEF all, last
<1>3. \A n \in DOMAIN all : n = last \/ (n \in DOMAIN records /\ all[n] = records[n])
  BY <1>1, <1>2
<1>4. \A n \in DOMAIN records : n \in DOMAIN all /\ all[n] = records[n]
  BY <1>1, <1>2
<1>5. last \in DOMAIN all /\ all[last] = r
  BY <1>1, <1>2
<1>6. \A n \in DOMAIN records : records[n] # r
  BY <1>2 DEF Has, Contains
<1>7. IsInjective(all)
  BY <1>0, <1>3, <1>5, <1>6 DEF IsInjective
<1>8. \A q : q \in ToSet(all) <=> q \in ToSet(records) \/ q = r
  BY <1>3, <1>4, <1>5 DEF ToSet
<1>9. \A q : Contains(all, q) <=> Has(q) \/ q = r
  BY <1>0, <1>1, <1>8, HasRecord DEF Has
<1>10. over \subseteq ToSet(all)
  BY <1>8 DEF RecordsOK
<1> QED BY <1>1, <1>7, <1>9, <1>10 DEF all
-----------------------------------------------------------------------------
(* What AppCore does *)

EventsTyped ==
    /\ events \in Seq(Events) /\ Len(events) <= MaxEvents
    /\ \A n \in DOMAIN events : events[n].kind = "JoinedRoom" => events[n].room # NoRoom

CommandsTyped ==
    /\ cmds \in Seq(Commands) /\ Len(cmds) <= MaxCommands
    /\ \A n \in DOMAIN cmds : cmds[n].do = "JoinRoom" => cmds[n].room # NoRoom

\* It enters room r, and the interface will.
Joins(r) ==
    /\ active' = r /\ EndsIn(events', r) /\ Moved(events') /\ ~Expires(events')
    /\ \A q \in Rooms : EndsIn(events', q) => q = r

\* It is in no room afterwards.
GoesOut ==
    /\ active' = NoRoom
    /\ \A q \in Rooms : ~EndsIn(events', q)
    /\ active # NoRoom \/ Moved(events) => Moved(events')
    /\ Expires(events) => Expires(events') \/ Moved(events')
    /\ Fails(events) => Fails(events')

\* It is where it was.
Stays ==
    /\ active' = active
    /\ \A q \in Rooms : EndsIn(events', q) <=> EndsIn(events, q)
    /\ Moved(events') <=> Moved(events)
    /\ Expires(events) => Expires(events')
    /\ Expires(events') => Expires(events) \/ active = NoRoom \/ Gone(active)
    /\ Fails(events) => Fails(events')

LEMMA TypedParts ==
    IInv <=> /\ phase \in {"drain", "key"} /\ ScreenOK(screen) /\ AppOK
             /\ EventsTyped /\ CommandsTyped
             /\ SeedInv /\ EventsInv /\ ChatInv /\ WaitingInv /\ MessagesInv
BY TypeParts DEF IInv, ChannelsOK, EventsTyped, CommandsTyped, RoomsNamed

LEMMA TypedPartsNext ==
    IInv' <=> /\ phase' \in {"drain", "key"} /\ ScreenOK(screen)' /\ AppOK'
              /\ EventsTyped' /\ CommandsTyped'
              /\ SeedInv' /\ EventsInv' /\ ChatInv' /\ WaitingInv' /\ MessagesInv'
BY TypePartsNext DEF IInv, ChannelsOK, EventsTyped, CommandsTyped, RoomsNamed

LEMMA TellsNothing ==
    ASSUME EventsTyped, Tell(<<>>)
    PROVE  events' = events
BY Sent, ConcatEmptySeq DEF EventsTyped, Tell

LEMMA EventsSame ==
    ASSUME EventsTyped, events' = events, active' = active
    PROVE  EventsTyped' /\ Stays
BY DEF EventsTyped, Stays

\* An event that does not move the screens.
LEMMA TellsOne ==
    ASSUME EventsTyped, NEW e \in Events, e.kind \notin Moves, active' = active,
           e.kind = "RoomExpired" => Gone(active), Tell(<<e>>)
    PROVE  EventsTyped' /\ Stays /\ (e.kind = "Error" => Fails(events'))
<1>1. /\ events \in Seq(Events) /\ events' = Append(events, e)
      /\ Len(events) + 1 <= MaxEvents
  BY Sent DEF EventsTyped, Tell
<1>2. EventsTyped'
  BY <1>1, EventSent DEF EventsTyped, Moves
<1>3. /\ \A q : EndsIn(events', q) <=> EndsIn(events, q) \/ (e.kind = "JoinedRoom" /\ e.room = q)
      /\ Moved(events') <=> Moved(events)
      /\ Expires(events') <=> Expires(events) \/ e.kind = "RoomExpired"
      /\ Fails(events') <=> Fails(events) \/ e.kind = "Error"
  BY <1>1, EventSent
<1>4. e.kind # "JoinedRoom"
  BY DEF Moves
<1>5. Stays
  BY <1>3, <1>4 DEF Stays
<1> QED BY <1>2, <1>3, <1>5

LEMMA EndsMoves == \A es, r : EndsIn(es, r) => Moved(es)
BY DEF EndsIn, Moved, Moves

LEMMA NoneEnds ==
    ASSUME EventsTyped, EventsInv, active = NoRoom
    PROVE  \A q \in Rooms : ~EndsIn(events, q)
BY ClientAssumption DEF EventsInv

\* After the events of a way out, if there is a room to leave.
LEMMA LeftFirst ==
    ASSUME EventsTyped, EventsInv, active' = NoRoom, Tell(LeftEvents)
    PROVE  EventsTyped' /\ GoesOut
<1>1. CASE active = NoRoom
  <2>1. events' = events
    BY <1>1, TellsNothing DEF LeftEvents
  <2> QED BY <1>1, <2>1, NoneEnds DEF GoesOut, EventsTyped
<1>2. CASE active # NoRoom
  <2> DEFINE e == Event("LeftRoom")
  <2>0. e \in Events /\ e.kind = "LeftRoom"
    BY EventValues
  <2>1. /\ events \in Seq(Events) /\ events' = Append(events, e)
        /\ Len(events) + 1 <= MaxEvents
    BY <1>2, <2>0, Sent DEF EventsTyped, Tell, LeftEvents
  <2> HIDE DEF e
  <2>2. EventsTyped'
    BY <2>0, <2>1, EventSent DEF EventsTyped
  <2>3. GoesOut
    BY <2>0, <2>1, EventSent DEF GoesOut, Moves
  <2> QED BY <2>2, <2>3
<1> QED BY <1>1, <1>2

\* Entering, or trying to: what is told last is the entry or the refusal.
LEMMA EnterTells ==
    ASSUME EventsTyped, NEW e \in Events, Tell(LeftEvents \o <<e>>),
           e.kind = "JoinedRoom" => e.room # NoRoom
    PROVE  /\ EventsTyped'
           /\ \E es \in Seq(Events) :
                /\ events' = Append(es, e)
                /\ IF active = NoRoom THEN es = events
                                      ELSE es = Append(events, Event("LeftRoom"))
<1> DEFINE f == Event("LeftRoom")
<1>0. f \in Events /\ f.kind = "LeftRoom"
  BY EventValues
<1>1. CASE active = NoRoom
  <2>1. /\ events \in Seq(Events) /\ events' = Append(events, e)
        /\ Len(events) + 1 <= MaxEvents
    BY <1>0, <1>1, Sent DEF EventsTyped, Tell, LeftEvents
  <2>2. EventsTyped'
    BY <2>1, EventSent DEF EventsTyped
  <2> QED BY <1>1, <2>1, <2>2
<1>2. CASE active # NoRoom
  <2> DEFINE es == Append(events, f)
  <2>1. /\ events \in Seq(Events) /\ events' = Append(es, e)
        /\ Len(events) + 2 <= MaxEvents
    BY <1>0, <1>2, Sent DEF EventsTyped, Tell, LeftEvents
  <2> HIDE DEF f
  <2>2. /\ es \in Seq(Events) /\ Len(es) = Len(events) + 1
        /\ \A n \in DOMAIN es : es[n] = f \/ (n \in DOMAIN events /\ es[n] = events[n])
    BY <1>0, <2>1, EventSent
  <2> HIDE DEF es
  <2>3. EventsTyped'
    BY <1>0, <2>1, <2>2, EventSent DEF EventsTyped
  <2> QED BY <1>2, <2>1, <2>2, <2>3 DEF es, f
<1> QED BY <1>1, <1>2

LEMMA EnterSeed ==
    ASSUME seed \in SeedStates, NEW r, Enter(r)
    PROVE  seed' \in SeedStates /\ (MayEnter(r) => seed' # "AutoPaused")
BY DEF Enter, SeedOutside, PausedByLeaving, ResumedByRejoining, SeedStates

LEMMA EnterDoes ==
    ASSUME EventsTyped, EventsInv, AppOK, NEW r \in Rooms, Enter(r)
    PROVE  /\ EventsTyped' /\ active' \in Rooms \cup {NoRoom}
           /\ seed' \in SeedStates /\ SeedInv'
           /\ \/ Joins(r) /\ MayEnter(r)
              \/ /\ GoesOut /\ Gone(r)'
                 /\ Has(r)' => Expires(events')
                 /\ ~Has(r)' => Fails(events')
<1> DEFINE e == IF MayEnter(r) THEN Joined(r) ELSE Refused(r)
<1>0. r # NoRoom /\ Has(r)' = Contains(records', r)
  BY ClientAssumption DEF Has
<1>1. e \in Events /\ (e.kind = "JoinedRoom" => e.room # NoRoom)
  BY <1>0, EventValues DEF Refused
<1>2. CASE MayEnter(r)
  <2>1. e.kind = "JoinedRoom" /\ e.room = r
    BY <1>2, EventValues
  <2>2. Tell(LeftEvents \o <<e>>) /\ active' = r
    BY <1>2 DEF Enter
  <2> HIDE DEF e
  <2>3. PICK es \in Seq(Events) : events' = Append(es, e)
    BY <1>1, <2>2, EnterTells
  <2>4. Joins(r)
    BY <1>1, <2>1, <2>2, <2>3, EventSent DEF Joins, Moves
  <2>5. EventsTyped'
    BY <1>1, <2>2, EnterTells
  <2>6. SeedInv' /\ seed' \in SeedStates
    BY <1>2, EnterSeed DEF AppOK, SeedInv
  <2> QED BY <1>2, <2>2, <2>4, <2>5, <2>6
<1>3. CASE ~MayEnter(r)
  <2>1. /\ e.kind \in {"RoomExpired", "Error"}
        /\ Has(r)' => e.kind = "RoomExpired"
        /\ ~Has(r)' => e.kind = "Error"
    BY <1>0, <1>3, EventValues DEF Refused
  <2>2. Tell(LeftEvents \o <<e>>) /\ active' = NoRoom
    BY <1>3 DEF Enter
  <2>3. Gone(r)'
    BY <1>0, <1>3 DEF MayEnter, Gone
  <2> HIDE DEF e
  <2>4. PICK es \in Seq(Events) :
          /\ events' = Append(es, e)
          /\ IF active = NoRoom THEN es = events
                                ELSE es = Append(events, Event("LeftRoom"))
    BY <1>1, <2>2, EnterTells
  <2>5. EventsTyped'
    BY <1>1, <2>2, EnterTells
  <2>6. /\ \A q : EndsIn(events', q) => EndsIn(es, q)
        /\ Moved(events') <=> Moved(es)
        /\ Expires(es) => Expires(events')
        /\ Fails(es) => Fails(events')
        /\ e.kind = "RoomExpired" => Expires(events')
        /\ e.kind = "Error" => Fails(events')
    BY <1>1, <2>1, <2>4, EventSent DEF Moves
  <2>7. GoesOut
    <3>1. CASE active = NoRoom
      BY <2>2, <2>4, <2>6, <3>1, NoneEnds DEF GoesOut
    <3>2. CASE active # NoRoom
      <4>1. events \in Seq(Events)
        BY DEF EventsTyped
      <4> DEFINE f == Event("LeftRoom")
      <4>2. f \in Events /\ f.kind = "LeftRoom" /\ es = Append(events, f)
        BY <2>4, <3>2, EventValues
      <4> HIDE DEF f
      <4>3. /\ \A q : EndsIn(es, q) <=> \/ f.kind = "JoinedRoom" /\ f.room = q
                                        \/ EndsIn(events, q) /\ f.kind \notin Moves
            /\ Moved(es) <=> Moved(events) \/ f.kind \in Moves
            /\ Fails(es) <=> Fails(events) \/ f.kind = "Error"
        BY <4>1, <4>2, EventSent
      <4>4. f.kind # "JoinedRoom" /\ f.kind \in Moves
        BY <4>2 DEF Moves
      <4> QED BY <2>2, <2>6, <4>3, <4>4 DEF GoesOut
    <3> QED BY <3>1, <3>2
  <2>8. SeedInv' /\ seed' \in SeedStates
    BY <2>2, EnterSeed DEF AppOK, SeedInv
  <2> QED BY <2>1, <2>2, <2>3, <2>5, <2>6, <2>7, <2>8
<1> QED BY <1>2, <1>3
-----------------------------------------------------------------------------
(* What is kept by what AppCore does *)

\* Nothing makes room q one to enter.
KeepsRoom(q) == (Gone(q) => Gone(q)') /\ (~Has(q) => ~Has(q)')

LEMMA JoinsKeeps ==
    ASSUME NEW r \in Rooms, Joins(r), UNCHANGED screen
    PROVE  EventsInv' /\ ChatInv' /\ WaitingInv'
BY DEF Joins, EventsInv, ChatInv, WaitingInv

LEMMA EventsKept ==
    ASSUME EventsInv, active \in Rooms \cup {NoRoom},
           GoesOut \/ Stays, UNCHANGED screen,
           active' = active /\ Asked(cmds, "LeaveRoom") => Asked(cmds', "LeaveRoom"),
           active' = active /\ Asked(cmds, "JoinRoom") => Asked(cmds', "JoinRoom"),
           \A q \in Rooms : q = active => KeepsRoom(q)
    PROVE  EventsInv'
<1>1. CASE GoesOut
  BY <1>1, ClientAssumption DEF GoesOut, EventsInv
<1>2. CASE Stays
  <2>1. CASE active = NoRoom
    BY <1>2, <2>1 DEF Stays, EventsInv
  <2>2. CASE active # NoRoom
    <3>1. active \in Rooms /\ active' = active
      BY <1>2, <2>2 DEF Stays
    <3>2. PICK r \in Rooms : r = active
      BY <3>1
    <3>3. Gone(r) => Gone(r)'
      BY <3>2 DEF KeepsRoom
    <3>4. Expires(events') => Gone(r)'
      BY <1>2, <2>2, <3>2, <3>3 DEF Stays, EventsInv
    <3>5. (EndsIn(events, r) => EndsIn(events', r)) /\ (~Moved(events) => ~Moved(events'))
      BY <1>2 DEF Stays
    <3>6. Gone(active)' <=> Gone(r)'
      BY <3>1, <3>2 DEF Gone, Has
    <3>7. \A q \in Rooms : EndsIn(events', q) => active' = q
      BY <1>2, <3>1 DEF Stays, EventsInv
    <3>8. \/ EndsIn(events', r)
          \/ screen'.room = r /\ ~Moved(events')
          \/ Asked(cmds', "LeaveRoom") \/ Asked(cmds', "JoinRoom")
      BY <2>2, <3>1, <3>2, <3>5 DEF EventsInv
    <3> QED BY <3>1, <3>2, <3>4, <3>6, <3>7, <3>8 DEF EventsInv
  <2> QED BY <2>1, <2>2
<1> QED BY <1>1, <1>2

LEMMA ChatKept ==
    ASSUME ChatInv, ScreenOK(screen), GoesOut \/ Stays, UNCHANGED screen,
           Opening(cmds, screen.room) => Opening(cmds', screen.room),
           Asked(cmds', "CreateRoom") => Asked(cmds, "CreateRoom"),
           \A q \in Rooms : KeepsRoom(q) \/ (Asked(cmds, "CreateRoom") /\ q # active)
    PROVE  ChatInv'
<1> SUFFICES ASSUME screen.at = "Chat", ~Opening(cmds', screen.room), ~Moved(events')
             PROVE  /\ active' = screen.room \/ Refusal(screen.room)'
                    /\ screen.expired => Gone(screen.room)'
  BY DEF ChatInv
<1>1. screen.room \in Rooms /\ screen.room # NoRoom
  BY DEF ScreenOK
<1>2. PICK r \in Rooms : r = screen.room
  BY <1>1
<1>3. ~Opening(cmds, r) /\ ~Moved(events)
  BY <1>2 DEF GoesOut, Stays
<1>4. active = r \/ Refusal(r)
  BY <1>2, <1>3 DEF ChatInv
<1>5. KeepsRoom(r)
  BY <1>4 DEF Refusal
<1>6. active = r => active' = r
  BY <1>1, <1>2 DEF GoesOut, Stays
<1>7. Expires(events) => Expires(events')
  BY DEF GoesOut, Stays
<1>8. Refusal(r) => Refusal(r)'
  BY <1>5, <1>7 DEF Refusal, KeepsRoom
<1>9. screen.expired => Gone(r)'
  BY <1>2, <1>3, <1>5 DEF ChatInv, KeepsRoom
<1>10. (Refusal(r)' => Refusal(screen.room)') /\ (Gone(r)' => Gone(screen.room)')
  BY <1>2 DEF Refusal, Gone, Has
<1> QED BY <1>2, <1>4, <1>6, <1>8, <1>9, <1>10

LEMMA WaitingKept ==
    ASSUME WaitingInv, GoesOut \/ Stays, UNCHANGED screen,
           code # "None" => code' # "None" \/ Fails(events'),
           Asked(cmds, "EnterInviteCode") => Asked(cmds', "EnterInviteCode") \/ code' # "None"
    PROVE  WaitingInv'
BY DEF WaitingInv, GoesOut, Stays

\* The next command is received.
Receives == cmds # <<>> /\ cmds' = Tail(cmds)

LEMMA CommandsReceived ==
    ASSUME CommandsTyped, Receives
    PROVE  LET c == Head(cmds) IN
           /\ CommandsTyped'
           /\ c \in Commands /\ (c.do = "JoinRoom" => c.room # NoRoom)
           /\ \A r : Opening(cmds, r) =>
                \/ Opening(cmds', r)
                \/ /\ c.do = "JoinRoom" /\ c.room = r
                   /\ \A n \in DOMAIN cmds' : cmds'[n].do \in FromChat
           /\ \A do : Asked(cmds, do) <=> Asked(cmds', do) \/ c.do = do
<1>1. cmds \in Seq(Commands) /\ cmds # <<>> /\ cmds' = Tail(cmds) /\ Len(cmds) <= MaxCommands
  BY DEF CommandsTyped, Receives
<1>2. CommandsTyped'
  <2>1. /\ cmds' \in Seq(Commands) /\ Len(cmds') = Len(cmds) - 1
        /\ \A n \in DOMAIN cmds' : cmds'[n] = cmds[n + 1] /\ n + 1 \in DOMAIN cmds
    BY <1>1, CommandTaken
  <2>2. Len(cmds) \in Nat /\ MaxCommands \in Nat
    BY <1>1, ClientAssumption
  <2>3. Len(cmds') <= MaxCommands
    BY <1>1, <2>1, <2>2
  <2> QED BY <2>1, <2>3 DEF CommandsTyped
<1>3. Head(cmds) = cmds[1] /\ 1 \in DOMAIN cmds
  BY <1>1, CommandTaken
<1> QED BY <1>1, <1>2, <1>3, CommandTaken DEF CommandsTyped

\* A message typed when nothing was under way waits behind no command that changes rooms.
LEMMA MessagesReceived ==
    ASSUME CommandsTyped, MessagesInv, Receives,
           \/ Head(cmds).do \in Unsettling
           \/ active' = active /\ code' = code
    PROVE  MessagesInv'
<1>1. cmds \in Seq(Commands) /\ cmds # <<>> /\ cmds' = Tail(cmds)
  BY DEF CommandsTyped, Receives
<1>2. /\ \A n \in DOMAIN cmds' : cmds'[n] = cmds[n + 1] /\ n + 1 \in DOMAIN cmds
      /\ Head(cmds) = cmds[1] /\ 1 \in DOMAIN cmds
      /\ DOMAIN cmds' \subseteq Nat \ {0}
  BY <1>1, CommandTaken
<1> SUFFICES ASSUME NEW n \in DOMAIN cmds', cmds'[n].do = "SendMessage", cmds'[n].settled
             PROVE  /\ active' \in {NoRoom, cmds'[n].room} /\ ~CodeUnderWay'
                    /\ \A m \in DOMAIN cmds' : m < n => cmds'[m].do \notin Unsettling
  BY DEF MessagesInv
<1>3. /\ active \in {NoRoom, cmds[n + 1].room} /\ ~CodeUnderWay
      /\ \A m \in DOMAIN cmds : m < n + 1 => cmds[m].do \notin Unsettling
  BY <1>2 DEF MessagesInv
<1>4. Head(cmds).do \notin Unsettling
  BY <1>2, <1>3
<1>5. \A m \in DOMAIN cmds' : m < n => cmds'[m].do \notin Unsettling
  BY <1>2, <1>3
<1> QED BY <1>2, <1>3, <1>4, <1>5 DEF CodeUnderWay, Unsettling

LEMMA MessagesUntouched ==
    ASSUME MessagesInv, cmds' = cmds, CodeUnderWay \/ (active' = active /\ code' = code)
    PROVE  MessagesInv'
BY DEF MessagesInv, CodeUnderWay
-----------------------------------------------------------------------------
(* AppCore keeps the invariant *)

LEMMA InterfaceSame ==
    ASSUME IInv, UNCHANGED tui
    PROVE  phase' \in {"drain", "key"} /\ ScreenOK(screen)' /\ UNCHANGED screen
BY TypedParts DEF tui, ScreenOK

LEMMA RoomsSame ==
    ASSUME UNCHANGED <<records, over>>
    PROVE  \A q \in Rooms : KeepsRoom(q)
BY DEF KeepsRoom, Gone, Has

LEMMA LeaveRoomStep ==
    ASSUME IInv, LeaveRoom PROVE IInv'
<1>0. /\ phase \in {"drain", "key"} /\ ScreenOK(screen) /\ AppOK /\ EventsTyped
      /\ CommandsTyped /\ EventsInv /\ ChatInv /\ WaitingInv /\ MessagesInv
  BY TypedParts
<1>1. /\ Receives /\ Head(cmds).do = "LeaveRoom" /\ active' = NoRoom /\ seed' = SeedOutside
      /\ Tell(LeftEvents) /\ UNCHANGED tui /\ UNCHANGED <<records, over>> /\ code' = code
  BY DEF LeaveRoom, Receive, Receives
<1>2. EventsTyped' /\ GoesOut
  BY <1>0, <1>1, LeftFirst
<1>3. phase' \in {"drain", "key"} /\ ScreenOK(screen)' /\ UNCHANGED screen
  BY <1>1, InterfaceSame
<1>4. /\ CommandsTyped'
      /\ \A r : Opening(cmds, r) => Opening(cmds', r)
      /\ Asked(cmds', "CreateRoom") => Asked(cmds, "CreateRoom")
      /\ Asked(cmds, "EnterInviteCode") => Asked(cmds', "EnterInviteCode")
  BY <1>0, <1>1, CommandsReceived
<1>5. \A q \in Rooms : KeepsRoom(q)
  BY <1>1, RoomsSame
<1>6. AppOK'
  BY <1>0, <1>1 DEF AppOK, RecordsOK, SeedOutside, PausedByLeaving, SeedStates
<1>7. SeedInv'
  BY <1>1 DEF SeedInv
<1>8. EventsInv'
  BY <1>2, ClientAssumption DEF GoesOut, EventsInv
<1>9. ChatInv'
  BY <1>0, <1>2, <1>3, <1>4, <1>5, ChatKept
<1>10. WaitingInv'
  BY <1>0, <1>1, <1>2, <1>3, <1>4, WaitingKept
<1>11. MessagesInv'
  BY <1>0, <1>1, MessagesReceived DEF Unsettling
<1> QED BY <1>2, <1>3, <1>4, <1>6, <1>7, <1>8, <1>9, <1>10, <1>11, TypedPartsNext

LEMMA JoinRoomStep ==
    ASSUME IInv, JoinRoom PROVE IInv'
<1>0. /\ phase \in {"drain", "key"} /\ ScreenOK(screen) /\ AppOK /\ EventsTyped
      /\ CommandsTyped /\ EventsInv /\ ChatInv /\ WaitingInv /\ MessagesInv
  BY TypedParts
<1>1. /\ Receives /\ Head(cmds).do = "JoinRoom" /\ Enter(Head(cmds).room)
      /\ UNCHANGED tui /\ UNCHANGED <<records, over>> /\ code' = code
  BY DEF JoinRoom, Receive, Receives
<1>2. Head(cmds) \in Commands /\ Head(cmds).room \in Rooms
  BY <1>0, <1>1, CommandsReceived DEF Commands
<1>3. PICK r \in Rooms : r = Head(cmds).room
  BY <1>2
<1>4. Enter(r)
  BY <1>1, <1>3
<1>5. /\ EventsTyped' /\ active' \in Rooms \cup {NoRoom}
      /\ seed' \in SeedStates /\ SeedInv'
      /\ \/ Joins(r) /\ MayEnter(r)
         \/ /\ GoesOut /\ Gone(r)'
            /\ Has(r)' => Expires(events')
            /\ ~Has(r)' => Fails(events')
  BY <1>0, <1>4, EnterDoes
<1>6. phase' \in {"drain", "key"} /\ ScreenOK(screen)' /\ UNCHANGED screen
  BY <1>1, InterfaceSame
<1>7. /\ CommandsTyped'
      /\ \A q : Opening(cmds, q) => Opening(cmds', q)
                  \/ (q = r /\ \A n \in DOMAIN cmds' : cmds'[n].do \in FromChat)
      /\ Asked(cmds', "CreateRoom") => Asked(cmds, "CreateRoom")
      /\ Asked(cmds, "EnterInviteCode") => Asked(cmds', "EnterInviteCode")
  BY <1>0, <1>1, <1>3, CommandsReceived
<1>8. \A q \in Rooms : KeepsRoom(q)
  BY <1>1, RoomsSame
<1>9. AppOK'
  BY <1>0, <1>1, <1>5 DEF AppOK, RecordsOK
<1>10. MessagesInv'
  BY <1>0, <1>1, MessagesReceived DEF Unsettling
<1>11. EventsInv' /\ ChatInv' /\ WaitingInv'
  <2>1. CASE Joins(r)
    BY <2>1, <1>6, JoinsKeeps
  <2>2. CASE GoesOut /\ Gone(r)' /\ (Has(r)' => Expires(events'))
    <3>1. EventsInv'
      BY <2>2, ClientAssumption DEF GoesOut, EventsInv
    <3>2. WaitingInv'
      BY <1>0, <1>1, <1>6, <1>7, <2>2, WaitingKept
    <3>3. CASE screen.at = "Chat" /\ screen.room = r
               /\ \A n \in DOMAIN cmds' : cmds'[n].do \in FromChat
      <4>1. ~Asked(cmds', "CreateRoom")
        BY <3>3 DEF Asked, FromChat
      <4>2. Refusal(r)'
        BY <2>2, <4>1 DEF Refusal
      <4>3. Refusal(screen.room)' /\ Gone(screen.room)'
        BY <1>6, <2>2, <3>3, <4>2 DEF Refusal, Gone, Has
      <4> QED BY <3>1, <3>2, <4>3 DEF ChatInv
    <3>4. CASE ~(screen.at = "Chat" /\ screen.room = r
                 /\ \A n \in DOMAIN cmds' : cmds'[n].do \in FromChat)
      <4>1. CASE screen.at # "Chat"
        BY <1>6, <3>1, <3>2, <4>1 DEF ChatInv
      <4>2. CASE screen.at = "Chat"
        <5>1. Opening(cmds, screen.room) => Opening(cmds', screen.room)
          BY <1>7, <3>4, <4>2
        <5> QED BY <1>0, <1>6, <1>7, <1>8, <2>2, <3>1, <3>2, <4>2, <5>1, ChatKept
      <4> QED BY <4>1, <4>2
    <3> QED BY <3>3, <3>4
  <2> QED BY <1>5, <2>1, <2>2
<1> QED BY <1>5, <1>6, <1>7, <1>9, <1>10, <1>11, TypedPartsNext

\* A step of AppCore that changes no room it is in.
LEMMA StaysStep ==
    ASSUME IInv, UNCHANGED tui, EventsTyped', Stays, RecordsOK',
           seed' \in SeedStates, seed' = "AutoPaused" => seed = "AutoPaused",
           code' \in CodeStates,
           \/ cmds' = cmds /\ (CodeUnderWay \/ code' = code)
           \/ /\ Receives /\ Head(cmds).do \notin {"LeaveRoom", "JoinRoom"}
              /\ Head(cmds).do \in Unsettling \/ code' = code,
           code # "None" => code' # "None" \/ Fails(events'),
           Asked(cmds, "EnterInviteCode") => Asked(cmds', "EnterInviteCode") \/ code' # "None",
           \A q \in Rooms : KeepsRoom(q) \/ (Asked(cmds, "CreateRoom") /\ q # active)
    PROVE  IInv'
<1>0. /\ phase \in {"drain", "key"} /\ ScreenOK(screen) /\ AppOK /\ EventsTyped
      /\ CommandsTyped /\ SeedInv /\ EventsInv /\ ChatInv /\ WaitingInv /\ MessagesInv
  BY TypedParts
<1>1. phase' \in {"drain", "key"} /\ ScreenOK(screen)' /\ UNCHANGED screen
  BY InterfaceSame
<1>2. active' = active /\ active \in Rooms \cup {NoRoom}
  BY <1>0 DEF Stays, AppOK
<1>3. /\ CommandsTyped'
      /\ \A r \in Rooms : Opening(cmds, r) => Opening(cmds', r)
      /\ Asked(cmds', "CreateRoom") => Asked(cmds, "CreateRoom")
      /\ Asked(cmds, "LeaveRoom") => Asked(cmds', "LeaveRoom")
      /\ Asked(cmds, "JoinRoom") => Asked(cmds', "JoinRoom")
  <2>1. CASE cmds' = cmds
    BY <1>0, <2>1 DEF CommandsTyped
  <2>2. CASE Receives /\ Head(cmds).do \notin {"LeaveRoom", "JoinRoom"}
    BY <1>0, <2>2, CommandsReceived
  <2> QED BY <2>1, <2>2
<1>4. AppOK'
  BY <1>2 DEF AppOK
<1>5. SeedInv'
  BY <1>0, <1>2 DEF SeedInv
<1>6. EventsInv'
  BY <1>0, <1>1, <1>2, <1>3, EventsKept
<1>7. ChatInv'
  <2>1. screen.at = "Chat" => screen.room \in Rooms
    BY <1>0 DEF ScreenOK
  <2>2. CASE screen.at = "Chat"
    BY <1>0, <1>1, <1>3, <2>1, <2>2, ChatKept
  <2>3. CASE screen.at # "Chat"
    BY <1>1, <2>3 DEF ChatInv
  <2> QED BY <2>2, <2>3
<1>8. WaitingInv'
  BY <1>0, <1>1, WaitingKept
<1>9. MessagesInv'
  BY <1>0, <1>2, MessagesReceived, MessagesUntouched
<1> QED BY <1>1, <1>3, <1>4, <1>5, <1>6, <1>7, <1>8, <1>9, TypedPartsNext

\* A step of AppCore into a room.
LEMMA JoinsStep ==
    ASSUME IInv, UNCHANGED tui, NEW r \in Rooms, Joins(r), EventsTyped', RecordsOK',
           seed' \in SeedStates, SeedInv', code' \in CodeStates,
           \/ cmds' = cmds /\ CodeUnderWay
           \/ Receives /\ Head(cmds).do \in Unsettling
    PROVE  IInv'
<1>0. CommandsTyped /\ MessagesInv
  BY TypedParts
<1>1. phase' \in {"drain", "key"} /\ ScreenOK(screen)' /\ UNCHANGED screen
  BY InterfaceSame
<1>2. CommandsTyped'
  <2>1. CASE cmds' = cmds
    BY <1>0, <2>1 DEF CommandsTyped
  <2> QED BY <1>0, <2>1, CommandsReceived
<1>3. AppOK'
  BY DEF AppOK, Joins
<1>4. EventsInv' /\ ChatInv' /\ WaitingInv'
  BY <1>1, JoinsKeeps
<1>5. MessagesInv'
  BY <1>0, MessagesReceived, MessagesUntouched
<1> QED BY <1>1, <1>2, <1>3, <1>4, <1>5, TypedPartsNext

LEMMA CreateRoomStep ==
    ASSUME IInv, CreateRoom PROVE IInv'
<1>0. AppOK /\ EventsTyped /\ CommandsTyped /\ EventsInv
  BY TypedParts
<1>1. /\ Receives /\ Head(cmds).do = "CreateRoom" /\ UNCHANGED tui /\ code' = code
      /\ Head(cmds).do \in Unsettling /\ code' \in CodeStates
  BY <1>0 DEF CreateRoom, Receive, Receives, Unsettling, AppOK
<1>2. /\ Asked(cmds, "CreateRoom")
      /\ Asked(cmds, "EnterInviteCode") => Asked(cmds', "EnterInviteCode")
  BY <1>0, <1>1, CommandsReceived
<1>3. ASSUME NEW r \in Rooms, ~Has(r), active # r,
             records' = Append(records, r), UNCHANGED over
      PROVE  /\ RecordsOK'
             /\ \A q \in Rooms : KeepsRoom(q) \/ q # active
             /\ \A q \in Rooms : q = r \/ KeepsRoom(q)
             /\ MayEnter(r) = (r \notin over)
  <2>1. /\ records' \in Seq(Rooms) /\ IsInjective(records') /\ over \subseteq ToSet(records')
        /\ \A q : Contains(records', q) <=> Has(q) \/ q = r
    BY <1>0, <1>3, AppendRecord DEF AppOK
  <2>2. \A q : Has(q)' <=> Has(q) \/ q = r
    BY <2>1 DEF Has
  <2>3. RecordsOK'
    BY <1>3, <2>1 DEF RecordsOK
  <2>4. \A q \in Rooms : q = r \/ KeepsRoom(q)
    BY <1>3, <2>2 DEF KeepsRoom, Gone
  <2> QED BY <1>3, <2>1, <2>3, <2>4 DEF MayEnter
<1>4. ASSUME NEW r \in Rooms, ~Has(r), active # r,
             records' = Append(records, r), UNCHANGED over, Enter(r)
      PROVE  IInv'
  <2>1. RecordsOK'
    BY <1>3, <1>4
  <2>2. r \notin over
    BY <1>0, <1>4, HasRecord DEF AppOK, RecordsOK, Has
  <2>3. MayEnter(r)
    BY <1>3, <1>4, <2>2
  <2>4. /\ EventsTyped' /\ seed' \in SeedStates /\ SeedInv'
        /\ Joins(r) \/ (GoesOut /\ Gone(r)')
    BY <1>0, <1>4, EnterDoes
  <2>5. ~Gone(r)'
    BY <2>3 DEF MayEnter, Gone, Has
  <2>6. Joins(r)
    BY <2>4, <2>5
  <2> QED BY <1>1, <2>1, <2>4, <2>6, JoinsStep
<1>5. ASSUME Tell(<<Event("Error")>>), UNCHANGED <<active, seed>>, RecordsOK',
             \A q \in Rooms : KeepsRoom(q) \/ q # active
      PROVE  IInv'
  <2>1. EventsTyped' /\ Stays
    BY <1>0, <1>5, TellsOne, EventValues DEF Moves
  <2>2. seed' \in SeedStates /\ (seed' = "AutoPaused" => seed = "AutoPaused")
    BY <1>0, <1>5 DEF AppOK
  <2> QED BY <1>1, <1>2, <1>5, <2>1, <2>2, StaysStep
<1>6. UNCHANGED <<records, over>> => RecordsOK' /\ \A q \in Rooms : KeepsRoom(q)
  BY <1>0, RoomsSame DEF AppOK, RecordsOK
<1> QED BY <1>3, <1>4, <1>5, <1>6 DEF CreateRoom

LEMMA RemovalStep ==
    ASSUME IInv, DeleteRoom \/ ListRooms PROVE IInv'
<1>0. AppOK /\ EventsTyped /\ CommandsTyped
  BY TypedParts
<1>1. /\ Receives /\ Head(cmds).do \in {"DeleteRoom", "ListRooms"} /\ UNCHANGED tui
      /\ UNCHANGED <<active, code, seed>>
      /\ \E gone : Without(gone)
  BY DEF DeleteRoom, ListRooms, Receive, Receives
<1>2. RecordsOK' /\ \A q \in Rooms : KeepsRoom(q)
  BY <1>0, <1>1, WithoutKeeps DEF AppOK, KeepsRoom
<1>3. EventsTyped' /\ Stays
  <2>1. CASE DeleteRoom
    <3>1. Tell(<<>>) \/ Tell(<<Event("Error")>>)
      BY <2>1 DEF DeleteRoom
    <3> QED BY <1>0, <1>1, <3>1, TellsNothing, EventsSame, TellsOne, EventValues DEF Moves
  <2>2. CASE ListRooms
    <3> DEFINE e == Listed(records')
    <3>1. e \in Events /\ e.kind = "RoomList" /\ Tell(<<e>>)
      BY <1>2, <2>2, EventValues DEF ListRooms, RecordsOK
    <3> HIDE DEF e
    <3> QED BY <1>0, <1>1, <3>1, TellsOne DEF Moves
  <2> QED BY <1>0, <2>1, <2>2, <1>1
<1>4. Asked(cmds, "EnterInviteCode") => Asked(cmds', "EnterInviteCode")
  BY <1>0, <1>1, CommandsReceived
<1>5. /\ seed' \in SeedStates /\ (seed' = "AutoPaused" => seed = "AutoPaused")
      /\ code' \in CodeStates /\ code' = code
  BY <1>0, <1>1 DEF AppOK
<1> QED BY <1>1, <1>2, <1>3, <1>4, <1>5, StaysStep

LEMMA ExpiryStep ==
    ASSUME IInv, CheckExpiry \/ \E r \in Rooms : Expire(r) PROVE IInv'
<1>0. AppOK /\ EventsTyped
  BY TypedParts
<1>1. /\ UNCHANGED tui /\ UNCHANGED <<active, records, code, seed>> /\ cmds' = cmds
      /\ over' = over \/ \E r \in Rooms : Has(r) /\ over' = over \cup {r}
  BY DEF CheckExpiry, Expire
<1>2. EventsTyped' /\ Stays
  <2>1. CASE CheckExpiry
    <3>1. Tell(<<Event("RoomExpired")>>) /\ Gone(active)
      BY <2>1 DEF CheckExpiry
    <3> QED BY <1>0, <1>1, <3>1, TellsOne, EventValues DEF Moves
  <2>2. CASE \E r \in Rooms : Expire(r)
    BY <1>0, <1>1, <2>2, EventsSame DEF Expire
  <2> QED BY <2>1, <2>2
<1>3. RecordsOK'
  <2>1. \A r \in Rooms : Has(r) => r \in ToSet(records)
    BY <1>0, HasRecord DEF Has, AppOK, RecordsOK
  <2> QED BY <1>0, <1>1, <2>1 DEF AppOK, RecordsOK
<1>4. \A q \in Rooms : KeepsRoom(q)
  BY <1>1 DEF KeepsRoom, Gone, Has
<1>5. /\ seed' \in SeedStates /\ (seed' = "AutoPaused" => seed = "AutoPaused")
      /\ code' \in CodeStates /\ code' = code
  BY <1>0, <1>1 DEF AppOK
<1> QED BY <1>1, <1>2, <1>3, <1>4, <1>5, StaysStep

LEMMA InvitationStep ==
    ASSUME IInv, EnterInviteCode \/ Network PROVE IInv'
<1>0. AppOK /\ EventsTyped /\ CommandsTyped /\ EventsInv
  BY TypedParts
<1>1. CASE EnterInviteCode
  <2>1. /\ Receives /\ Head(cmds).do = "EnterInviteCode" /\ Head(cmds).do \in Unsettling
        /\ UNCHANGED tui /\ UNCHANGED <<active, records, over, seed>> /\ code' = "Lookup"
        /\ events' = events
    BY <1>1 DEF EnterInviteCode, Receive, Receives, Unsettling
  <2>2. EventsTyped' /\ Stays
    BY <1>0, <2>1, EventsSame
  <2>3. RecordsOK' /\ \A q \in Rooms : KeepsRoom(q)
    BY <1>0, <2>1, RoomsSame DEF AppOK, RecordsOK
  <2>4. seed' \in SeedStates /\ (seed' = "AutoPaused" => seed = "AutoPaused")
    BY <1>0, <2>1 DEF AppOK
  <2> QED BY <2>1, <2>2, <2>3, <2>4, StaysStep DEF CodeStates
<1>2. ASSUME NEW from \in {"Lookup", "Asked"}, NEW to \in CodeStates,
             NEW es \in {<<>>, <<Event("Error")>>}, CodeMoves(from, to, es),
             to # "None" \/ es # <<>>
      PROVE  IInv'
  <2>1. /\ CodeUnderWay /\ code' = to /\ Tell(es) /\ cmds' = cmds
        /\ UNCHANGED tui /\ UNCHANGED <<active, records, over, seed>>
    BY <1>2 DEF CodeMoves, CodeUnderWay
  <2>2. EventsTyped' /\ Stays /\ (es # <<>> => Fails(events'))
    <3>1. CASE es = <<>>
      BY <1>0, <2>1, <3>1, TellsNothing, EventsSame
    <3>2. CASE es = <<Event("Error")>>
      BY <1>0, <2>1, <3>2, TellsOne, EventValues DEF Moves
    <3> QED BY <1>2, <3>1, <3>2
  <2>3. RecordsOK' /\ \A q \in Rooms : KeepsRoom(q)
    BY <1>0, <2>1, RoomsSame DEF AppOK, RecordsOK
  <2>4. seed' \in SeedStates /\ (seed' = "AutoPaused" => seed = "AutoPaused")
    BY <1>0, <2>1 DEF AppOK
  <2> QED BY <1>2, <2>1, <2>2, <2>3, <2>4, StaysStep
<1>3. ASSUME NEW r \in Rooms, InviteAccepted(r) PROVE IInv'
  <2>1. /\ CodeUnderWay /\ code' \in CodeStates /\ cmds' = cmds /\ UNCHANGED tui
        /\ records' = Inserted(r) /\ over' = over \ {r} /\ Enter(r)
    BY <1>3 DEF InviteAccepted, CodeUnderWay, CodeStates
  <2>2. RecordsOK' /\ Has(r)'
    <3>1. CASE Has(r)
      BY <1>0, <2>1, <3>1 DEF AppOK, RecordsOK, Inserted, Has
    <3>2. CASE ~Has(r)
      BY <1>0, <2>1, <3>2, AppendRecord DEF AppOK, RecordsOK, Inserted, Has
    <3> QED BY <3>1, <3>2
  <2>3. MayEnter(r) /\ ~Gone(r)'
    BY <2>1, <2>2 DEF MayEnter, Gone, Has
  <2>4. EventsTyped' /\ seed' \in SeedStates /\ SeedInv' /\ Joins(r)
    BY <1>0, <2>1, <2>3, EnterDoes
  <2> QED BY <2>1, <2>2, <2>4, JoinsStep
<1> QED BY <1>1, <1>2, <1>3
          DEF Network, CodeNotFound, CodeResolved, InviteRefused, RequestLost, CodeStates

LEMMA OtherCommandStep ==
    ASSUME IInv, SendMessage \/ SeedCommand PROVE IInv'
<1>0. AppOK /\ EventsTyped /\ CommandsTyped
  BY TypedParts
<1>1. /\ Receives /\ Head(cmds).do \in {"SendMessage", "SeedPause", "SeedResume"}
      /\ UNCHANGED tui /\ UNCHANGED <<active, records, over, code>>
      /\ seed' \in {seed, "ManualPaused", "Active"}
  BY DEF SendMessage, SeedCommand, Receive, Receives
<1>2. events' = events
  BY <1>0, TellsNothing DEF SendMessage, SeedCommand
<1>3. EventsTyped' /\ Stays
  BY <1>0, <1>1, <1>2, EventsSame
<1>4. RecordsOK' /\ \A q \in Rooms : KeepsRoom(q)
  BY <1>0, <1>1, RoomsSame DEF AppOK, RecordsOK
<1>5. /\ seed' \in SeedStates /\ (seed' = "AutoPaused" => seed = "AutoPaused")
      /\ code' \in CodeStates /\ code' = code
  BY <1>0, <1>1 DEF AppOK, SeedStates
<1>6. Asked(cmds, "EnterInviteCode") => Asked(cmds', "EnterInviteCode")
  BY <1>0, <1>1, CommandsReceived
<1> QED BY <1>1, <1>3, <1>4, <1>5, <1>6, StaysStep
-----------------------------------------------------------------------------
(* The interface keeps the invariant *)

\* What an event makes of the screen.
LEMMA ShownBy ==
    ASSUME NEW s, ScreenOK(s), NEW e \in Events, e.kind = "JoinedRoom" => e.room # NoRoom
    PROVE  LET t == Shown(s, e) IN
           /\ ScreenOK(t)
           /\ e.kind = "JoinedRoom" => t.room = e.room /\ ~t.expired /\ t.step # "Waiting"
           /\ e.kind = "LeftRoom" => t.at # "Chat" /\ t.step # "Waiting"
           /\ e.kind = "Error" => t.step # "Waiting"
           /\ e.kind \notin Moves =>
                /\ t.at = s.at /\ t.room = s.room
                /\ t.step = "Waiting" => s.step = "Waiting"
           /\ e.kind \notin Moves \cup {"RoomExpired"} => t.expired = s.expired
           /\ e.kind = "RoomExpired" /\ s.at = "Chat" => t.expired
<1> DEFINE t == Shown(s, e)
<1>0. e.room \in Rooms \cup {NoRoom} /\ e.list \in Seq(Rooms)
      /\ e.kind \in {"JoinedRoom", "LeftRoom", "RoomExpired", "RoomList", "Error"}
  BY DEF Events
<1>1. CASE e.kind = "JoinedRoom"
  <2>1. t = Chat(e.room)
    BY <1>1 DEF Shown, Opened
  <2>2. e.room \in Rooms
    BY <1>0, <1>1
  <2> QED BY <1>1, <2>1, <2>2, ScreenValues DEF Moves
<1>2. CASE e.kind = "LeftRoom"
  <2>1. t = Menu
    BY <1>2 DEF Shown
  <2> QED BY <1>2, <2>1, ScreenValues DEF Moves
<1>3. CASE e.kind = "RoomExpired"
  <2>1. CASE s.at = "Chat"
    <3>1. t = [s EXCEPT !.expired = TRUE]
      BY <1>3, <2>1 DEF Shown
    <3> QED BY <1>3, <2>1, <3>1 DEF Moves, ScreenOK
  <2>2. CASE s.at # "Chat"
    <3>1. t = s
      BY <1>3, <2>2 DEF Shown
    <3> QED BY <1>3, <2>2, <3>1 DEF Moves, ScreenOK
  <2> QED BY <2>1, <2>2
<1>4. CASE e.kind = "RoomList"
  <2>1. CASE s.at = "RoomList"
    <3>1. t = [s EXCEPT !.list = e.list]
      BY <1>4, <2>1 DEF Shown
    <3> QED BY <1>0, <1>4, <2>1, <3>1 DEF Moves, ScreenOK
  <2>2. CASE s.at # "RoomList"
    <3>1. t = s
      BY <1>4, <2>2 DEF Shown
    <3> QED BY <1>4, <2>2, <3>1 DEF Moves, ScreenOK
  <2> QED BY <2>1, <2>2
<1>5. CASE e.kind = "Error"
  <2>1. CASE s.at = "InviteEntry"
    <3>1. t = Entry("Failed") /\ "Failed" \in Steps
      BY <1>5, <2>1 DEF Shown, Steps
    <3>2. s.room = NoRoom /\ ~s.expired
      BY <2>1 DEF ScreenOK
    <3>3. /\ ScreenOK(t) /\ t.at = "InviteEntry" /\ t.room = NoRoom /\ t.step = "Failed"
      BY <3>1, ScreenValues
    <3>4. ~t.expired /\ t.expired \in BOOLEAN /\ s.expired \in BOOLEAN
      BY <3>3 DEF ScreenOK
    <3> QED BY <1>5, <2>1, <3>2, <3>3, <3>4 DEF Moves
  <2>2. CASE s.at # "InviteEntry"
    <3>1. t = s
      BY <1>5, <2>2 DEF Shown
    <3>2. s.step # "Waiting"
      BY <2>2 DEF ScreenOK
    <3> QED BY <1>5, <2>2, <3>1, <3>2 DEF Moves
  <2> QED BY <2>1, <2>2
<1> QED BY <1>0, <1>1, <1>2, <1>3, <1>4, <1>5

LEMMA AppSame ==
    ASSUME IInv, UNCHANGED app
    PROVE  AppOK' /\ SeedInv'
BY TypedParts DEF app, AppOK, RecordsOK, SeedInv

LEMMA DrainStep ==
    ASSUME IInv, Drain PROVE IInv'
<1>0. /\ ScreenOK(screen) /\ AppOK /\ EventsTyped /\ CommandsTyped /\ EventsInv
      /\ ChatInv /\ WaitingInv /\ MessagesInv
  BY TypedParts
<1> DEFINE e == Head(events)
<1>1. /\ events # <<>> /\ events' = Tail(events) /\ screen' = Shown(screen, e)
      /\ phase' \in {"drain", "key"}
      /\ cmds' = cmds /\ UNCHANGED app
  BY DEF Drain
<1>2. /\ events \in Seq(Events) /\ Len(events) <= MaxEvents
      /\ \A n \in DOMAIN events : events[n].kind = "JoinedRoom" => events[n].room # NoRoom
  BY <1>0 DEF EventsTyped
<1>3. /\ e \in Events /\ events' \in Seq(Events) /\ Len(events') = Len(events) - 1
      /\ \A n \in DOMAIN events' : events'[n] = events[n + 1] /\ n + 1 \in DOMAIN events
      /\ e = events[1] /\ 1 \in DOMAIN events
      /\ Moved(events) <=> Moved(events') \/ e.kind \in Moves
      /\ \A r : EndsIn(events, r) <=>
           \/ EndsIn(events', r)
           \/ e.kind = "JoinedRoom" /\ e.room = r /\ ~Moved(events')
      /\ Expires(events) <=>
           Expires(events') \/ (e.kind = "RoomExpired" /\ ~Moved(events'))
      /\ Fails(events) <=> Fails(events') \/ e.kind = "Error"
  BY <1>1, <1>2, EventTaken
<1>4. e.kind = "JoinedRoom" => e.room # NoRoom /\ e.room \in Rooms
  BY <1>2, <1>3 DEF Events
<1>5. EventsTyped'
  <2>1. Len(events) \in Nat /\ MaxEvents \in Nat
    BY <1>2, ClientAssumption
  <2>2. Len(events') <= MaxEvents
    BY <1>2, <1>3, <2>1
  <2> QED BY <1>2, <1>3, <2>2 DEF EventsTyped
<1> HIDE DEF e
<1>6. /\ ScreenOK(screen')
      /\ e.kind = "JoinedRoom" =>
            screen'.room = e.room /\ ~screen'.expired /\ screen'.step # "Waiting"
      /\ e.kind = "LeftRoom" => screen'.at # "Chat" /\ screen'.step # "Waiting"
      /\ e.kind = "Error" => screen'.step # "Waiting"
      /\ e.kind \notin Moves =>
           /\ screen'.at = screen.at /\ screen'.room = screen.room
           /\ screen'.step = "Waiting" => screen.step = "Waiting"
      /\ e.kind \notin Moves \cup {"RoomExpired"} => screen'.expired = screen.expired
      /\ e.kind = "RoomExpired" /\ screen.at = "Chat" => screen'.expired
  BY <1>0, <1>1, <1>3, <1>4, ShownBy
<1>7. ScreenOK(screen)'
  BY <1>6 DEF ScreenOK
<1>8. UNCHANGED <<active, records, over, code, seed>>
  BY <1>1 DEF app
<1>9. AppOK' /\ SeedInv' /\ CommandsTyped' /\ MessagesInv'
  BY <1>0, <1>1, <1>8, AppSame, MessagesUntouched DEF CommandsTyped
<1>10. WaitingInv'
  BY <1>0, <1>1, <1>3, <1>6, <1>8 DEF WaitingInv, Moves
<1>11. EventsInv'
  <2>1. \A r \in Rooms : EndsIn(events', r) => active' = r
    BY <1>0, <1>3, <1>8 DEF EventsInv
  <2>2. Expires(events') /\ active' # NoRoom => Gone(active)'
    BY <1>0, <1>3, <1>8 DEF EventsInv, Gone, Has
  <2>3. ASSUME active # NoRoom
        PROVE  \/ EndsIn(events', active)
               \/ screen'.room = active /\ ~Moved(events')
               \/ Asked(cmds', "LeaveRoom") \/ Asked(cmds', "JoinRoom")
    <3>1. CASE EndsIn(events, active)
      BY <1>3, <1>6, <3>1
    <3>2. CASE screen.room = active /\ ~Moved(events)
      BY <1>3, <1>6, <3>2
    <3> QED BY <1>0, <1>1, <2>3, <3>1, <3>2 DEF EventsInv
  <2> QED BY <1>8, <2>1, <2>2, <2>3 DEF EventsInv
<1>12. ChatInv'
  <2> SUFFICES ASSUME screen'.at = "Chat", ~Opening(cmds', screen'.room), ~Moved(events')
               PROVE  /\ active' = screen'.room \/ Refusal(screen.room)'
                      /\ screen'.expired => Gone(screen.room)'
    BY DEF ChatInv
  <2>1. CASE e.kind = "JoinedRoom"
    <3>1. EndsIn(events, e.room)
      BY <1>3, <2>1
    <3>2. active = e.room
      BY <1>0, <1>4, <2>1, <3>1 DEF EventsInv
    <3> QED BY <1>6, <1>8, <2>1, <3>2
  <2>2. CASE e.kind = "LeftRoom"
    BY <1>6, <2>2
  <2>3. CASE e.kind \notin Moves
    <3>1. screen.at = "Chat" /\ screen.room = screen'.room
      BY <1>6, <2>3
    <3>2. ~Moved(events) /\ ~Opening(cmds, screen.room)
      BY <1>1, <1>3, <2>3, <3>1
    <3>3. active = screen.room \/ Refusal(screen.room)
      BY <1>0, <3>1, <3>2 DEF ChatInv
    <3>4. Gone(screen.room)' <=> Gone(screen.room)
      BY <1>8, <3>1 DEF Gone, Has
    <3>5. Has(screen.room)' <=> Has(screen.room)
      BY <1>8, <3>1 DEF Has
    <3>6. active \in Rooms \cup {NoRoom} /\ screen.room # NoRoom
      BY <1>0, <3>1 DEF ScreenOK, AppOK
    <3>7. screen'.expired => Gone(screen.room)
      <4>1. CASE e.kind = "RoomExpired"
        <5>1. Expires(events)
          BY <1>3, <4>1
        <5> QED BY <1>0, <3>3, <3>6, <5>1 DEF EventsInv, Refusal
      <4>2. CASE e.kind # "RoomExpired"
        BY <1>0, <1>6, <2>3, <3>1, <3>2, <4>2 DEF ChatInv
      <4> QED BY <4>1, <4>2
    <3>8. Refusal(screen.room) => Refusal(screen.room)'
      <4>1. screen.expired \/ Expires(events) => screen'.expired \/ Expires(events')
        BY <1>3, <1>6, <2>3, <3>1
      <4> QED BY <1>1, <3>4, <3>5, <4>1 DEF Refusal
    <3> QED BY <1>8, <3>1, <3>3, <3>4, <3>7, <3>8
  <2> QED BY <2>1, <2>2, <2>3 DEF Moves
<1> QED BY <1>1, <1>5, <1>7, <1>9, <1>10, <1>11, <1>12, TypedPartsNext

\* A key that sends nothing and does not show or leave a chat.
LEMMA GotoStep ==
    ASSUME IInv, NEW s, ScreenOK(s), Goto(s),
           screen.at # "Chat", s.at # "Chat", s.step = "Waiting" => screen.step = "Waiting"
    PROVE  IInv'
<1>0. /\ ScreenOK(screen) /\ EventsTyped /\ CommandsTyped /\ EventsInv
      /\ WaitingInv /\ MessagesInv /\ AppOK
  BY TypedParts
<1>1. /\ phase' \in {"drain", "key"} /\ screen' = s /\ cmds' = cmds /\ events' = events
      /\ UNCHANGED app
  BY DEF Goto, AfterKey
<1>2. UNCHANGED <<active, records, over, code, seed>>
  BY <1>1 DEF app
<1>3. AppOK' /\ SeedInv' /\ EventsTyped' /\ CommandsTyped' /\ MessagesInv'
  BY <1>0, <1>1, <1>2, AppSame, MessagesUntouched DEF CommandsTyped, EventsTyped
<1>4. ScreenOK(screen)'
  BY <1>1 DEF ScreenOK
<1>5. WaitingInv' /\ ChatInv'
  BY <1>0, <1>1, <1>2 DEF WaitingInv, ChatInv
<1>6. EventsInv'
  <2>1. screen.room = NoRoom
    BY <1>0 DEF ScreenOK
  <2>2. Gone(active)' = Gone(active)
    BY <1>2 DEF Gone, Has
  <2> QED BY <1>0, <1>1, <1>2, <2>1, <2>2 DEF EventsInv
<1> QED BY <1>1, <1>3, <1>4, <1>5, <1>6, TypedPartsNext

\* A key that sends a command.
LEMMA CommandStep ==
    ASSUME IInv, NEW c \in Commands, NEW s, ScreenOK(s), Command(c, s),
           c.do = "JoinRoom" => c.room # NoRoom,
           \/ screen.at # "Chat" /\ s.at # "Chat"
           \/ screen.at # "Chat" /\ s.at = "Chat" /\ ~s.expired
                /\ c.do = "JoinRoom" /\ c.room = s.room
           \/ screen.at = "Chat" /\ s.at # "Chat" /\ c.do = "LeaveRoom"
           \/ screen.at = "Chat" /\ s = screen /\ c.do \in FromChat,
           s.step = "Waiting" => c.do = "EnterInviteCode" \/ screen.step = "Waiting",
           c.settled => screen.at = "Chat" /\ c.room = screen.room /\ Settled
    PROVE  IInv'
<1>0. /\ ScreenOK(screen) /\ EventsTyped /\ CommandsTyped /\ EventsInv /\ ChatInv
      /\ WaitingInv /\ MessagesInv /\ AppOK
  BY TypedParts
<1>1. /\ phase' \in {"drain", "key"} /\ screen' = s /\ cmds' = Append(cmds, c)
      /\ events' = events /\ UNCHANGED app /\ Len(cmds) < MaxCommands
  BY DEF Command, AfterKey
<1>2. UNCHANGED <<active, records, over, code, seed>>
  BY <1>1 DEF app
<1>3. cmds \in Seq(Commands)
      /\ \A n \in DOMAIN cmds : cmds[n].do = "JoinRoom" => cmds[n].room # NoRoom
  BY <1>0 DEF CommandsTyped
<1>4. /\ cmds' \in Seq(Commands) /\ Len(cmds') = Len(cmds) + 1
      /\ \A n \in DOMAIN cmds' : \/ n \in DOMAIN cmds /\ cmds'[n] = cmds[n] /\ n < Len(cmds')
                                 \/ n = Len(cmds') /\ cmds'[n] = c
      /\ \A n \in DOMAIN cmds : n \in DOMAIN cmds' /\ cmds'[n] = cmds[n]
      /\ \A r : Opening(cmds, r) /\ c.do \in FromChat => Opening(cmds', r)
      /\ c.do = "JoinRoom" => Opening(cmds', c.room)
      /\ \A do : Asked(cmds', do) <=> Asked(cmds, do) \/ c.do = do
  BY <1>1, <1>3, CommandSent
<1>5. CommandsTyped'
  <2>1. Len(cmds) \in Nat /\ MaxCommands \in Nat
    BY <1>3, ClientAssumption
  <2>2. Len(cmds') <= MaxCommands
    BY <1>1, <1>4, <2>1
  <2> QED BY <1>3, <1>4, <2>2 DEF CommandsTyped
<1>6. AppOK' /\ SeedInv' /\ EventsTyped'
  BY <1>0, <1>1, AppSame DEF EventsTyped
<1>7. ScreenOK(screen)'
  BY <1>1 DEF ScreenOK
<1>8. WaitingInv'
  BY <1>0, <1>1, <1>2, <1>4 DEF WaitingInv
<1>9. EventsInv'
  <2>1. screen.at # "Chat" => screen.room = NoRoom
    BY <1>0 DEF ScreenOK
  <2>2. Gone(active)' = Gone(active)
    BY <1>2 DEF Gone, Has
  <2> QED BY <1>0, <1>1, <1>2, <1>4, <2>1, <2>2 DEF EventsInv
<1>10. ChatInv'
  <2>1. CASE s.at # "Chat"
    BY <1>1, <2>1 DEF ChatInv
  <2>2. CASE c.do = "JoinRoom" /\ c.room = s.room
    BY <1>1, <1>4, <2>2 DEF ChatInv
  <2>3. CASE screen.at = "Chat" /\ s = screen /\ c.do \in FromChat
    <3>1. Opening(cmds, screen.room) => Opening(cmds', screen.room)
      BY <1>4, <2>3
    <3>2. Asked(cmds', "CreateRoom") => Asked(cmds, "CreateRoom")
      BY <1>4, <2>3 DEF FromChat
    <3>3. Refusal(screen.room) => Refusal(screen.room)'
      BY <1>1, <1>2, <2>3, <3>2 DEF Refusal, Gone, Has
    <3>4. Gone(screen.room) => Gone(screen.room)'
      BY <1>1, <1>2, <2>3 DEF Gone, Has
    <3> QED BY <1>0, <1>1, <1>2, <2>3, <3>1, <3>3, <3>4 DEF ChatInv
  <2> QED BY <2>1, <2>2, <2>3
<1>11. MessagesInv'
  <2> SUFFICES ASSUME NEW n \in DOMAIN cmds', cmds'[n].do = "SendMessage", cmds'[n].settled
               PROVE  /\ active' \in {NoRoom, cmds'[n].room} /\ ~CodeUnderWay'
                      /\ \A m \in DOMAIN cmds' : m < n => cmds'[m].do \notin Unsettling
    BY DEF MessagesInv
  <2>0. /\ DOMAIN cmds' \subseteq Nat /\ Len(cmds') \in Nat
        /\ \A m \in DOMAIN cmds' : m <= Len(cmds')
    BY <1>4
  <2>1. CASE n \in DOMAIN cmds /\ cmds'[n] = cmds[n] /\ n < Len(cmds')
    <3>1. /\ active \in {NoRoom, cmds[n].room} /\ ~CodeUnderWay
          /\ \A m \in DOMAIN cmds : m < n => cmds[m].do \notin Unsettling
      BY <1>0, <2>1 DEF MessagesInv
    <3>2. \A m \in DOMAIN cmds' : m < n => m \in DOMAIN cmds /\ cmds'[m] = cmds[m]
      BY <1>4, <2>0, <2>1
    <3> QED BY <1>2, <2>1, <3>1, <3>2 DEF CodeUnderWay
  <2>2. CASE n = Len(cmds') /\ cmds'[n] = c
    <3>1. screen.at = "Chat" /\ c.room = screen.room /\ Settled
      BY <2>2
    <3>2. ~Asked(cmds, "LeaveRoom") /\ ~Asked(cmds, "JoinRoom") /\ ~Moved(events) /\ ~CodeUnderWay
      BY <3>1 DEF Settled, Unsettling, Asked, Moved, Moves
    <3>3. active # NoRoom => active = screen.room
      BY <1>0, <3>2, EndsMoves DEF EventsInv
    <3>4. \A m \in DOMAIN cmds' : m < n => m \in DOMAIN cmds /\ cmds'[m] = cmds[m]
      BY <1>4, <2>0, <2>2
    <3>5. \A m \in DOMAIN cmds' : m < n => cmds'[m].do \notin Unsettling
      BY <3>1, <3>4 DEF Settled
    <3> QED BY <1>2, <2>2, <3>1, <3>2, <3>3, <3>5 DEF CodeUnderWay
  <2> QED BY <1>4, <2>1, <2>2
<1> QED BY <1>1, <1>5, <1>6, <1>7, <1>8, <1>9, <1>10, <1>11, TypedPartsNext

LEMMA MenuStep ==
    ASSUME IInv, KeyMainMenu \/ KeyCreateRoom PROVE IInv'
<1>1. screen.at # "Chat"
  BY DEF KeyMainMenu, KeyCreateRoom, On
<1>2. CASE Goto(Entry("UrlInput"))
  <2> DEFINE s == Entry("UrlInput")
  <2>1. ScreenOK(s) /\ s.at # "Chat" /\ s.step # "Waiting"
    BY ScreenValues DEF Steps
  <2> HIDE DEF s
  <2> QED BY <1>1, <1>2, <2>1, GotoStep DEF s
<1>3. ASSUME NEW do \in {"ListRooms", "CreateRoom"}, NEW at \in {"RoomList", "MainMenu"},
             Command(Cmd(do, NoRoom), Screen(at))
      PROVE  IInv'
  <2> DEFINE c == Cmd(do, NoRoom)
             s == Screen(at)
  <2>1. c \in Commands /\ c.do = do /\ ~c.settled
    BY DEF Cmd, Commands
  <2>2. ScreenOK(s) /\ s.at # "Chat" /\ s.step # "Waiting"
    BY ScreenValues
  <2>3. Command(c, s)
    BY <1>3
  <2> HIDE DEF c, s
  <2>4. c.do # "JoinRoom"
    BY <2>1
  <2> QED BY <1>1, <2>1, <2>2, <2>3, <2>4, CommandStep
<1> QED BY <1>2, <1>3 DEF KeyMainMenu, KeyCreateRoom, Menu

LEMMA ListWithout ==
    ASSUME NEW rs \in Seq(Rooms), NEW n \in DOMAIN rs
    PROVE  RemoveAt(rs, n) \in Seq(Rooms)
<1>1. n \in Int /\ n \in 1..Len(rs) /\ Len(rs) \in Int /\ \A i \in 1..Len(rs) : rs[i] \in Rooms
  OBVIOUS
<1>2. SubSeq(rs, 1, n - 1) \in Seq(Rooms)
  BY <1>1, SubSeqProperties
<1>3. SubSeq(rs, n + 1, Len(rs)) \in Seq(Rooms)
  BY <1>1, SubSeqProperties
<1> QED BY <1>2, <1>3 DEF RemoveAt

LEMMA RoomListStep ==
    ASSUME IInv, KeyRoomList PROVE IInv'
<1>0. ScreenOK(screen)
  BY TypedParts
<1>1. screen.at = "RoomList" /\ screen.list \in Seq(Rooms) /\ screen.step = "UrlInput"
      /\ \A n \in DOMAIN screen.list : n \in Nat /\ screen.list[n] \in Rooms
  BY <1>0 DEF KeyRoomList, On, ScreenOK
<1> DEFINE unmarked == [screen EXCEPT !.marked = 0]
<1>2. ASSUME NEW k \in Nat
      PROVE  LET s == [screen EXCEPT !.marked = k] IN
             ScreenOK(s) /\ s.at = "RoomList" /\ s.step = "UrlInput" /\ s.list = screen.list
  BY <1>0, <1>1 DEF ScreenOK
<1>3. ASSUME NEW k \in Nat, Goto([screen EXCEPT !.marked = k]) PROVE IInv'
  <2> DEFINE s == [screen EXCEPT !.marked = k]
  <2>1. ScreenOK(s) /\ s.at # "Chat" /\ s.step # "Waiting" /\ Goto(s)
    BY <1>2, <1>3
  <2> HIDE DEF s
  <2> QED BY <1>1, <2>1, GotoStep
<1>4. CASE Escape
  <2>1. ScreenOK(Menu) /\ Menu.at # "Chat" /\ Menu.step # "Waiting" /\ Goto(Menu)
    BY <1>4, ScreenValues DEF Escape
  <2> QED BY <1>1, <2>1, GotoStep
<1>5. ASSUME NEW r \in Rooms, Command(Cmd("JoinRoom", r), Chat(r)) PROVE IInv'
  <2> DEFINE c == Cmd("JoinRoom", r)
             s == Chat(r)
  <2>1. c \in Commands /\ c.do = "JoinRoom" /\ c.room = r /\ ~c.settled
    BY DEF Cmd, Commands
  <2>2. /\ ScreenOK(s) /\ s.at = "Chat" /\ ~s.expired /\ s.room = r /\ s.step # "Waiting"
    BY ScreenValues
  <2>3. Command(c, s) /\ r # NoRoom
    BY <1>5, ClientAssumption
  <2> HIDE DEF c, s
  <2> QED BY <1>1, <2>1, <2>2, <2>3, CommandStep
<1>6. ASSUME screen.marked \in DOMAIN screen.list,
             Command(Cmd("DeleteRoom", screen.list[screen.marked]),
                     [unmarked EXCEPT !.list = RemoveAt(@, screen.marked)])
      PROVE  IInv'
  <2> DEFINE s == [unmarked EXCEPT !.list = RemoveAt(@, screen.marked)]
  <2>1. PICK r \in Rooms : r = screen.list[screen.marked]
    BY <1>1, <1>6
  <2> DEFINE c == Cmd("DeleteRoom", r)
  <2>2. c \in Commands /\ c.do = "DeleteRoom" /\ ~c.settled
    BY DEF Cmd, Commands
  <2>3. ScreenOK(unmarked) /\ unmarked.at = "RoomList" /\ unmarked.step = "UrlInput"
        /\ unmarked.list = screen.list
    BY <1>2
  <2>4. RemoveAt(screen.list, screen.marked) \in Seq(Rooms)
    BY <1>1, <1>6, ListWithout
  <2> HIDE DEF unmarked
  <2>5. ScreenOK(s) /\ s.at = "RoomList" /\ s.step = "UrlInput"
    BY <2>3, <2>4 DEF ScreenOK
  <2>6. Command(c, s)
    BY <1>6, <2>1
  <2> HIDE DEF c, s
  <2>7. c.do # "JoinRoom" /\ s.at # "Chat" /\ s.step # "Waiting"
    BY <2>2, <2>5
  <2> QED BY <1>1, <2>2, <2>5, <2>6, <2>7, CommandStep
<1> QED BY <1>1, <1>3, <1>4, <1>5, <1>6 DEF KeyRoomList

LEMMA InviteEntryStep ==
    ASSUME IInv, KeyInviteEntry PROVE IInv'
<1>1. screen.at # "Chat"
  BY DEF KeyInviteEntry, On
<1>2. CASE Escape
  <2>1. ScreenOK(Menu) /\ Menu.at # "Chat" /\ Menu.step # "Waiting" /\ Goto(Menu)
    BY <1>2, ScreenValues DEF Escape
  <2> QED BY <1>1, <2>1, GotoStep
<1>3. ASSUME NEW step \in {"UrlInput", "CodeInput"}, Goto(Entry(step)) PROVE IInv'
  <2> DEFINE s == Entry(step)
  <2>1. ScreenOK(s) /\ s.at # "Chat" /\ s.step # "Waiting" /\ Goto(s)
    BY <1>3, ScreenValues DEF Steps
  <2> HIDE DEF s
  <2> QED BY <1>1, <2>1, GotoStep
<1>4. CASE Command(Cmd("EnterInviteCode", NoRoom), Entry("Waiting"))
  <2> DEFINE c == Cmd("EnterInviteCode", NoRoom)
             s == Entry("Waiting")
  <2>1. c \in Commands /\ c.do = "EnterInviteCode" /\ ~c.settled
    BY DEF Cmd, Commands
  <2>2. ScreenOK(s) /\ s.at # "Chat"
    BY ScreenValues DEF Steps
  <2>3. Command(c, s)
    BY <1>4
  <2> HIDE DEF c, s
  <2>4. c.do # "JoinRoom"
    BY <2>1
  <2> QED BY <1>1, <2>1, <2>2, <2>3, <2>4, CommandStep
<1> QED BY <1>2, <1>3, <1>4 DEF KeyInviteEntry

LEMMA ChatStep ==
    ASSUME IInv, KeyChat PROVE IInv'
<1>0. ScreenOK(screen)
  BY TypedParts
<1>1. screen.at = "Chat" /\ screen.room \in Rooms \cup {NoRoom} /\ screen.step # "Waiting"
  BY <1>0 DEF KeyChat, KeyCommand, On, ScreenOK
<1>2. ASSUME NEW c \in Commands, c.do \in FromChat, Command(c, screen),
             c.settled => c.room = screen.room /\ Settled
      PROVE  IInv'
  <2>1. c.do # "JoinRoom"
    BY <1>2 DEF FromChat
  <2> QED BY <1>0, <1>1, <1>2, <2>1, CommandStep
<1>3. ASSUME NEW do \in FromChat, Command(Cmd(do, NoRoom), screen) PROVE IInv'
  <2> DEFINE c == Cmd(do, NoRoom)
  <2>1. c \in Commands /\ c.do \in FromChat /\ ~c.settled
    BY DEF Cmd, Commands, FromChat
  <2>2. Command(c, screen)
    BY <1>3
  <2> HIDE DEF c
  <2> QED BY <1>2, <2>1, <2>2
<1>4. ASSUME Settled, Command([Cmd("SendMessage", screen.room) EXCEPT !.settled = TRUE], screen)
      PROVE  IInv'
  <2> DEFINE c == [Cmd("SendMessage", screen.room) EXCEPT !.settled = TRUE]
  <2>1. c \in Commands /\ c.do \in FromChat /\ c.room = screen.room
    BY <1>1 DEF Cmd, Commands, FromChat
  <2>2. Command(c, screen)
    BY <1>4
  <2> HIDE DEF c
  <2>3. PICK d \in Commands : d = c
    BY <2>1
  <2> QED BY <1>2, <1>4, <2>1, <2>2, <2>3
<1>5. CASE Command(Cmd("LeaveRoom", NoRoom), Menu)
  <2> DEFINE c == Cmd("LeaveRoom", NoRoom)
  <2>1. c \in Commands /\ c.do = "LeaveRoom" /\ ~c.settled
    BY DEF Cmd, Commands
  <2>2. ScreenOK(Menu) /\ Menu.at # "Chat" /\ Menu.step # "Waiting"
    BY ScreenValues
  <2>3. Command(c, Menu)
    BY <1>5
  <2> HIDE DEF c
  <2>4. c.do # "JoinRoom"
    BY <2>1
  <2> QED BY <1>1, <2>1, <2>2, <2>3, <2>4, CommandStep
<1> QED BY <1>3, <1>4, <1>5 DEF KeyChat, KeyCommand, FromChat
-----------------------------------------------------------------------------
(* Theorems *)

LEMMA IInvInit == Init => IInv
<1> SUFFICES ASSUME Init PROVE IInv
  OBVIOUS
<1>1. /\ phase = "key" /\ screen = Menu /\ cmds = <<>> /\ events = <<>> /\ active = NoRoom
      /\ over = {} /\ code = "None" /\ seed = "AutoPaused"
      /\ records = <<>> \/ \E r \in Rooms : records = <<r>>
  BY DEF Init
<1>2. MaxCommands \in Nat \ {0} /\ MaxEvents \in Nat \ {0, 1}
  BY ClientAssumption
<1>3. ScreenOK(screen) /\ screen.at # "Chat" /\ screen.step # "Waiting"
  BY <1>1, ScreenValues
<1>4. EventsTyped /\ CommandsTyped
  BY <1>1, <1>2 DEF EventsTyped, CommandsTyped
<1>5. AppOK
  <2>1. ASSUME records = <<>>
        PROVE  records \in Seq(Rooms) /\ IsInjective(records)
    <3>1. records \in Seq(Rooms) /\ DOMAIN records = {}
      BY <2>1
    <3> QED BY <3>1 DEF IsInjective
  <2>2. ASSUME NEW r \in Rooms, records = <<r>>
        PROVE  records \in Seq(Rooms) /\ IsInjective(records)
    <3>1. records \in Seq(Rooms) /\ DOMAIN records = {1}
      BY <2>2
    <3> QED BY <3>1 DEF IsInjective
  <2>3. records \in Seq(Rooms) /\ IsInjective(records)
    BY <1>1, <2>1, <2>2
  <2> QED BY <1>1, <2>3 DEF AppOK, RecordsOK, SeedStates, CodeStates
<1>6. SeedInv /\ EventsInv /\ ChatInv /\ WaitingInv /\ MessagesInv
  BY <1>1, <1>3 DEF SeedInv, EventsInv, ChatInv, WaitingInv, MessagesInv, EndsIn, Moved
<1> QED BY <1>1, <1>3, <1>4, <1>5, <1>6, TypedParts

LEMMA IInvStep == IInv /\ [Next]_vars => IInv'
<1> SUFFICES ASSUME IInv, [Next]_vars PROVE IInv'
  OBVIOUS
<1>1. CASE UNCHANGED vars
  <2>1. /\ UNCHANGED <<phase, screen, cmds, events, active, records, over, code, seed>>
    BY <1>1 DEF vars, tui, app
  <2> QED BY <2>1 DEF IInv, TypeOK, RoomsNamed, SeedInv, EventsInv, ChatInv, Refusal,
                WaitingInv, MessagesInv, CodeUnderWay, Gone, Has
<1>2. CASE Interface
  BY <1>2, DrainStep, MenuStep, RoomListStep, InviteEntryStep, ChatStep DEF Interface
<1>3. CASE HandleCommand
  BY <1>3, LeaveRoomStep, JoinRoomStep, CreateRoomStep, RemovalStep, InvitationStep,
     OtherCommandStep DEF HandleCommand
<1>4. CASE Network
  BY <1>4, InvitationStep
<1>5. CASE CheckExpiry \/ \E r \in Rooms : Expire(r)
  BY <1>5, ExpiryStep
<1> QED BY <1>1, <1>2, <1>3, <1>4, <1>5 DEF Next

LEMMA Invariant == Spec => []IInv
BY IInvInit, IInvStep, PTL DEF Spec

\* When nothing waits, nothing is under way.
LEMMA NothingWaits ==
    ASSUME Quiet
    PROVE  /\ ~Moved(events) /\ ~Expires(events) /\ ~Fails(events)
           /\ \A r : ~EndsIn(events, r) /\ ~Opening(cmds, r)
           /\ \A do : ~Asked(cmds, do)
BY DEF Quiet, Moved, Expires, Fails, EndsIn, Opening, Asked

\* Type correctness, with what each screen keeps, and the bounds of both queues.
THEOREM TypeCorrect == Spec => []TypeOK
<1>1. IInv => TypeOK
  BY DEF IInv
<1> QED BY <1>1, Invariant, PTL

\* Whatever was on its way between the interface and AppCore, once everything is handled
\* the chat on the screen and the room AppCore is in are the same, unless the room is over
\* and marked so, or has no record.
THEOREM RoomsAgree == Spec => []RoomAgrees
<1>1. IInv => RoomAgrees
  <2> SUFFICES ASSUME IInv, Quiet
               PROVE  /\ active # NoRoom => screen.at = "Chat" /\ screen.room = active
                      /\ screen.at = "Chat" /\ ~screen.expired /\ Has(screen.room) =>
                            active = screen.room
    BY DEF RoomAgrees
  <2>1. EventsInv /\ ChatInv /\ ScreenOK(screen)
    BY TypedParts
  <2>2. active # NoRoom => screen.room = active
    BY <2>1, NothingWaits DEF EventsInv
  <2>3. active # NoRoom => screen.at = "Chat"
    BY <2>1, <2>2 DEF ScreenOK
  <2>4. screen.at = "Chat" /\ ~screen.expired /\ Has(screen.room) => active = screen.room
    BY <2>1, NothingWaits DEF ChatInv, Refusal
  <2> QED BY <2>2, <2>3, <2>4
<1> QED BY <1>1, Invariant, PTL

\* An expiry that names no room marks, in the end, only the chat of a room that is over
\* or removed.
THEOREM ExpiriesAreRight == Spec => []ExpiredIsGone
<1>1. IInv => ExpiredIsGone
  <2> SUFFICES ASSUME IInv, Quiet, screen.expired PROVE Gone(screen.room)
    BY DEF ExpiredIsGone
  <2>1. ChatInv /\ screen.at = "Chat"
    BY TypedParts DEF ScreenOK
  <2> QED BY <2>1, NothingWaits DEF ChatInv
<1> QED BY <1>1, Invariant, PTL

\* What settles a code, whatever it crosses on its way, leaves nobody waiting for it; only
\* a request that was lost does.
THEOREM WaitsAreCaused == Spec => []WaitingIsPending
<1>1. IInv => WaitingIsPending
  BY NothingWaits DEF IInv, WaitingInv, WaitingIsPending
<1> QED BY <1>1, Invariant, PTL

\* A message typed when nothing was under way that changes the room goes to the room that
\* was on the screen or nowhere, whatever is sent before AppCore receives it.
THEOREM MessagesAreRight == Spec => []MessagesGoWhereTyped
<1>1. IInv => MessagesGoWhereTyped
  <2> SUFFICES ASSUME IInv, cmds # <<>>, Head(cmds).do = "SendMessage", Head(cmds).settled
               PROVE  active \in {NoRoom, Head(cmds).room}
    BY DEF MessagesGoWhereTyped
  <2>1. cmds \in Seq(Commands) /\ MessagesInv
    BY TypedParts DEF CommandsTyped
  <2>2. Head(cmds) = cmds[1] /\ 1 \in DOMAIN cmds
    BY <2>1, CommandTaken
  <2> QED BY <2>1, <2>2 DEF MessagesInv
<1> QED BY <1>1, Invariant, PTL

SeedStep ==
    /\ seed' = "AutoPaused" => active' = NoRoom
    /\ seed = "ManualPaused" /\ seed' # seed => HandleCommand /\ active' = active

\* A seed is paused by leaving only while in no room, whatever way AppCore left or entered
\* rooms, and one paused by hand is resumed by a command alone.
THEOREM SeedsAreRight == Spec => SeedsFollowRooms
<1>1. IInv /\ IInv' /\ [Next]_vars => [SeedStep]_vars
  <2> SUFFICES ASSUME IInv, IInv', Next PROVE SeedStep
    BY DEF SeedStep
  <2>1. seed' = "AutoPaused" => active' = NoRoom
    BY DEF IInv, SeedInv
  <2> SUFFICES ASSUME seed = "ManualPaused", seed' # seed
               PROVE  HandleCommand /\ active' = active
    BY <2>1 DEF SeedStep
  <2>2. \A r : ~Enter(r)
    BY DEF Enter, SeedOutside, PausedByLeaving, ResumedByRejoining
  <2>3. ~LeaveRoom
    BY DEF LeaveRoom, SeedOutside, PausedByLeaving
  <2>4. ~Interface
    BY DEF Interface, Drain, KeyMainMenu, KeyCreateRoom, KeyRoomList, KeyInviteEntry,
           KeyChat, KeyCommand, Escape, Goto, Command, app
  <2>5. ~Network /\ ~CheckExpiry /\ ~\E r \in Rooms : Expire(r)
    BY <2>2 DEF Network, CodeNotFound, CodeResolved, InviteRefused, RequestLost, CodeMoves,
                   InviteAccepted, CheckExpiry, Expire
  <2>6. ~JoinRoom /\ ~CreateRoom
    BY <2>2 DEF JoinRoom, CreateRoom
  <2>7. HandleCommand
    BY <2>4, <2>5 DEF Next
  <2>8. active' = active
    BY <2>3, <2>6, <2>7 DEF HandleCommand, DeleteRoom, ListRooms, EnterInviteCode,
                            SendMessage, SeedCommand
  <2> QED BY <2>7, <2>8
<1>2. Spec => [][SeedStep]_vars
  BY <1>1, Invariant, PTL DEF Spec
<1> QED BY <1>2 DEF SeedsFollowRooms, SeedStep
=============================================================================
