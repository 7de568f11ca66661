---------------------------- MODULE InviteProofs ----------------------------
(***************************************************************************)
(* Theorems about Invite, for every set of clients, rooms and codes and    *)
(* any number of lookups and requests: types first, then keys, approvals,  *)
(* lookups, requests and the room a client is led to.                      *)
(***************************************************************************)
EXTENDS Invite, FiniteSetTheorems, SequenceTheorems, TLAPS

-----------------------------------------------------------------------------
(* Types *)

\* A client is in a room exactly while it has the key of one.
IInv == TypeOK /\ \A n \in Nodes : active[n] = NoRoom <=> key[n] = NoRoom

LEMMA IInvInit == Init => IInv
<1> SUFFICES ASSUME Init PROVE IInv
  OBVIOUS
<1>1. store \in [Nodes -> [Rooms -> Rooms \cup {NoRoom}]]
  BY ConstantsAssumption DEF Init
<1>2. requests \in Seq(Requests)
  BY DEF Init
<1> QED BY <1>1, <1>2 DEF Init, IInv, TypeOK

\* One request, changed in its stage, key or openness.
LEMMA ChangedRequests ==
    ASSUME TypeOK, NEW i \in DOMAIN requests, NEW m \in Requests
    PROVE  [requests EXCEPT ![i] = m] \in Seq(Requests)
<1>1. i \in 1..Len(requests) /\ requests \in Seq(Requests)
  BY DEF TypeOK
<1> QED BY <1>1, ExceptSeq

LEMMA OneRequest ==
    ASSUME TypeOK, NEW i \in DOMAIN requests
    PROVE  /\ requests[i] \in Requests
           /\ Over(requests[i]) \in Requests
           /\ \A k \in Rooms \cup {NoRoom} :
                [requests[i] EXCEPT !.stage = "Answered", !.key = k] \in Requests
           /\ [requests[i] EXCEPT !.stage = "Held"] \in Requests
           /\ [requests[i] EXCEPT !.open = FALSE] \in Requests
<1>1. requests[i] \in Requests
  BY DEF TypeOK
<1> QED BY <1>1 DEF Requests, Stages, Over

LEMMA AnswerType ==
    ASSUME TypeOK, NEW i \in DOMAIN requests, NEW k \in Rooms \cup {NoRoom}, Answer(i, k)
    PROVE  requests' \in Seq(Requests)
BY ChangedRequests, OneRequest DEF Answer

LEMMA ExchangeType ==
    ASSUME IInv, NEW i \in DOMAIN requests, Exchange(i) PROVE IInv'
<1>0. TypeOK /\ requests[i] \in Requests
  BY OneRequest DEF IInv
<1> DEFINE m == requests[i]
<1>1. CASE RequestArrives(i)
  <2>1. requests' = [requests EXCEPT ![i] = [requests[i] EXCEPT !.stage = "Held"]]
    BY <1>1 DEF RequestArrives
  <2>2. requests' \in Seq(Requests)
    BY <1>0, <2>1, ChangedRequests, OneRequest
  <2>3. approvals' \in [Nodes -> [Nodes -> {"None", "Open", "Decided"}]]
    BY <1>0, <1>1 DEF RequestArrives, TypeOK, Requests
  <2> QED BY <1>0, <1>1, <2>2, <2>3 DEF RequestArrives, IInv, TypeOK, pending
<1>2. ASSUME NEW k \in Rooms \cup {NoRoom}, Answer(i, k), approvals' = Decided(m),
             UNCHANGED <<store, active, key, pending, dht, queries, asked>>,
             grants' \in [Nodes -> SUBSET Rooms]
      PROVE  IInv'
  <2>1. requests' \in Seq(Requests)
    BY <1>0, <1>2, AnswerType
  <2>2. approvals' \in [Nodes -> [Nodes -> {"None", "Open", "Decided"}]]
    BY <1>0, <1>2 DEF Decided, TypeOK, Requests
  <2> QED BY <1>0, <1>2, <2>1, <2>2 DEF IInv, TypeOK, pending
<1>3. CASE AcceptInvite(i)
  <2>1. m.from \in Nodes /\ m.to \in Nodes
    BY <1>0 DEF Requests
  <2>2. key[m.to] \in Rooms
    BY <1>3, <2>1 DEF AcceptInvite, IInv, TypeOK
  <2>3. grants' \in [Nodes -> SUBSET Rooms]
    BY <1>0, <1>3, <2>1, <2>2 DEF AcceptInvite, TypeOK
  <2> QED BY <1>2, <1>3, <2>2, <2>3 DEF AcceptInvite
<1>4. CASE DeclineInvite(i)
  <2>1. grants' \in [Nodes -> SUBSET Rooms]
    BY <1>0, <1>4 DEF DeclineInvite, TypeOK
  <2> QED BY <1>2, <1>4, <2>1 DEF DeclineInvite
<1>5. CASE DecisionDropped(i) \/ RejectedArrives(i) \/ TimesOut(i)
  <2>1. \/ requests' = [requests EXCEPT ![i] = Over(requests[i])]
        \/ requests' = [requests EXCEPT ![i] = [requests[i] EXCEPT !.open = FALSE]]
    BY <1>5 DEF DecisionDropped, RejectedArrives, TimesOut
  <2>2. requests' \in Seq(Requests)
    BY <1>0, <2>1, ChangedRequests, OneRequest
  <2>3. wanted' \in [Nodes -> Rooms \cup {NoRoom}]
    BY <1>0, <1>5 DEF DecisionDropped, RejectedArrives, TimesOut, TypeOK, pending
  <2> QED BY <1>0, <1>5, <2>2, <2>3
      DEF DecisionDropped, RejectedArrives, TimesOut, IInv, TypeOK, pending
<1>6. CASE AcceptedArrives(i)
  <2> DEFINE n == m.from
  <2>1. n \in Nodes /\ m.key \in Rooms
    BY <1>0, <1>6 DEF AcceptedArrives, Requests
  <2>2. requests' \in Seq(Requests)
    BY <1>0, <1>6, ChangedRequests, OneRequest DEF AcceptedArrives
  <2>3. wanted' \in [Nodes -> Rooms \cup {NoRoom}]
    BY <1>0, <1>6 DEF AcceptedArrives, TypeOK
  <2>4. CASE wanted[n] = NoRoom
    BY <1>0, <1>6, <2>2, <2>3, <2>4 DEF AcceptedArrives, IInv, TypeOK
  <2>5. CASE wanted[n] # NoRoom
    <3>1. wanted[n] \in Rooms
      BY <1>0, <2>1, <2>5 DEF TypeOK
    <3>2. /\ store' = [store EXCEPT ![n][wanted[n]] = m.key]
          /\ active' = [active EXCEPT ![n] = wanted[n]]
          /\ key' = [key EXCEPT ![n] = m.key]
      BY <1>6, <2>5 DEF AcceptedArrives
    <3>3. store' \in [Nodes -> [Rooms -> Rooms \cup {NoRoom}]]
      BY <1>0, <2>1, <3>1, <3>2 DEF TypeOK
    <3>4. \A p \in Nodes : active'[p] = NoRoom <=> key'[p] = NoRoom
      BY <1>0, <2>1, <3>1, <3>2, ConstantsAssumption DEF IInv, TypeOK
    <3> QED BY <1>0, <1>6, <2>1, <2>2, <2>3, <3>1, <3>2, <3>3, <3>4
        DEF AcceptedArrives, IInv, TypeOK
  <2> QED BY <2>4, <2>5
<1> QED BY <1>1, <1>3, <1>4, <1>5, <1>6 DEF Exchange
LEMMA QueryType ==
    ASSUME TypeOK, NEW n \in Nodes, NEW target \in Codes \cup {"url", "refresh"},
           StartQuery(n, target)
    PROVE  queries' \in [Nodes -> SUBSET Queries] /\ asked' \in Nat
<1>1. queries \in [Nodes -> SUBSET Queries] /\ asked \in Nat
  BY DEF TypeOK
<1>2. [id |-> asked, key |-> target, answered |-> FALSE] \in Queries
  BY <1>1 DEF Queries
<1>3. asked' \in Nat
  BY <1>1 DEF StartQuery
<1>4. queries' = [queries EXCEPT ![n] =
          queries[n] \cup {[id |-> asked, key |-> target, answered |-> FALSE]}]
  BY DEF StartQuery
<1>5. queries[n] \cup {[id |-> asked, key |-> target, answered |-> FALSE]} \in SUBSET Queries
  BY <1>1, <1>2
<1> QED BY <1>1, <1>3, <1>4, <1>5

LEMMA CommandType ==
    ASSUME IInv, NEW n \in Nodes, UserCommand(n) PROVE IInv'
<1>0. TypeOK
  BY DEF IInv
<1>1. ASSUME NEW r \in Rooms, JoinRoom(n, r) PROVE IInv'
  BY <1>0, <1>1, ConstantsAssumption DEF JoinRoom, IInv, TypeOK, pending
<1>2. CASE LeaveRoom(n)
  BY <1>0, <1>2 DEF LeaveRoom, IInv, TypeOK, pending
<1>3. ASSUME NEW c \in Codes, GenerateInviteCode(n, c) PROVE IInv'
  <2>1. [creator |-> n, room |-> active[n]] \in Records
    BY <1>0, <1>3 DEF GenerateInviteCode, MayMakeCode, TypeOK, Records
  <2> QED BY <1>0, <1>3, <2>1 DEF GenerateInviteCode, IInv, TypeOK, pending
<1>4. ASSUME NEW target \in Codes \cup {"url", "refresh"}, StartQuery(n, target),
             code' \in [Nodes -> Codes \cup {NoCode}], url' \in [Nodes -> BOOLEAN]
      PROVE  IInv'
  BY <1>0, <1>4, QueryType DEF StartQuery, IInv, TypeOK
<1>5. ASSUME NEW c \in Codes, EnterInviteCode(n, c) PROVE IInv'
  BY <1>0, <1>4, <1>5 DEF EnterInviteCode, TypeOK
<1>6. CASE LookupRoomUrl(n)
  BY <1>0, <1>4, <1>6 DEF LookupRoomUrl, TypeOK
<1>7. CASE Refresh(n)
  BY <1>0, <1>4, <1>7 DEF Refresh, TypeOK
<1> QED BY <1>1, <1>2, <1>3, <1>5, <1>6, <1>7 DEF UserCommand

\* A request is appended for a record that was found.
LEMMA AskType ==
    ASSUME TypeOK, NEW n \in Nodes, NEW record \in Records, Ask(n, record)
    PROVE  /\ requests' \in Seq(Requests)
           /\ Len(requests') = Len(requests) + 1
           /\ \A i \in DOMAIN requests : requests'[i] = requests[i]
           /\ LET m == requests'[Len(requests) + 1]
              IN  /\ m.from = n /\ m.to = record.creator /\ m.room = record.room
                  /\ m.stage = "Sent" /\ m.key = NoRoom
<1> DEFINE m == [from |-> n, to |-> record.creator, room |-> record.room, stage |-> "Sent",
                 key |-> NoRoom, open |-> TRUE]
<1>1. m \in Requests
  BY DEF Records, Requests, Stages
<1>2. requests \in Seq(Requests) /\ requests' = Append(requests, m)
  BY DEF TypeOK, Ask
<1> HIDE DEF m
<1>3. /\ requests' \in Seq(Requests)
      /\ Len(requests') = Len(requests) + 1
      /\ \A i \in DOMAIN requests : requests'[i] = requests[i]
      /\ requests'[Len(requests) + 1] = m
  BY <1>1, <1>2, AppendProperties
<1> QED BY <1>3 DEF m

LEMMA FoundRecord ==
    ASSUME TypeOK, NEW n \in Nodes, NEW q \in queries[n], NEW c \in Results(q), c \in Codes
    PROVE  dht[c] \in Records /\ q.key = c
BY ConstantsAssumption DEF TypeOK, Results

LEMMA LookupType ==
    ASSUME IInv, NEW n \in Nodes, Lookup(n) PROVE IInv'
<1>0. TypeOK
  BY DEF IInv
<1>1. ASSUME NEW q \in queries[n], LookupResult(n, q) PROVE IInv'
  <2> PICK result \in Results(q) :
          /\ queries' = [queries EXCEPT ![n] =
                IF result = "Failed" THEN @ \ {q}
                ELSE (@ \ {q}) \cup {[q EXCEPT !.answered = TRUE]}]
          /\ \/ UrlResult(n)
             \/ CodeFailed(n, result)
             \/ CodeResolved(n, result)
             \/ ResultIgnored(n, result)
    BY <1>1 DEF LookupResult
  <2>1. q \in Queries /\ [q EXCEPT !.answered = TRUE] \in Queries
    <3>1. q \in Queries
      BY <1>0 DEF TypeOK
    <3> QED BY <3>1 DEF Queries
  <2>2. queries' \in [Nodes -> SUBSET Queries]
    BY <1>0, <2>1 DEF TypeOK
  <2>3. /\ requests' \in Seq(Requests)
        /\ code' \in [Nodes -> Codes \cup {NoCode}]
        /\ url' \in [Nodes -> BOOLEAN]
        /\ wanted' \in [Nodes -> Rooms \cup {NoRoom}]
    <3>1. CASE UrlResult(n) \/ CodeFailed(n, result) \/ ResultIgnored(n, result)
      BY <1>0, <3>1 DEF UrlResult, CodeFailed, ResultIgnored, pending, TypeOK
    <3>2. CASE CodeResolved(n, result)
      <4>1. dht[result] \in Records
        BY <1>0, <3>2, FoundRecord DEF CodeResolved
      <4>2. requests' \in Seq(Requests)
        BY <1>0, <3>2, <4>1, AskType DEF CodeResolved
      <4> QED BY <1>0, <3>2, <4>1, <4>2 DEF CodeResolved, TypeOK, Records
    <3> QED BY <3>1, <3>2
  <2> QED BY <1>0, <1>1, <2>2, <2>3 DEF LookupResult, IInv, TypeOK
<1>2. CASE LookupEnds(n)
  <2>1. queries' \in [Nodes -> SUBSET Queries]
    BY <1>0, <1>2 DEF LookupEnds, TypeOK
  <2> QED BY <1>0, <1>2, <2>1 DEF LookupEnds, IInv, TypeOK, pending
<1> QED BY <1>1, <1>2 DEF Lookup, FirstResult, FurtherResult

LEMMA RestartType ==
    ASSUME IInv, NEW n \in Nodes, Restart(n) PROVE IInv'
<1>0. TypeOK
  BY DEF IInv
<1>1. requests' \in Seq(Requests)
  <2>1. requests' \in [1..Len(requests) -> Requests]
    <3>1. DOMAIN requests = 1..Len(requests)
      BY <1>0 DEF TypeOK
    <3>2. \A i \in DOMAIN requests :
             /\ requests[i] \in Requests /\ Over(requests[i]) \in Requests
             /\ [requests[i] EXCEPT !.open = FALSE] \in Requests
      BY <1>0, OneRequest
    <3> QED BY <3>1, <3>2 DEF Restart
  <2>2. Len(requests) \in Nat
    BY <1>0 DEF TypeOK
  <2> QED BY <2>1, <2>2
<1> QED BY <1>0, <1>1 DEF Restart, IInv, TypeOK

LEMMA IInvStep == IInv /\ [Next]_vars => IInv'
<1> SUFFICES ASSUME IInv, [Next]_vars PROVE IInv'
  OBVIOUS
<1>1. CASE UNCHANGED vars
  BY <1>1 DEF vars, pending, IInv, TypeOK
<1> QED BY <1>1, CommandType, LookupType, RestartType, ExchangeType DEF Next

\* Type correctness: every code in the DHT is of a room, and every key handed over,
\* stored or in use is one.
THEOREM TypeCorrect == Spec => []TypeOK
<1>1. Spec => []IInv
  BY IInvInit, IInvStep, PTL DEF Spec
<1> QED BY <1>1, PTL DEF IInv

-----------------------------------------------------------------------------
(* What a step does to the requests *)

\* A request keeps its parties and its room.
SameRequests ==
    /\ DOMAIN requests' = DOMAIN requests
    /\ \A i \in DOMAIN requests :
          /\ requests'[i].from = requests[i].from
          /\ requests'[i].to = requests[i].to
          /\ requests'[i].room = requests[i].room

\* The request of a client for the record of its code.
Asks(n) ==
    /\ code[n] \in Codes /\ dht[code[n]] \in Records
    /\ wanted' = [wanted EXCEPT ![n] = dht[code[n]].room]
    /\ Ask(n, dht[code[n]])

\* What may become of a request in a step of its exchange.
Becomes(i, m) ==
    LET old == requests[i]
    IN  /\ m.from = old.from /\ m.to = old.to /\ m.room = old.room
        /\ \/ m.key \in {old.key, NoRoom}
           \/ AcceptInvite(i) /\ m.key = key[old.to]
        /\ m.stage = "Held" => old.stage = "Held" \/ RequestArrives(i)

LEMMA ExchangeChanges ==
    ASSUME IInv, NEW i \in DOMAIN requests, Exchange(i)
    PROVE  \E m : Becomes(i, m) /\ requests' = [requests EXCEPT ![i] = m]
<1> DEFINE old == requests[i]
<1>1. old \in Requests
  BY OneRequest DEF IInv
<1>2. Becomes(i, Over(old))
  BY <1>1 DEF Becomes, Over, Requests
<1>3. Becomes(i, [old EXCEPT !.open = FALSE])
  BY <1>1 DEF Becomes, Requests
<1>4. ASSUME NEW k, k \in {old.key, NoRoom} \/ (AcceptInvite(i) /\ k = key[old.to]),
             Answer(i, k)
      PROVE  \E m : Becomes(i, m) /\ requests' = [requests EXCEPT ![i] = m]
  <2>1. Becomes(i, [old EXCEPT !.stage = "Answered", !.key = k])
    BY <1>1, <1>4 DEF Becomes, Requests
  <2> QED BY <1>2, <1>4, <2>1 DEF Answer
<1>5. CASE RequestArrives(i)
  <2>1. Becomes(i, [old EXCEPT !.stage = "Held"])
    BY <1>1, <1>5 DEF Becomes, Requests
  <2>2. requests' = [requests EXCEPT ![i] = [old EXCEPT !.stage = "Held"]]
    BY <1>5 DEF RequestArrives
  <2> QED BY <2>1, <2>2
<1>6. CASE AcceptInvite(i) \/ DeclineInvite(i)
  BY <1>4, <1>6 DEF AcceptInvite, DeclineInvite
<1>7. CASE DecisionDropped(i) \/ AcceptedArrives(i) \/ RejectedArrives(i) \/ TimesOut(i)
  <2>1. \/ requests' = [requests EXCEPT ![i] = Over(old)]
        \/ requests' = [requests EXCEPT ![i] = [old EXCEPT !.open = FALSE]]
    BY <1>7 DEF DecisionDropped, AcceptedArrives, RejectedArrives, TimesOut
  <2> QED BY <1>2, <1>3, <2>1
<1> QED BY <1>5, <1>6, <1>7 DEF Exchange

LEMMA ExchangeKeeps ==
    ASSUME IInv, NEW i \in DOMAIN requests, Exchange(i)
    PROVE  /\ SameRequests
           /\ \A j \in DOMAIN requests \ {i} : requests'[j] = requests[j]
           /\ Becomes(i, requests'[i])
<1> PICK m : Becomes(i, m) /\ requests' = [requests EXCEPT ![i] = m]
  BY ExchangeChanges
<1>1. requests'[i] = m /\ DOMAIN requests' = DOMAIN requests
  OBVIOUS
<1>2. \A j \in DOMAIN requests \ {i} : requests'[j] = requests[j]
  OBVIOUS
<1>3. m.from = requests[i].from /\ m.to = requests[i].to /\ m.room = requests[i].room
  BY DEF Becomes
<1> QED BY <1>1, <1>2, <1>3 DEF SameRequests

LEMMA RestartKeeps ==
    ASSUME IInv, NEW n \in Nodes, Restart(n)
    PROVE  /\ SameRequests
           /\ \A i \in DOMAIN requests :
                /\ requests'[i].key \in {requests[i].key, NoRoom}
                /\ requests'[i].stage = "Held" =>
                      requests[i].stage = "Held" /\ requests[i].to # n
<1>1. \A i \in DOMAIN requests : requests[i] \in Requests
  BY OneRequest DEF IInv
<1> QED BY <1>1 DEF Restart, SameRequests, Over, Requests

LEMMA LookupAsks ==
    ASSUME IInv, NEW n \in Nodes, Lookup(n)
    PROVE  \/ requests' = requests /\ wanted' = wanted
           \/ Asks(n)
<1>1. ASSUME NEW q \in queries[n], LookupResult(n, q)
      PROVE  (requests' = requests /\ wanted' = wanted) \/ Asks(n)
  <2> PICK result \in Results(q) :
          \/ UrlResult(n)
          \/ CodeFailed(n, result)
          \/ CodeResolved(n, result)
          \/ ResultIgnored(n, result)
    BY <1>1 DEF LookupResult
  <2>1. CASE UrlResult(n) \/ CodeFailed(n, result) \/ ResultIgnored(n, result)
    BY <2>1 DEF UrlResult, CodeFailed, ResultIgnored, pending
  <2>2. CASE CodeResolved(n, result)
    BY <2>2, FoundRecord DEF CodeResolved, Verifies, Asks, IInv
  <2> QED BY <2>1, <2>2
<1>2. CASE LookupEnds(n)
  BY <1>2 DEF LookupEnds, pending
<1> QED BY <1>1, <1>2 DEF Lookup, FirstResult, FurtherResult

LEMMA CommandKeeps ==
    ASSUME NEW n \in Nodes, UserCommand(n)
    PROVE  UNCHANGED <<store, wanted, approvals, requests, grants>>
BY DEF UserCommand, JoinRoom, LeaveRoom, GenerateInviteCode, EnterInviteCode, LookupRoomUrl,
   Refresh, StartQuery, pending

LEMMA LookupKeeps ==
    ASSUME NEW n \in Nodes, Lookup(n)
    PROVE  UNCHANGED <<store, active, key, approvals, dht, grants>>
BY DEF Lookup, FirstResult, FurtherResult, LookupResult, LookupEnds

\* What is known of the requests after one is appended.
LEMMA AskKeeps ==
    ASSUME IInv, NEW n \in Nodes, Asks(n)
    PROVE  /\ Len(requests) \in Nat
           /\ DOMAIN requests = 1..Len(requests)
           /\ DOMAIN requests' = 1..(Len(requests) + 1)
           /\ \A i \in DOMAIN requests : requests'[i] = requests[i]
           /\ LET m == requests'[Len(requests) + 1]
              IN  /\ m.from = n /\ m.to = dht[code[n]].creator
                  /\ m.room = dht[code[n]].room /\ m.stage = "Sent" /\ m.key = NoRoom
<1>1. requests \in Seq(Requests) /\ TypeOK
  BY DEF IInv, TypeOK
<1>2. Len(requests) \in Nat /\ DOMAIN requests = 1..Len(requests)
  BY <1>1
<1>3. requests' \in Seq(Requests) /\ Len(requests') = Len(requests) + 1
  BY <1>1, AskType DEF Asks
<1>4. DOMAIN requests' = 1..(Len(requests) + 1)
  BY <1>3
<1> QED BY <1>1, <1>2, <1>4, AskType DEF Asks

-----------------------------------------------------------------------------
(* Keys *)

\* Also a key on its way was granted to whom it goes.
KeysInv ==
    /\ KeysAreGranted
    /\ \A i \in DOMAIN requests :
          requests[i].key # NoRoom =>
              requests[i].key \in Knows[requests[i].from] \cup grants[requests[i].from]

LEMMA KeysStep == IInv /\ KeysInv /\ [Next]_vars => KeysInv'
<1> SUFFICES ASSUME IInv, KeysInv, [Next]_vars PROVE KeysInv'
  OBVIOUS
<1>0. TypeOK
  BY DEF IInv
<1>1. CASE UNCHANGED vars
  BY <1>1 DEF vars, KeysInv, KeysAreGranted
<1>2. ASSUME NEW n \in Nodes, UserCommand(n) PROVE KeysInv'
  <2>1. \A p \in Nodes : key'[p] \in {key[p], NoRoom} \cup {store[p][r] : r \in Rooms}
    BY <1>0, <1>2 DEF UserCommand, JoinRoom, LeaveRoom, GenerateInviteCode, EnterInviteCode,
       LookupRoomUrl, Refresh, StartQuery, TypeOK
  <2> QED BY <1>2, <2>1, CommandKeeps DEF KeysInv, KeysAreGranted
<1>3. ASSUME NEW n \in Nodes, Lookup(n) PROVE KeysInv'
  <2>1. KeysAreGranted'
    BY <1>3, LookupKeeps DEF KeysInv, KeysAreGranted
  <2>2. CASE requests' = requests
    BY <1>3, <2>1, <2>2, LookupKeeps DEF KeysInv
  <2>3. CASE Asks(n)
    BY <1>3, <2>1, <2>3, LookupKeeps, AskKeeps DEF KeysInv
  <2> QED BY <1>3, <2>2, <2>3, LookupAsks
<1>4. ASSUME NEW n \in Nodes, Restart(n) PROVE KeysInv'
  <2>1. KeysAreGranted'
    BY <1>0, <1>4 DEF Restart, KeysInv, KeysAreGranted, TypeOK
  <2>2. grants' = grants
    BY <1>4 DEF Restart
  <2> QED BY <1>4, <2>1, <2>2, RestartKeeps DEF KeysInv, SameRequests
<1>5. ASSUME NEW i \in DOMAIN requests, Exchange(i) PROVE KeysInv'
  <2> DEFINE m == requests[i]
  <2>1. m \in Requests /\ m.from \in Nodes /\ m.to \in Nodes
    BY <1>0, OneRequest DEF Requests
  <2>2. \A p \in Nodes : grants[p] \subseteq grants'[p]
    BY <1>0, <1>5 DEF Exchange, RequestArrives, AcceptInvite, DeclineInvite, DecisionDropped,
       AcceptedArrives, RejectedArrives, TimesOut, TypeOK
  <2>3. /\ requests'[i].from = m.from
        /\ requests'[i].key # NoRoom =>
              requests'[i].key = m.key \/ requests'[i].key \in grants'[m.from]
    <3>1. Becomes(i, requests'[i])
      BY <1>5, ExchangeKeeps
    <3>2. AcceptInvite(i) => key[m.to] \in grants'[m.from]
      BY <1>0, <2>1 DEF AcceptInvite, TypeOK
    <3> QED BY <3>1, <3>2 DEF Becomes
  <2>4. ASSUME NEW j \in DOMAIN requests', requests'[j].key # NoRoom
        PROVE  requests'[j].key \in Knows[requests'[j].from] \cup grants'[requests'[j].from]
    <3>1. j \in DOMAIN requests /\ requests[j].from \in Nodes
      BY <1>0, <1>5, ExchangeKeeps, OneRequest DEF SameRequests, Requests
    <3>2. CASE j = i
      BY <2>1, <2>2, <2>3, <2>4, <3>2 DEF KeysInv
    <3>3. CASE j # i
      BY <1>5, <2>2, <2>4, <3>1, <3>3, ExchangeKeeps DEF KeysInv
    <3> QED BY <3>2, <3>3
  <2>5. CASE AcceptedArrives(i) /\ wanted[m.from] # NoRoom
    <3> DEFINE n == m.from
    <3>1. /\ store' = [store EXCEPT ![n][wanted[n]] = m.key]
          /\ key' = [key EXCEPT ![n] = m.key]
          /\ m.key # NoRoom
      BY <2>5 DEF AcceptedArrives
    <3>2. m.key \in Knows[n] \cup grants'[n]
      BY <2>1, <2>2, <3>1 DEF KeysInv
    <3>3. KeysAreGranted'
      BY <1>0, <2>1, <2>2, <3>1, <3>2 DEF KeysInv, KeysAreGranted, TypeOK
    <3> QED BY <2>4, <3>3 DEF KeysInv
  <2>6. CASE UNCHANGED <<store, key>>
    BY <2>2, <2>4, <2>6 DEF KeysInv, KeysAreGranted
  <2> QED BY <1>5, <2>5, <2>6 DEF Exchange, RequestArrives, AcceptInvite, DeclineInvite,
      DecisionDropped, AcceptedArrives, RejectedArrives, TimesOut
<1> QED BY <1>1, <1>2, <1>3, <1>4, <1>5 DEF Next

\* A key reaches a client only by an acceptance of a member who had it in use.
THEOREM KeysAreSafe == Spec => []KeysAreGranted
<1>1. Init => KeysInv
  BY ConstantsAssumption DEF Init, KeysInv, KeysAreGranted
<1>2. Spec => [](IInv /\ KeysInv)
  BY <1>1, IInvInit, IInvStep, KeysStep, PTL DEF Spec
<1> QED BY <1>2, PTL DEF KeysInv
-----------------------------------------------------------------------------
(* Approvals *)

LEMMA HeldStep == IInv /\ HeldIsRegistered /\ [Next]_vars => HeldIsRegistered'
<1> SUFFICES ASSUME IInv, HeldIsRegistered, [Next]_vars PROVE HeldIsRegistered'
  OBVIOUS
<1>0. TypeOK
  BY DEF IInv
<1>1. CASE UNCHANGED vars
  BY <1>1 DEF vars, HeldIsRegistered
<1>2. ASSUME NEW n \in Nodes, UserCommand(n) PROVE HeldIsRegistered'
  BY <1>2, CommandKeeps DEF HeldIsRegistered
<1>3. ASSUME NEW n \in Nodes, Lookup(n) PROVE HeldIsRegistered'
  <2>1. CASE requests' = requests
    BY <1>3, <2>1, LookupKeeps DEF HeldIsRegistered
  <2>2. CASE Asks(n)
    BY <1>3, <2>2, LookupKeeps, AskKeeps DEF HeldIsRegistered
  <2> QED BY <1>3, <2>1, <2>2, LookupAsks
<1>4. ASSUME NEW n \in Nodes, Restart(n) PROVE HeldIsRegistered'
  <2>1. \A p \in Nodes : p # n => approvals'[p] = approvals[p]
    BY <1>0, <1>4 DEF Restart, TypeOK
  <2>2. \A i \in DOMAIN requests : requests[i].to \in Nodes
    BY <1>0, OneRequest DEF Requests
  <2> QED BY <1>4, <2>1, <2>2, RestartKeeps DEF HeldIsRegistered, SameRequests
<1>5. ASSUME NEW i \in DOMAIN requests, Exchange(i) PROVE HeldIsRegistered'
  <2> DEFINE m == requests[i]
  <2>1. m.from \in Nodes /\ m.to \in Nodes
    BY <1>0, OneRequest DEF Requests
  <2>2. \A p, q \in Nodes : approvals[p][q] # "None" => approvals'[p][q] # "None"
    <3>1. approvals \in [Nodes -> [Nodes -> {"None", "Open", "Decided"}]]
      BY <1>0 DEF TypeOK
    <3>2. CASE approvals' = approvals
      BY <3>2
    <3>3. CASE RequestArrives(i)
      BY <2>1, <3>1, <3>3 DEF RequestArrives
    <3>4. CASE approvals' = Decided(m)
      BY <2>1, <3>1, <3>4 DEF Decided
    <3> QED
      BY <1>5, <3>2, <3>3, <3>4 DEF Exchange, AcceptInvite, DeclineInvite,
         DecisionDropped, AcceptedArrives, RejectedArrives, TimesOut
  <2>3. RequestArrives(i) => approvals'[m.to][m.from] # "None"
    BY <1>0, <2>1 DEF RequestArrives, TypeOK
  <2> SUFFICES ASSUME NEW j \in DOMAIN requests', requests'[j].stage = "Held"
               PROVE  approvals'[requests'[j].to][requests'[j].from] # "None"
    BY DEF HeldIsRegistered
  <2>4. j \in DOMAIN requests /\ requests[j].from \in Nodes /\ requests[j].to \in Nodes
    BY <1>0, <1>5, ExchangeKeeps, OneRequest DEF SameRequests, Requests
  <2>5. requests'[j].from = requests[j].from /\ requests'[j].to = requests[j].to
    BY <1>5, <2>4, ExchangeKeeps DEF SameRequests
  <2>6. requests[j].stage = "Held" \/ (j = i /\ RequestArrives(i))
    <3>1. CASE j = i
      BY <1>5, <3>1, ExchangeKeeps DEF Becomes
    <3>2. CASE j # i
      BY <1>5, <2>4, <3>2, ExchangeKeeps
    <3> QED BY <3>1, <3>2
  <2> QED BY <2>2, <2>3, <2>4, <2>5, <2>6 DEF HeldIsRegistered
<1> QED BY <1>1, <1>2, <1>3, <1>4, <1>5 DEF Next

\* The decision on any request that is held finds an approval.
THEOREM HeldAreRegistered == Spec => []HeldIsRegistered
<1>1. Init => HeldIsRegistered
  BY DEF Init, HeldIsRegistered
<1>2. Spec => [](IInv /\ HeldIsRegistered)
  BY <1>1, IInvInit, IInvStep, HeldStep, PTL DEF Spec
<1> QED BY <1>2, PTL

-----------------------------------------------------------------------------
(* Requests and the room they lead to *)

\* A request goes out only for the code entered last, whatever lookups yield.
THEOREM RequestsAreForCodes == Spec => RequestFollowsCode
<1> DEFINE Follows == \A i \in DOMAIN requests' \ DOMAIN requests :
                          LET m == requests'[i]
                          IN  /\ code[m.from] # NoCode
                              /\ dht[code[m.from]] = [creator |-> m.to, room |-> m.room]
<1>1. ASSUME IInv, [Next]_vars PROVE [Follows]_vars
  <2> SUFFICES ASSUME Next PROVE Follows
    BY <1>1
  <2>1. ASSUME NEW n \in Nodes, Asks(n) PROVE Follows
    <3> SUFFICES ASSUME NEW i \in DOMAIN requests' \ DOMAIN requests
                 PROVE  LET m == requests'[i]
                        IN  /\ code[m.from] # NoCode
                            /\ dht[code[m.from]] = [creator |-> m.to, room |-> m.room]
      OBVIOUS
    <3>1. i = Len(requests) + 1
      BY <1>1, <2>1, AskKeeps
    <3>2. dht[code[n]] \in Records /\ code[n] # NoCode
      BY <2>1, ConstantsAssumption DEF Asks
    <3>3. /\ requests'[i].from = n /\ requests'[i].to = dht[code[n]].creator
          /\ requests'[i].room = dht[code[n]].room
      BY <1>1, <2>1, <3>1, AskKeeps
    <3> QED BY <3>2, <3>3 DEF Records
  <2>2. CASE DOMAIN requests' = DOMAIN requests
    BY <2>2
  <2> QED BY <1>1, <2>1, <2>2, LookupAsks, CommandKeeps, RestartKeeps, ExchangeKeeps
      DEF Next, SameRequests
<1>2. Spec => []IInv
  BY IInvInit, IInvStep, PTL DEF Spec
<1>3. Spec => [][Follows]_vars
  BY <1>1, <1>2, PTL DEF Spec
<1> QED BY <1>3 DEF RequestFollowsCode

\* A client waits only for the room it has asked for last.
WantsLastAsked == \A n \in Nodes : wanted[n] # NoRoom => LastAsked(n) = {wanted[n]}

LEMMA LastAskedKept ==
    ASSUME SameRequests, NEW n
    PROVE  LastAsked(n)' = LastAsked(n)
BY DEF SameRequests, LastAsked

LEMMA LastAskedNow ==
    ASSUME IInv, NEW n \in Nodes, Asks(n), NEW p \in Nodes
    PROVE  LastAsked(p)' = IF p = n THEN {dht[code[n]].room} ELSE LastAsked(p)
<1> DEFINE L == Len(requests) + 1
           Last(i) == \A k \in DOMAIN requests : requests[k].from = p => k <= i
<1>1. /\ Len(requests) \in Nat
      /\ DOMAIN requests = 1..Len(requests)
      /\ DOMAIN requests' = 1..L
      /\ \A i \in DOMAIN requests : requests'[i] = requests[i]
      /\ requests'[L].from = n /\ requests'[L].room = dht[code[n]].room
  BY AskKeeps
<1>2. CASE p = n
  <2>1. \A i \in DOMAIN requests' :
            requests'[i].from = p
            /\ (\A k \in DOMAIN requests' : requests'[k].from = p => k <= i)
            <=> i = L
    BY <1>1, <1>2
  <2>2. {j \in DOMAIN requests' : requests'[j].from = p
            /\ \A k \in DOMAIN requests' : requests'[k].from = p => k <= j} = {L}
    BY <1>1, <2>1
  <2> QED BY <1>1, <1>2, <2>2 DEF LastAsked
<1>3. CASE p # n
  <2>1. {j \in DOMAIN requests' : requests'[j].from = p
            /\ \A k \in DOMAIN requests' : requests'[k].from = p => k <= j} =
        {j \in DOMAIN requests : requests[j].from = p /\ Last(j)}
    BY <1>1, <1>3
  <2>2. \A j \in {j \in DOMAIN requests : requests[j].from = p /\ Last(j)} :
            requests'[j].room = requests[j].room
    BY <1>1
  <2> QED BY <1>3, <2>1, <2>2 DEF LastAsked
<1> QED BY <1>2, <1>3

LEMMA WantsStep == IInv /\ WantsLastAsked /\ [Next]_vars => WantsLastAsked'
<1> SUFFICES ASSUME IInv, WantsLastAsked, [Next]_vars PROVE WantsLastAsked'
  OBVIOUS
<1>0. TypeOK
  BY DEF IInv
<1>1. ASSUME SameRequests, \A n \in Nodes : wanted'[n] \in {wanted[n], NoRoom}
      PROVE  WantsLastAsked'
  BY <1>1, LastAskedKept DEF WantsLastAsked
<1>2. CASE UNCHANGED vars
  BY <1>1, <1>2 DEF vars, pending, SameRequests
<1>3. ASSUME NEW n \in Nodes, UserCommand(n) PROVE WantsLastAsked'
  BY <1>1, <1>3, CommandKeeps DEF SameRequests
<1>4. ASSUME NEW n \in Nodes, Lookup(n) PROVE WantsLastAsked'
  <2>1. CASE Asks(n)
    <3>1. \A p \in Nodes : wanted'[p] = IF p = n THEN dht[code[n]].room ELSE wanted[p]
      BY <1>0, <2>1 DEF Asks, TypeOK
    <3> QED BY <2>1, <3>1, LastAskedNow DEF WantsLastAsked
  <2> QED BY <1>1, <1>4, <2>1, LookupAsks DEF SameRequests
<1>5. ASSUME NEW n \in Nodes, Restart(n) PROVE WantsLastAsked'
  BY <1>0, <1>1, <1>5, RestartKeeps DEF Restart, TypeOK
<1>6. ASSUME NEW i \in DOMAIN requests, Exchange(i) PROVE WantsLastAsked'
  <2>1. \A n \in Nodes : wanted'[n] \in {wanted[n], NoRoom}
    BY <1>0, <1>6 DEF Exchange, RequestArrives, AcceptInvite, DeclineInvite, DecisionDropped,
       AcceptedArrives, RejectedArrives, TimesOut, pending, TypeOK
  <2> QED BY <1>1, <1>6, <2>1, ExchangeKeeps
<1> QED BY <1>2, <1>3, <1>4, <1>5, <1>6 DEF Next

\* An answer leads a client only to the room it asked for last.
THEOREM AnswersLeadToLastAsked == Spec => EntersLastAsked
<1> DEFINE Enters == \A n \in Nodes, r \in Rooms :
                         store'[n][r] # store[n][r] => LastAsked(n) = {r}
<1>1. ASSUME IInv, WantsLastAsked, [Next]_vars PROVE [Enters]_vars
  <2> SUFFICES ASSUME Next, NEW n \in Nodes, NEW r \in Rooms, store'[n][r] # store[n][r]
               PROVE  LastAsked(n) = {r}
    BY <1>1
  <2>1. PICK i \in DOMAIN requests : AcceptedArrives(i)
    BY CommandKeeps, LookupKeeps
    DEF Next, Restart, Exchange, RequestArrives, AcceptInvite, DeclineInvite, DecisionDropped,
        RejectedArrives, TimesOut
  <2>2. requests[i].from \in Nodes /\ TypeOK
    BY <1>1, OneRequest DEF IInv, Requests
  <2>3. /\ wanted[requests[i].from] # NoRoom
        /\ store' = [store EXCEPT ![requests[i].from][wanted[requests[i].from]] =
                        requests[i].key]
    BY <2>1 DEF AcceptedArrives
  <2>4. n = requests[i].from /\ r = wanted[n]
    BY <2>2, <2>3 DEF TypeOK
  <2> QED BY <1>1, <2>3, <2>4 DEF WantsLastAsked
<1>2. Init => WantsLastAsked
  BY DEF Init, WantsLastAsked
<1>3. Spec => [](IInv /\ WantsLastAsked)
  BY <1>2, IInvInit, IInvStep, WantsStep, PTL DEF Spec
<1>4. Spec => [][Enters]_vars
  BY <1>1, <1>3, PTL DEF Spec
<1> QED BY <1>4 DEF EntersLastAsked
-----------------------------------------------------------------------------
(* Lookups *)

Unanswered(n) == {q \in queries[n] : ~q.answered}

\* Lookups whose result would not be ignored as the record of another code: a later
\* code makes those of an earlier one useless.
Relevant(n) == {q \in Unanswered(n) : q.key \in Codes => q.key = code[n]}

\* A room name waits for a lookup of its own, a code for any relevant one; as the
\* name takes the first result, whoever asked for it, both together need two.
LookupsOf(n) ==
    /\ IsFiniteSet(queries[n])
    /\ \A q \in queries[n] : q.id < asked
    /\ url[n] => \E q \in Unanswered(n) : q.key = "url"
    /\ code[n] # NoCode => \E q \in Relevant(n) : url[n] => \E p \in Relevant(n) : p # q

LookupsInv == \A n \in Nodes : LookupsOf(n)

LEMMA NewQuery ==
    ASSUME IInv, LookupsInv, NEW n \in Nodes, NEW target \in Codes \cup {"url", "refresh"},
           StartQuery(n, target),
           \/ target \in Codes /\ code' = [code EXCEPT ![n] = target] /\ url' = url
           \/ target = "url" /\ code' = code /\ url' = [url EXCEPT ![n] = TRUE]
           \/ target = "refresh" /\ code' = code /\ url' = url
    PROVE  LookupsInv'
<1> DEFINE new == [id |-> asked, key |-> target, answered |-> FALSE]
<1>0. TypeOK
  BY DEF IInv
<1>1. /\ asked \in Nat /\ asked' = asked + 1
      /\ queries' = [queries EXCEPT ![n] = queries[n] \cup {new}]
  BY <1>0 DEF TypeOK, StartQuery
<1>2. \A p \in Nodes : queries[p] \subseteq Queries /\ \A q \in queries[p] : q.id \in Nat
  BY <1>0 DEF TypeOK, Queries
<1>3. queries'[n] = queries[n] \cup {new} /\ \A p \in Nodes : p # n => queries'[p] = queries[p]
  BY <1>0, <1>1 DEF TypeOK
<1>4. \A p \in Nodes : p # n => code'[p] = code[p] /\ url'[p] = url[p]
  BY <1>0 DEF TypeOK
<1>5. ASSUME NEW p \in Nodes, p # n PROVE LookupsOf(p)'
  <2>1. \A q \in queries[p] : q.id < asked'
    BY <1>1, <1>2 DEF LookupsInv, LookupsOf
  <2> QED BY <1>3, <1>4, <1>5, <2>1 DEF LookupsInv, LookupsOf, Unanswered, Relevant
<1>6. LookupsOf(n)'
  <2>2. new.id = asked /\ new.key = target /\ new.answered = FALSE
    OBVIOUS
  <2>3. new \notin queries[n]
    BY <1>1, <1>2, <2>2 DEF LookupsInv, LookupsOf
  <2>4. \A q \in queries'[n] : q.id < asked'
    BY <1>1, <1>2, <1>3, <2>2 DEF LookupsInv, LookupsOf
  <2> HIDE DEF new
  <2>0. IsFiniteSet(queries[n])
    BY DEF LookupsInv, LookupsOf
  <2>1. IsFiniteSet(queries'[n])
    BY <1>3, <2>0, FS_AddElement
  <2>5. /\ new \in Unanswered(n)' /\ Unanswered(n) \subseteq Unanswered(n)'
        /\ new \notin Unanswered(n)
    BY <1>3, <2>2, <2>3 DEF Unanswered
  <2>6. url'[n] => \E q \in Unanswered(n)' : q.key = "url"
    BY <1>0, <2>2, <2>5 DEF LookupsInv, LookupsOf, TypeOK
  <2>7. "url" \notin Codes /\ "refresh" \notin Codes
    BY ConstantsAssumption
  <2>8. CASE target \in Codes
    <3>1. code'[n] = target /\ url' = url
      BY <1>0, <2>7, <2>8 DEF TypeOK
    <3>2. new \in Relevant(n)'
      BY <2>2, <2>5, <3>1 DEF Relevant
    <3>3. url[n] => \E q \in Relevant(n)' : q # new
      BY <2>5, <2>7 DEF LookupsInv, LookupsOf, Relevant
    <3> QED BY <2>1, <2>4, <2>6, <3>1, <3>2, <3>3 DEF LookupsOf
  <2>9. CASE target \notin Codes
    <3>1. code' = code /\ (url'[n] => url[n] \/ target = "url")
      BY <1>0, <2>9 DEF TypeOK
    <3>2. new \in Relevant(n)' /\ Relevant(n) \subseteq Relevant(n)' /\ new \notin Relevant(n)
      BY <2>2, <2>5, <2>9, <3>1 DEF Relevant
    <3>3. code'[n] # NoCode => \E q \in Relevant(n) : TRUE
      BY <3>1 DEF LookupsInv, LookupsOf
    <3> QED BY <2>1, <2>4, <2>6, <3>2, <3>3 DEF LookupsOf
  <2> QED BY <2>8, <2>9
<1> QED BY <1>5, <1>6 DEF LookupsInv

\* A result takes away at most one unanswered lookup.
LEMMA ResultKeeps ==
    ASSUME IInv, LookupsInv, NEW n \in Nodes, NEW q \in queries[n],
           asked' = asked,
           \/ queries' = [queries EXCEPT ![n] = queries[n] \ {q}]
           \/ queries' = [queries EXCEPT ![n] =
                  (queries[n] \ {q}) \cup {[q EXCEPT !.answered = TRUE]}]
    PROVE  /\ IsFiniteSet(queries'[n])
           /\ \A r \in queries'[n] : r.id < asked'
           /\ \A r \in Unanswered(n) : r # q => r \in Unanswered(n)'
           /\ \A p \in Nodes : p # n => queries'[p] = queries[p]
<1> DEFINE seen == [q EXCEPT !.answered = TRUE]
<1>1. queries \in [Nodes -> SUBSET Queries] /\ q \in Queries
  BY DEF IInv, TypeOK
<1>2. seen.id = q.id
  BY <1>1 DEF Queries
<1> HIDE DEF seen
<1>3. /\ queries'[n] = queries[n] \ {q} \/ queries'[n] = (queries[n] \ {q}) \cup {seen}
      /\ \A p \in Nodes : p # n => queries'[p] = queries[p]
  BY <1>1 DEF seen
<1>4. IsFiniteSet(queries[n] \ {q}) /\ \A r \in queries[n] : r.id < asked
  BY FS_RemoveElement DEF LookupsInv, LookupsOf
<1>5. IsFiniteSet(queries'[n])
  <2>1. IsFiniteSet((queries[n] \ {q}) \cup {seen})
    BY <1>4, FS_AddElement
  <2> QED BY <1>3, <1>4, <2>1
<1>6. \A r \in queries'[n] : r.id < asked'
  BY <1>2, <1>3, <1>4
<1> QED BY <1>3, <1>5, <1>6 DEF Unanswered

LEMMA LookupsStep == IInv /\ LookupsInv /\ [Next]_vars => LookupsInv'
<1> SUFFICES ASSUME IInv, LookupsInv, [Next]_vars PROVE LookupsInv'
  OBVIOUS
<1>0. TypeOK
  BY DEF IInv
<1>1. ASSUME queries' = queries, asked' = asked, code' = code, url' = url PROVE LookupsInv'
  BY <1>1 DEF LookupsInv, LookupsOf, Unanswered, Relevant
<1>2. ASSUME NEW n \in Nodes, UserCommand(n) PROVE LookupsInv'
  <2>1. ASSUME NEW c \in Codes, EnterInviteCode(n, c) PROVE LookupsInv'
    BY <2>1, NewQuery DEF EnterInviteCode
  <2>2. CASE LookupRoomUrl(n)
    BY <2>2, NewQuery DEF LookupRoomUrl
  <2>3. CASE Refresh(n)
    BY <2>3, NewQuery DEF Refresh
  <2>4. CASE (\E r \in Rooms : JoinRoom(n, r)) \/ LeaveRoom(n)
             \/ (\E c \in Codes : GenerateInviteCode(n, c))
    BY <1>1, <2>4 DEF JoinRoom, LeaveRoom, GenerateInviteCode, pending
  <2> QED BY <1>2, <2>1, <2>2, <2>3, <2>4 DEF UserCommand
<1>3. ASSUME NEW n \in Nodes, NEW q \in queries[n], LookupResult(n, q) PROVE LookupsInv'
  <2> PICK result \in Results(q) :
          /\ queries' = [queries EXCEPT ![n] =
                IF result = "Failed" THEN @ \ {q}
                ELSE (@ \ {q}) \cup {[q EXCEPT !.answered = TRUE]}]
          /\ \/ UrlResult(n)
             \/ CodeFailed(n, result)
             \/ CodeResolved(n, result)
             \/ ResultIgnored(n, result)
    BY <1>3 DEF LookupResult
  <2>0. \/ queries' = [queries EXCEPT ![n] = queries[n] \ {q}]
        \/ queries' = [queries EXCEPT ![n] =
               (queries[n] \ {q}) \cup {[q EXCEPT !.answered = TRUE]}]
    OBVIOUS
  <2>1. asked' = asked
    BY <1>3 DEF LookupResult
  <2>2. /\ IsFiniteSet(queries'[n])
        /\ \A r \in queries'[n] : r.id < asked'
        /\ \A r \in Unanswered(n) : r # q => r \in Unanswered(n)'
        /\ \A p \in Nodes : p # n => queries'[p] = queries[p]
    BY <2>0, <2>1, ResultKeeps
  <2>3. \A p \in Nodes : p # n => code'[p] = code[p] /\ url'[p] = url[p]
    BY <1>0 DEF UrlResult, CodeFailed, CodeResolved, ResultIgnored, pending, TypeOK
  <2>4. \A p \in Nodes : p # n => LookupsOf(p)'
    BY <2>1, <2>2, <2>3 DEF LookupsInv, LookupsOf, Unanswered, Relevant
  <2>5. CASE UrlResult(n)
    <3>1. url'[n] = FALSE /\ url[n] /\ code' = code
      BY <1>0, <2>5 DEF UrlResult, TypeOK
    <3>2. code[n] # NoCode => \E r \in Relevant(n) : r # q
      BY <3>1 DEF LookupsInv, LookupsOf
    <3>3. code'[n] # NoCode => \E r \in Relevant(n)' : TRUE
      BY <2>2, <3>1, <3>2 DEF Relevant
    <3> QED BY <2>2, <2>4, <3>1, <3>3 DEF LookupsInv, LookupsOf
  <2>6. CASE CodeFailed(n, result) \/ CodeResolved(n, result)
    <3>1. code'[n] = NoCode /\ ~url'[n]
      BY <1>0, <2>6 DEF CodeFailed, CodeResolved, TypeOK
    <3> QED BY <2>2, <2>4, <3>1 DEF LookupsInv, LookupsOf
  <2>7. CASE ResultIgnored(n, result)
    <3>1. ~url'[n] /\ code' = code
      BY <2>7 DEF ResultIgnored, pending
    <3>2. code[n] # NoCode => q \notin Relevant(n)
      BY <1>0, <2>7, FoundRecord DEF ResultIgnored, Verifies, Relevant
    <3>3. code[n] # NoCode => \E r \in Relevant(n) : r # q
      BY <3>2 DEF LookupsInv, LookupsOf
    <3>4. code'[n] # NoCode => \E r \in Relevant(n)' : TRUE
      BY <2>2, <3>1, <3>3 DEF Relevant
    <3> QED BY <2>2, <2>4, <3>1, <3>4 DEF LookupsInv, LookupsOf
  <2> QED BY <2>5, <2>6, <2>7
<1>4. ASSUME NEW n \in Nodes, LookupEnds(n) PROVE LookupsInv'
  <2>1. PICK q \in queries[n] : q.answered /\ queries' = [queries EXCEPT ![n] = @ \ {q}]
    BY <1>4 DEF LookupEnds
  <2>2. queries'[n] = queries[n] \ {q} /\ \A p \in Nodes : p # n => queries'[p] = queries[p]
    BY <1>0, <2>1 DEF TypeOK
  <2>3. code' = code /\ url' = url /\ asked' = asked
    BY <1>4 DEF LookupEnds, pending
  <2>4. \A p \in Nodes : /\ Unanswered(p)' = Unanswered(p) /\ Relevant(p)' = Relevant(p)
                         /\ queries'[p] \subseteq queries[p]
    BY <2>1, <2>2, <2>3 DEF Unanswered, Relevant
  <2>5. \A p \in Nodes : IsFiniteSet(queries'[p])
    BY <2>4, FS_Subset DEF LookupsInv, LookupsOf
  <2> QED BY <2>3, <2>4, <2>5 DEF LookupsInv, LookupsOf
<1>5. ASSUME NEW n \in Nodes, Restart(n) PROVE LookupsInv'
  <2>1. queries'[n] = {} /\ ~url'[n] /\ code'[n] = NoCode /\ asked' = asked
    BY <1>0, <1>5 DEF Restart, TypeOK
  <2>2. \A p \in Nodes : p # n =>
            queries'[p] = queries[p] /\ url'[p] = url[p] /\ code'[p] = code[p]
    BY <1>0, <1>5 DEF Restart, TypeOK
  <2>3. LookupsOf(n)'
    BY <2>1, FS_EmptySet DEF LookupsOf
  <2>4. ASSUME NEW p \in Nodes, p # n PROVE LookupsOf(p)'
    BY <2>1, <2>2, <2>4 DEF LookupsInv, LookupsOf, Unanswered, Relevant
  <2> QED BY <2>3, <2>4 DEF LookupsInv
<1>6. ASSUME NEW i \in DOMAIN requests, Exchange(i) PROVE LookupsInv'
  BY <1>1, <1>6 DEF Exchange, RequestArrives, AcceptInvite, DeclineInvite, DecisionDropped,
     AcceptedArrives, RejectedArrives, TimesOut, pending
<1>7. CASE UNCHANGED vars
  BY <1>1, <1>7 DEF vars, pending
<1> QED BY <1>2, <1>3, <1>4, <1>5, <1>6, <1>7 DEF Next, Lookup, FirstResult, FurtherResult

LEMMA EnoughLookups == LookupsInv => LookupUnderWay
<1> SUFFICES ASSUME LookupsInv, NEW n \in Nodes
             PROVE  (IF url[n] THEN 1 ELSE 0) + (IF code[n] # NoCode THEN 1 ELSE 0)
                    <= Cardinality(Unanswered(n))
  BY DEF LookupUnderWay, Unanswered
<1>1. IsFiniteSet(Unanswered(n)) /\ Cardinality(Unanswered(n)) \in Nat
  BY FS_Subset, FS_CardinalityType DEF LookupsInv, LookupsOf, Unanswered
<1>2. ASSUME NEW q \in Unanswered(n) PROVE Cardinality(Unanswered(n)) >= 1
  BY <1>1, <1>2, FS_EmptySet
<1>3. ASSUME NEW q \in Unanswered(n), NEW p \in Unanswered(n), p # q
      PROVE  Cardinality(Unanswered(n)) >= 2
  <2>1. /\ IsFiniteSet(Unanswered(n) \ {q})
        /\ Cardinality(Unanswered(n) \ {q}) = Cardinality(Unanswered(n)) - 1
    BY <1>1, FS_RemoveElement
  <2>2. Cardinality(Unanswered(n) \ {q}) # 0
    BY <1>3, <2>1, FS_EmptySet
  <2> QED BY <1>1, <1>2, <2>1, <2>2
<1>4. url[n] => \E q \in Unanswered(n) : TRUE
  BY DEF LookupsInv, LookupsOf
<1>5. code[n] # NoCode => \E q \in Unanswered(n) : url[n] => \E p \in Unanswered(n) : p # q
  BY DEF LookupsInv, LookupsOf, Relevant
<1> QED BY <1>1, <1>2, <1>3, <1>4, <1>5

\* What a client waits for has as many lookups under way that can still settle it.
THEOREM LookupsAreUnderWay == Spec => []LookupUnderWay
<1>1. Init => LookupsInv
  BY FS_EmptySet DEF Init, LookupsInv, LookupsOf
<1>2. Spec => [](IInv /\ LookupsInv)
  BY <1>1, IInvInit, IInvStep, LookupsStep, PTL DEF Spec
<1> QED BY <1>2, EnoughLookups, PTL
=============================================================================
