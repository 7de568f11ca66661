--------------------------- MODULE DownloadProofs ---------------------------
(***************************************************************************)
(* Theorems about Download, for every set of peers, files, names and rooms *)
(* and every value of the limits.                                          *)
(***************************************************************************)
EXTENDS Download, FiniteSetTheorems, TLAPS

-----------------------------------------------------------------------------
(* Bags of messages *)

\* Receiving and sending put into a bag nothing but what is said to be sent.
LEMMA BagFacts ==
    ASSUME NEW B, NEW C, NEW S
    PROVE  /\ BagToSet(SetToBag(S)) = S
           /\ BagToSet(B (+) C) = BagToSet(B) \cup BagToSet(C)
           /\ BagToSet(B (-) C) \subseteq BagToSet(B)
           /\ BagToSet(EmptyBag) = {}
BY DEF BagToSet, SetToBag, (+), (-), EmptyBag

-----------------------------------------------------------------------------
(* The choice of the next chunks *)

LEMMA IndexOfChunk == \A f \in Files : ChunkOf(f) \subseteq Index
BY DEF Index

\* A dispatch leaves the entries and the messages well typed.
LEMMA DispatchType ==
    ASSUME NEW d \in [Files -> Entries], NEW sent,
           BagToSet(sent) \subseteq Messages, Dispatch(d, sent)
    PROVE  /\ dl' \in [Files -> Entries]
           /\ BagToSet(net)' \subseteq Messages
<1>1. \A f \in Files : Wanted(d, f) \subseteq Index
  BY IndexOfChunk DEF Wanted, Candidates, Missing, ChunkOf
<1>2. \A f \in Files : AfterDispatch(d, f) \in Entries
  <2> SUFFICES ASSUME NEW f \in Files PROVE AfterDispatch(d, f) \in Entries
    OBVIOUS
  <2>1. d[f] \in [status : Statuses, bits : SUBSET Int, inFlight : SUBSET Index]
    BY DEF Entries
  <2>2. d[f].inFlight \cup Wanted(d, f) \subseteq Index
    BY <1>1, <2>1
  <2> QED BY <2>1, <2>2 DEF AfterDispatch, Entries, Statuses
<1>3. dl' \in [Files -> Entries]
  BY <1>2 DEF Dispatch
<1>4. BagToSet(net)' \subseteq Messages
  <2> DEFINE W == {w \in Files \X Index : w[2] \in Wanted(d, w[1])}
  <2>1. PICK ask \in [W -> Peers] :
           net' = sent (+) SetToBag({ChunkRequest(ask[w], w[1], w[2]) :
                                       w \in DOMAIN ask})
    BY DEF Dispatch
  <2> DEFINE Asked == {ChunkRequest(ask[w], w[1], w[2]) : w \in DOMAIN ask}
  <2>2. Asked \subseteq Messages
    BY DEF Messages, ChunkRequests
  <2>3. BagToSet(net') = BagToSet(sent) \cup Asked
    BY <2>1, BagFacts
  <2>4. BagToSet(net)' = BagToSet(net')
    BY DEF BagToSet
  <2> QED BY <2>2, <2>3, <2>4
<1> QED BY <1>3, <1>4

LEMMA ReceiveType ==
    ASSUME TypeOK, NEW m
    PROVE  BagToSet(Receive(m)) \subseteq Messages
BY BagFacts DEF Receive, TypeOK

-----------------------------------------------------------------------------
(* Types *)

THEOREM InitType == Init => TypeOK
<1> SUFFICES ASSUME Init PROVE TypeOK
  OBVIOUS
<1>1. Absent \in Entries
  BY DEF Absent, Entries, Statuses, NewBits
<1>2. failures \in [Peers -> [total : Nat, chunks : SUBSET (Files \X Index)]]
  BY DEF Init, NoFailures
<1>3. bf \in [Names -> [bytes : Int, bits : SUBSET Int]]
  BY DEF Init, NoFile
<1>4. BagToSet(net) \subseteq Messages
  BY BagFacts DEF Init
<1>5. peerBits \in [Files -> [Peers -> SUBSET Index]]
  BY DEF Init, NoPeerBits, NewBits
<1> QED BY <1>1, <1>2, <1>3, <1>4, <1>5, ConstantsAssumption DEF Init, TypeOK

\* The entry a new download starts from.
LEMMA EntryOfType ==
    ASSUME TypeOK, NEW f \in Files
    PROVE  /\ [EntryOf(f) EXCEPT !.status = "Active"] \in Entries
           /\ [dl EXCEPT ![f] = [EntryOf(f) EXCEPT !.status = "Active"]]
                 \in [Files -> Entries]
<1>1. LoadBits(bf[NameOf[f]], ChunkCount[f]) \in SUBSET Int
  <2>1. bf[NameOf[f]].bits \in SUBSET Int
    BY ConstantsAssumption DEF TypeOK
  <2> QED BY <2>1 DEF LoadBits, NewBits
<1>2. dl[f] \in Entries
  BY DEF TypeOK
<1>3. EntryOf(f) \in Entries
  BY <1>1, <1>2 DEF EntryOf, Absent, Entries, Statuses, NewBits
<1>4. [EntryOf(f) EXCEPT !.status = "Active"] \in Entries
  BY <1>3 DEF Entries, Statuses
<1> QED BY <1>4 DEF TypeOK

LEMMA StartDownloadType ==
    ASSUME TypeOK, NEW f \in Files, StartDownload(f)
    PROVE  TypeOK'
<1> DEFINE d == [dl EXCEPT ![f] = [EntryOf(f) EXCEPT !.status = "Active"]]
<1>3. d \in [Files -> Entries]
  BY EntryOfType
<1>4. Dispatch(d, net)
  BY DEF StartDownload
<1>5. dl' \in [Files -> Entries] /\ BagToSet(net)' \subseteq Messages
  <2>1. BagToSet(net) \subseteq Messages
    BY DEF TypeOK
  <2> HIDE DEF d
  <2> QED BY <1>3, <1>4, <2>1, DispatchType
<1>6. queue' \in Seq(Files)
  BY DEF StartDownload, Enqueue, TypeOK
<1> QED
  BY <1>5, <1>6 DEF StartDownload, TypeOK, storage, others

LEMMA PositionType == TypeOK => \A k \in Numbers : Position(k) \in Nat \ {0}
BY DEF TypeOK, Position, Numbers

LEMMA PauseType ==
    ASSUME TypeOK, NEW k \in Numbers, Pause(k) \/ Resume(k)
    PROVE  TypeOK'
<1> DEFINE f == queue[Position(k)]
<1>1. f \in Files
  BY DEF Pause, Resume, Change, TypeOK
<1>2. /\ [dl[f] EXCEPT !.status = "ManualPaused", !.inFlight = {}] \in Entries
      /\ [dl[f] EXCEPT !.status = "Active"] \in Entries
  <2>1. dl[f] \in Entries
    BY <1>1 DEF TypeOK
  <2> QED BY <2>1 DEF Entries, Statuses
<1>3. dl' \in [Files -> Entries]
  <2>1. \/ dl' = [dl EXCEPT ![f] = [dl[f] EXCEPT !.status = "ManualPaused",
                                                 !.inFlight = {}]]
        \/ dl' = [dl EXCEPT ![f] = [dl[f] EXCEPT !.status = "Active"]]
    BY <1>1 DEF Pause, Resume, Change, TypeOK
  <2> HIDE DEF f
  <2> QED BY <1>1, <1>2, <2>1 DEF TypeOK
<1> QED
  BY <1>3 DEF Pause, Resume, Change, UserStep, TypeOK, storage, others

LEMMA CancelType ==
    ASSUME TypeOK, NEW k \in Numbers, Cancel(k)
    PROVE  TypeOK'
<1> DEFINE p == Position(k)
<1>1. /\ p \in DOMAIN queue /\ p \in Nat
      /\ Len(queue) - 1 \in Nat
      /\ \A j \in DOMAIN queue : queue[j] \in Files
  BY PositionType DEF Cancel, TypeOK
<1>2. dl' \in [Files -> Entries]
  BY <1>1 DEF Cancel, TypeOK, Entries, Statuses, Absent, NewBits
<1>3. queue' = [j \in 1 .. Len(queue) - 1 |->
                    IF j < p THEN queue[j] ELSE queue[j + 1]]
  BY DEF Cancel
<1>4. queue' \in Seq(Files)
  <2> HIDE DEF p
  <2>1. \A j \in 1 .. Len(queue) - 1 : j \in DOMAIN queue /\ j + 1 \in DOMAIN queue
    BY <1>1 DEF TypeOK
  <2>2. \A j \in 1 .. Len(queue) - 1 : queue'[j] \in Files
    BY <1>1, <1>3, <2>1
  <2>3. queue' = [j \in 1 .. Len(queue) - 1 |-> queue'[j]]
    BY <1>3
  <2> DEFINE n == Len(queue) - 1
  <2> HIDE DEF n
  <2> QED BY <1>1, <2>2, <2>3 DEF n
<1> QED BY <1>2, <1>4 DEF Cancel, UserStep, TypeOK, storage, others

Distinct(q) == \A j, k \in DOMAIN q : q[j] = q[k] => j = k
Elements(q) == {q[k] : k \in DOMAIN q}

\* Rearranging a queue: r takes its elements from q in the order s.
LEMMA Rearranged ==
    ASSUME NEW q \in Seq(Files), NEW r,
           NEW s \in [DOMAIN q -> DOMAIN q],
           \A i, j \in DOMAIN q : s[i] = s[j] => i = j,
           \A j \in DOMAIN q : \E i \in DOMAIN q : s[i] = j,
           r = [j \in DOMAIN q |-> q[s[j]]]
    PROVE  /\ r \in Seq(Files)
           /\ Distinct(q) => Distinct(r)
           /\ Elements(r) = Elements(q)
<1>1. DOMAIN r = DOMAIN q /\ \A j \in DOMAIN q : r[j] = q[s[j]] /\ r[j] \in Files
  OBVIOUS
<1>2. r \in Seq(Files)
  <2>1. r = [j \in 1 .. Len(q) |-> r[j]] /\ Len(q) \in Nat
    BY <1>1
  <2> DEFINE n == Len(q)
  <2>2. \A j \in 1 .. n : r[j] \in Files
    BY <1>1
  <2> HIDE DEF n
  <2> QED BY <2>1, <2>2 DEF n
<1>3. ASSUME \A j, k \in DOMAIN q : q[j] = q[k] => j = k,
             NEW j \in DOMAIN r, NEW k \in DOMAIN r, r[j] = r[k]
      PROVE  j = k
  <2>1. s[j] = s[k]
    BY <1>1, <1>3
  <2> QED BY <1>1, <2>1
<1>4. ASSUME NEW f, NEW k \in DOMAIN q, q[k] = f
      PROVE  \E j \in DOMAIN r : r[j] = f
  <2>1. PICK i \in DOMAIN q : s[i] = k
    OBVIOUS
  <2> QED BY <1>1, <1>4, <2>1
<1>5. ASSUME NEW f, NEW k \in DOMAIN r, r[k] = f
      PROVE  \E j \in DOMAIN q : q[j] = f
  BY <1>1, <1>5
<1> QED BY <1>1, <1>2, <1>3, <1>4, <1>5 DEF Distinct, Elements

\* The moves only rearrange the queue.
LEMMA MoveFacts ==
    ASSUME queue \in Seq(Files), NEW k \in Numbers,
           MoveTop(k) \/ MoveUp(k) \/ MoveDown(k)
    PROVE  /\ queue' \in Seq(Files)
           /\ Distinct(queue) => Distinct(queue')
           /\ Elements(queue') = Elements(queue)
<1>1. DOMAIN queue = 1 .. Len(queue) /\ Len(queue) \in Nat
  OBVIOUS
<1>2. CASE MoveTop(k)
  <2> DEFINE p == Position(k)
             s == [j \in DOMAIN queue |->
                      IF j = 1 THEN p ELSE IF j <= p THEN j - 1 ELSE j]
  <2>1. p \in DOMAIN queue
        /\ queue' = [j \in DOMAIN queue |->
                        IF j = 1 THEN queue[p]
                        ELSE IF j <= p THEN queue[j - 1] ELSE queue[j]]
    BY <1>2 DEF MoveTop
  <2> HIDE DEF p
  <2>2. s \in [DOMAIN queue -> DOMAIN queue]
    BY <1>1, <2>1
  <2>3. \A i, j \in DOMAIN queue : s[i] = s[j] => i = j
    BY <1>1, <2>1
  <2>5. ASSUME NEW j \in DOMAIN queue PROVE \E i \in DOMAIN queue : s[i] = j
    <3> DEFINE i == IF j = p THEN 1 ELSE IF j < p THEN j + 1 ELSE j
    <3>1. i \in DOMAIN queue /\ s[i] = j
      BY <1>1, <2>1
    <3> QED BY <3>1
  <2>4. queue' = [j \in DOMAIN queue |-> queue[s[j]]]
    BY <1>1, <2>1
  <2> HIDE DEF s
  <2> QED BY ONLY queue \in Seq(Files), <2>2, <2>3, <2>4, <2>5, Rearranged
<1>3. ASSUME NEW p \in Int, Swap(p)
      PROVE  /\ queue' \in Seq(Files)
             /\ Distinct(queue) => Distinct(queue')
             /\ Elements(queue') = Elements(queue)
  <2> DEFINE s == [j \in DOMAIN queue |->
                      IF j = p THEN p + 1 ELSE IF j = p + 1 THEN p ELSE j]
  <2>1. p \in DOMAIN queue /\ p + 1 \in DOMAIN queue
        /\ queue' = [queue EXCEPT ![p] = queue[p + 1], ![p + 1] = queue[p]]
    BY <1>3 DEF Swap
  <2>2. s \in [DOMAIN queue -> DOMAIN queue]
    BY <1>1, <2>1
  <2>3. \A i, j \in DOMAIN queue : s[i] = s[j] => i = j
    BY <1>1, <2>1
  <2>5. ASSUME NEW j \in DOMAIN queue PROVE \E i \in DOMAIN queue : s[i] = j
    <3>1. s[j] \in DOMAIN queue /\ s[s[j]] = j
      BY <1>1, <2>1
    <3> QED BY <3>1
  <2>4. queue' = [j \in DOMAIN queue |-> queue[s[j]]]
    BY <1>1, <2>1
  <2> HIDE DEF s
  <2> QED BY ONLY queue \in Seq(Files), <2>2, <2>3, <2>4, <2>5, Rearranged
<1>4. Position(k) \in Int
  BY <1>1 DEF Position, Numbers
<1> QED BY <1>2, <1>3, <1>4 DEF MoveUp, MoveDown

LEMMA MoveType ==
    ASSUME TypeOK, NEW k \in Numbers, MoveTop(k) \/ MoveUp(k) \/ MoveDown(k)
    PROVE  TypeOK'
<1>1. queue' \in Seq(Files)
  BY MoveFacts DEF TypeOK
<1> QED
  BY <1>1 DEF MoveTop, MoveUp, MoveDown, Swap, UserStep, TypeOK, storage, others

LEMMA AutoPausedType == \A e \in Entries : AutoPaused(e) \in Entries
BY DEF AutoPaused, Entries, Statuses

LEMMA ForgetType == ForgetRoom => /\ peerBits' \in [Files -> [Peers -> SUBSET Index]]
                                  /\ available' \subseteq Files
BY DEF ForgetRoom, NoPeerBits, NewBits

LEMMA RoomType ==
    ASSUME TypeOK, LeaveRoom \/ \E r \in Rooms : JoinRoom(r)
    PROVE  TypeOK'
<1> USE AutoPausedType, ForgetType
<1>1. CASE LeaveRoom
  BY <1>1 DEF LeaveRoom, TypeOK, storage, others
<1>2. ASSUME NEW r \in Rooms, JoinRoom(r) PROVE TypeOK'
  <2> DEFINE d == IF room = NoRoom THEN dl ELSE [f \in Files |-> AutoPaused(dl[f])]
  <2>1. d \in [Files -> Entries]
    BY DEF TypeOK
  <2>2. dl' \in [Files -> Entries]
    <3>1. dl' = [f \in Files |-> IF Resumes(d, f)
                                 THEN [d[f] EXCEPT !.status = "Active"]
                                 ELSE d[f]]
      BY <1>2 DEF JoinRoom
    <3> HIDE DEF d
    <3>2. \A f \in Files : [d[f] EXCEPT !.status = "Active"] \in Entries
      BY <2>1 DEF Entries, Statuses
    <3> QED BY <2>1, <3>1, <3>2
  <2>3. /\ peerBits' \in [Files -> [Peers -> SUBSET Index]]
        /\ available' \subseteq Files
    BY <1>2 DEF JoinRoom, TypeOK
  <2> QED BY <1>2, <2>2, <2>3 DEF JoinRoom, TypeOK, storage, others
<1> QED BY <1>1, <1>2

\* What is received or sent keeps the messages well typed.
LEMMA SendType ==
    ASSUME TypeOK, NEW S \in SUBSET Messages, NEW m
    PROVE  /\ BagToSet(net (+) SetToBag(S)) \subseteq Messages
           /\ BagToSet(Receive(m)) \subseteq Messages
           /\ BagToSet(Receive(m) (+) SetToBag(S)) \subseteq Messages
BY BagFacts, ReceiveType DEF TypeOK

LEMMA EnvironmentType ==
    ASSUME TypeOK, Environment
    PROVE  TypeOK'
<1> USE DEF client, storage, others
<1>1. ASSUME NEW p \in Peers, NEW f \in Files, FileAnnounced(p, f) PROVE TypeOK'
  <2>1. {BitfieldRequest(p, room)} \subseteq Messages
    BY <1>1 DEF FileAnnounced, Messages, BitfieldRequests, TypeOK
  <2>2. BagToSet(net') \subseteq Messages
    BY <1>1, <2>1, SendType DEF FileAnnounced
  <2> QED BY <1>1, <2>2 DEF FileAnnounced, TypeOK, BagToSet
<1>2. ASSUME NEW ps \in SUBSET Peers, ProvidersFound(ps) PROVE TypeOK'
  <2>1. {BitfieldRequest(p, room) : p \in ps} \subseteq Messages
    BY <1>2 DEF ProvidersFound, Messages, BitfieldRequests, TypeOK
  <2>2. BagToSet(net') \subseteq Messages
    BY <1>2, <2>1, SendType DEF ProvidersFound
  <2> QED BY <1>2, <2>2 DEF ProvidersFound, TypeOK, BagToSet
<1>3. ASSUME NEW p \in Peers, NEW r \in Rooms \cup {NoRoom}, PeerMoves(p, r)
      PROVE  TypeOK'
  BY <1>3 DEF PeerMoves, PeerStep, TypeOK
<1>4. ASSUME NEW p \in Peers, NEW f \in Files, PeerStopsSeeding(p, f) PROVE TypeOK'
  BY <1>4 DEF PeerStopsSeeding, PeerStep, TypeOK
<1> QED BY <1>1, <1>2, <1>3, <1>4 DEF Environment

LEMMA InNetType ==
    ASSUME TypeOK
    PROVE  /\ \A m \in InNet("ChunkRequest") : m \in ChunkRequests
           /\ \A m \in InNet("ChunkResponse") : m \in ChunkResponses
           /\ \A m \in InNet("BitfieldRequest") : m \in BitfieldRequests
           /\ \A m \in InNet("BitfieldResponse") : m \in BitfieldResponses
BY DEF TypeOK, InNet, Messages, ChunkRequests, ChunkResponses, BitfieldRequests,
       BitfieldResponses, ChunkRequest, ChunkResponse, BitfieldRequest,
       BitfieldResponse

LEMMA AnsweredType ==
    ASSUME TypeOK, ChunkAnswered \/ BitfieldAnswered
    PROVE  TypeOK'
<1>1. BagToSet(net') \subseteq Messages
  <2>1. ASSUME NEW m, RequestUnanswered(m) PROVE BagToSet(net') \subseteq Messages
    BY <2>1, SendType DEF RequestUnanswered
  <2>2. ASSUME NEW m \in ChunkRequests, PeerServesChunk(m)
        PROVE  BagToSet(net') \subseteq Messages
    <3> DEFINE c == IF m.peer \in Stale THEN Corrupt ELSE m.file
               a == ChunkResponse(m.peer, m.chunk, c, peerRoom[m.peer])
    <3>1. m.peer \in Peers /\ m.file \in Files /\ m.chunk \in Index
      BY DEF ChunkRequests, ChunkRequest
    <3>2. c \in Files \cup {Corrupt} /\ peerRoom[m.peer] \in Rooms
      BY <2>2, <3>1 DEF PeerServesChunk, TypeOK
    <3>3. {a} \subseteq Messages
      <4> HIDE DEF c
      <4> QED BY <3>1, <3>2 DEF Messages, ChunkResponses
    <3>4. net' = Receive(m) (+) SetToBag({a})
      BY <2>2 DEF PeerServesChunk
    <3> QED BY <3>3, <3>4, SendType
  <2>3. ASSUME NEW m \in BitfieldRequests, PeerListsSeeds(m)
        PROVE  BagToSet(net') \subseteq Messages
    <3> DEFINE fs == IF peerRoom[m.peer] = m.room THEN seeds[m.peer] ELSE {}
               a == BitfieldResponse(m.peer, fs)
    <3>1. m.peer \in Peers
      BY DEF BitfieldRequests, BitfieldRequest
    <3>2. fs \in SUBSET Files
      BY <3>1 DEF TypeOK
    <3>3. {a} \subseteq Messages
      <4> HIDE DEF fs
      <4> QED BY <3>1, <3>2 DEF Messages, BitfieldResponses
    <3>4. net' = Receive(m) (+) SetToBag({a})
      BY <2>3 DEF PeerListsSeeds
    <3> QED BY <3>3, <3>4, SendType
  <2> QED BY <2>1, <2>2, <2>3, InNetType DEF ChunkAnswered, BitfieldAnswered
<1>2. UNCHANGED <<client, storage, others>>
  BY DEF ChunkAnswered, BitfieldAnswered, PeerServesChunk, PeerListsSeeds,
         RequestUnanswered, PeerStep
<1> QED BY <1>1, <1>2 DEF TypeOK, client, storage, others, BagToSet

LEMMA BitfieldArrivesType ==
    ASSUME TypeOK, BitfieldArrives
    PROVE  TypeOK'
<1>1. ASSUME NEW m \in BitfieldResponses, OnBitfieldResponse(m) PROVE TypeOK'
  <2>1. peerBits' \in [Files -> [Peers -> SUBSET Index]]
    BY <1>1, IndexOfChunk DEF OnBitfieldResponse, TypeOK
  <2>2. dl' \in [Files -> Entries] /\ BagToSet(net)' \subseteq Messages
    <3>1. dl \in [Files -> Entries] /\ BagToSet(Receive(m)) \subseteq Messages
      BY SendType DEF TypeOK
    <3> QED BY <1>1, <3>1, DispatchType DEF OnBitfieldResponse
  <2> QED BY <1>1, <2>1, <2>2 DEF OnBitfieldResponse, TypeOK, storage, others
<1>2. ASSUME NEW m, ResponseIgnored(m) PROVE TypeOK'
  <2>1. BagToSet(net') \subseteq Messages
    BY <1>2, SendType DEF ResponseIgnored
  <2> QED
    BY <1>2, <2>1 DEF ResponseIgnored, TypeOK, client, storage, others, BagToSet
<1> QED BY <1>1, <1>2, InNetType DEF BitfieldArrives

LEMMA CutShortType ==
    ASSUME TypeOK, NEW f \in Files, NEW i \in Index
    PROVE  CutShort(f, i) \in [Names -> [Index -> Files \cup {Empty, Torn}]]
<1>1. NameOf[f] \in Names /\ disk[NameOf[f]] \in [Index -> Files \cup {Empty, Torn}]
  BY ConstantsAssumption DEF TypeOK
<1>2. (IF disk[NameOf[f]][i] = f THEN f ELSE Torn) \in Files \cup {Empty, Torn}
  OBVIOUS
<1> QED BY <1>1, <1>2 DEF CutShort, TypeOK

\* The handlers of a chunk that opens leave well-typed entries to dispatch.
LEMMA ChunkOpensType ==
    ASSUME TypeOK, NEW m \in ChunkResponses, NEW f \in Files,
           \/ ChunkCorrupt(m, f)
           \/ ChunkStored(m, f)
           \/ ChunkUnwritable(m, f)
           \/ BitsUnflushed(m, f)
    PROVE  TypeOK'
<1> DEFINE i == m.chunk
           n == NameOf[f]
           bits == SetBit(dl[f].bits, i, ChunkCount[f])
<1>1. i \in Index /\ i \in Int /\ m.peer \in Peers /\ n \in Names
  BY ConstantsAssumption DEF ChunkResponses, ChunkResponse, Index, ChunkOf, Chunks
<1>2. dl[f] \in Entries /\ dl[f].inFlight \ {i} \in SUBSET Index
  BY DEF TypeOK, Entries
<1>3. bits \in SUBSET Int
  BY <1>1, <1>2 DEF SetBit, Entries
<1>4. BagToSet(Receive(m)) \subseteq Messages /\ dl \in [Files -> Entries]
  BY SendType DEF TypeOK
<1> HIDE DEF i, n, bits
<1>5. CASE ChunkCorrupt(m, f)
  <2> DEFINE e == [dl[f] EXCEPT !.inFlight = @ \ {i}]
             d == [dl EXCEPT ![f] = e]
  <2>1. Dispatch(d, Receive(m))
    BY <1>5 DEF ChunkCorrupt, i
  <2>2. e \in Entries
    BY <1>2 DEF Entries
  <2>3. d \in [Files -> Entries]
    BY <1>4, <2>2
  <2>4. dl' \in [Files -> Entries] /\ BagToSet(net)' \subseteq Messages
    <3> HIDE DEF d
    <3> QED BY <1>4, <2>1, <2>3, DispatchType
  <2>5. RecordFailure(m.peer, f, i)
    BY <1>5 DEF ChunkCorrupt, i
  <2>6. /\ failures' \in [Peers -> [total : Nat, chunks : SUBSET (Files \X Index)]]
        /\ blocked' \subseteq Peers
    <3>1. failures[m.peer] \in [total : Nat, chunks : SUBSET (Files \X Index)]
      BY <1>1 DEF TypeOK
    <3> QED BY <1>1, <2>5, <3>1 DEF RecordFailure, TypeOK
  <2> QED BY <1>5, <2>4, <2>6 DEF ChunkCorrupt, TypeOK, storage, others
<1>6. CASE ChunkStored(m, f)
  <2> DEFINE done == IsComplete(bits, ChunkCount[f])
             e == [status   |-> IF done THEN "Completed" ELSE dl[f].status,
                   bits     |-> bits,
                   inFlight |-> dl[f].inFlight \ {i}]
             d == [dl EXCEPT ![f] = e]
  <2>1. Dispatch(d, Receive(m))
    BY <1>6 DEF ChunkStored, i, bits
  <2>2. e \in Entries
    BY <1>2, <1>3 DEF Entries, Statuses
  <2>3. d \in [Files -> Entries]
    <3> HIDE DEF e
    <3> QED BY <1>4, <2>2
  <2>4. dl' \in [Files -> Entries] /\ BagToSet(net)' \subseteq Messages
    <3> HIDE DEF d
    <3> QED BY <1>4, <2>1, <2>3, DispatchType
  <2>5. disk' \in [Names -> [Index -> Files \cup {Empty, Torn}]]
    BY <1>1, <1>6 DEF ChunkStored, TypeOK, i, n
  <2>6. bf' \in [Names -> [bytes : Int, bits : SUBSET Int]]
    <3>1. NoFile \in [bytes : Int, bits : SUBSET Int]
      BY DEF NoFile
    <3>2. StoredBits(bits, ChunkCount[f]) \in [bytes : Int, bits : SUBSET Int]
      BY <1>3, ConstantsAssumption DEF StoredBits, ByteLength
    <3>3. \E b \in {NoFile, StoredBits(bits, ChunkCount[f])} :
             bf' = [bf EXCEPT ![n] = b]
      BY <1>6 DEF ChunkStored, i, n, bits
    <3> QED BY <1>1, <3>1, <3>2, <3>3 DEF TypeOK
  <2> QED BY <1>6, <2>4, <2>5, <2>6 DEF ChunkStored, TypeOK, others
<1>7. CASE ChunkUnwritable(m, f)
  <2>1. dl' \in [Files -> Entries] /\ BagToSet(net)' \subseteq Messages
    BY <1>4, <1>7, DispatchType DEF ChunkUnwritable
  <2>2. disk' \in [Names -> [Index -> Files \cup {Empty, Torn}]]
    BY <1>1, <1>7, CutShortType DEF ChunkUnwritable, TypeOK, i
  <2> QED BY <1>7, <2>1, <2>2 DEF ChunkUnwritable, TypeOK, others
<1>8. CASE BitsUnflushed(m, f)
  <2> DEFINE e == [status   |-> dl[f].status,
                   bits     |-> bits,
                   inFlight |-> dl[f].inFlight \ {i}]
             d == [dl EXCEPT ![f] = e]
  <2>1. Dispatch(d, Receive(m))
    BY <1>8 DEF BitsUnflushed, i, bits
  <2>3. e \in Entries
    BY <1>2, <1>3 DEF Entries, Statuses
  <2>4. d \in [Files -> Entries]
    <3> HIDE DEF e
    <3> QED BY <1>4, <2>3
  <2>5. dl' \in [Files -> Entries] /\ BagToSet(net)' \subseteq Messages
    <3> HIDE DEF d
    <3> QED BY <1>4, <2>1, <2>4, DispatchType
  <2>6. disk' \in [Names -> [Index -> Files \cup {Empty, Torn}]]
    BY <1>1, <1>8 DEF BitsUnflushed, TypeOK, i, n
  <2> QED BY <1>8, <2>5, <2>6 DEF BitsUnflushed, TypeOK, others
<1> QED BY <1>5, <1>6, <1>7, <1>8

LEMMA ChunkArrivesType ==
    ASSUME TypeOK, ChunkArrives
    PROVE  TypeOK'
<1>1. ASSUME NEW m, ResponseIgnored(m) PROVE TypeOK'
  <2>1. BagToSet(net') \subseteq Messages
    BY <1>1, SendType DEF ResponseIgnored
  <2> QED
    BY <1>1, <2>1 DEF ResponseIgnored, TypeOK, client, storage, others, BagToSet
<1>2. ASSUME NEW m, NEW f \in Files, ChunkRejected(m, f) PROVE TypeOK'
  <2>1. dl \in [Files -> Entries] /\ BagToSet(Receive(m)) \subseteq Messages
    BY SendType DEF TypeOK
  <2>2. dl' \in [Files -> Entries] /\ BagToSet(net)' \subseteq Messages
    BY <1>2, <2>1, DispatchType DEF ChunkRejected
  <2> QED BY <1>2, <2>2 DEF ChunkRejected, TypeOK, storage, others
<1> QED BY <1>1, <1>2, ChunkOpensType, InNetType DEF ChunkArrives

LEMMA CrashesType ==
    ASSUME TypeOK, Crashes
    PROVE  TypeOK'
<1>1. Restarted
  BY DEF Crashes, Crash, CrashInStore
<1>2. /\ room' \in Rooms \cup {NoRoom} /\ available' \subseteq Files
      /\ peerBits' \in [Files -> [Peers -> SUBSET Index]]
      /\ queue' \in Seq(Files) /\ blocked' \subseteq Peers
  BY <1>1 DEF Restarted, NoPeerBits, NewBits
<1>3. /\ dl' \in [Files -> Entries]
      /\ failures' \in [Peers -> [total : Nat, chunks : SUBSET (Files \X Index)]]
  BY <1>1 DEF Restarted, Absent, NewBits, Entries, Statuses, NoFailures
<1>4. BagToSet(net)' \subseteq Messages
  BY <1>1, BagFacts DEF Restarted, BagToSet
<1>5. /\ disk' \in [Names -> [Index -> Files \cup {Empty, Torn}]]
      /\ bf' \in [Names -> [bytes : Int, bits : SUBSET Int]]
  <2>1. CASE Crash
    BY <2>1 DEF Crash, storage, TypeOK
  <2>2. ASSUME NEW m \in ChunkResponses, NEW f \in Files, CrashInStore(m, f)
        PROVE  /\ disk' \in [Names -> [Index -> Files \cup {Empty, Torn}]]
               /\ bf' \in [Names -> [bytes : Int, bits : SUBSET Int]]
    <3> DEFINE bits == SetBit(dl[f].bits, m.chunk, ChunkCount[f])
    <3>1. m.chunk \in Index /\ m.chunk \in Int /\ NameOf[f] \in Names
      BY ConstantsAssumption
      DEF ChunkResponses, ChunkResponse, Index, ChunkOf, Chunks
    <3>2. bits \in SUBSET Int
      BY <3>1 DEF SetBit, Entries, TypeOK
    <3>3. StoredBits(bits, ChunkCount[f]) \in [bytes : Int, bits : SUBSET Int]
      BY <3>2, ConstantsAssumption DEF StoredBits, ByteLength
    <3>4. /\ disk' \in {CutShort(f, m.chunk), [disk EXCEPT ![NameOf[f]][m.chunk] = f]}
          /\ bf' \in {bf, [bf EXCEPT ![NameOf[f]] = StoredBits(bits, ChunkCount[f])]}
      BY <2>2 DEF CrashInStore
    <3>5. [disk EXCEPT ![NameOf[f]][m.chunk] = f]
             \in [Names -> [Index -> Files \cup {Empty, Torn}]]
      BY <3>1 DEF TypeOK
    <3>6. disk' \in [Names -> [Index -> Files \cup {Empty, Torn}]]
      <4>1. CutShort(f, m.chunk) \in [Names -> [Index -> Files \cup {Empty, Torn}]]
        BY <3>1, CutShortType
      <4> QED BY <3>4, <3>5, <4>1
    <3>7. bf' \in [Names -> [bytes : Int, bits : SUBSET Int]]
      BY <3>1, <3>3, <3>4 DEF TypeOK
    <3> QED BY <3>6, <3>7
  <2> QED BY <2>1, <2>2, InNetType DEF Crashes
<1>6. UNCHANGED others
  BY DEF Crashes, Crash, CrashInStore
<1> QED BY <1>2, <1>3, <1>4, <1>5, <1>6 DEF TypeOK, others

LEMMA NextType == TypeOK /\ [Next]_vars => TypeOK'
<1> SUFFICES ASSUME TypeOK, [Next]_vars PROVE TypeOK'
  OBVIOUS
<1>1. CASE UserCommand
  BY <1>1, StartDownloadType, PauseType, CancelType, MoveType, RoomType
  DEF UserCommand
<1>2. CASE ChunkArrives
  BY <1>2, ChunkArrivesType
<1>3. CASE BitfieldArrives
  BY <1>3, BitfieldArrivesType
<1>4. CASE ChunkAnswered \/ BitfieldAnswered
  BY <1>4, AnsweredType
<1>5. CASE Environment
  BY <1>5, EnvironmentType
<1>6. CASE Crashes
  BY <1>6, CrashesType
<1>7. CASE UNCHANGED vars
  BY <1>7 DEF TypeOK, vars, client, storage, others, BagToSet
<1> QED BY <1>1, <1>2, <1>3, <1>4, <1>5, <1>6, <1>7 DEF Next

\* Every variable keeps its type: no handler indexes a bitmap, a disk or the table
\* of failures outside what the files announced allow, and only requests and
\* responses the protocol has are ever sent.
THEOREM TypeCorrect == Spec => []TypeOK
BY InitType, NextType, PTL DEF Spec
-----------------------------------------------------------------------------
(* The queue, the failures, the chunks in flight and the requests *)

\* What a dispatch does to each entry.
LEMMA DispatchEntry ==
    ASSUME NEW d \in [Files -> Entries], NEW sent, Dispatch(d, sent), NEW f \in Files
    PROVE  /\ dl'[f] \in Entries
           /\ dl'[f].bits = d[f].bits
           /\ dl'[f].inFlight = d[f].inFlight \cup Wanted(d, f)
           /\ dl'[f].status = IF d[f].status = "Active" /\ dl'[f].inFlight = {}
                              THEN "Waiting" ELSE d[f].status
<1>1. dl'[f] = AfterDispatch(d, f)
  BY DEF Dispatch
<1>2. d[f] \in Entries
  OBVIOUS
<1>3. Wanted(d, f) \subseteq Index
  BY IndexOfChunk DEF Wanted, Candidates, Missing, ChunkOf
<1>4. d[f].inFlight \cup Wanted(d, f) \subseteq Index
  BY <1>2, <1>3 DEF Entries
<1> QED BY <1>1, <1>2, <1>4 DEF AfterDispatch, Entries, Statuses
-----------------------------------------------------------------------------
(* The queue *)

LEMMA QueueMatchesIs ==
    QueueMatches <=>
        /\ Distinct(queue)
        /\ \A f \in Files : dl[f].status # "Absent" <=> f \in Elements(queue)
BY DEF QueueMatches, Distinct, Elements

\* A step that moves no element in or out of the queue, and no entry in or out of
\* the table.
LEMMA QueueKept ==
    ASSUME QueueMatches,
           Distinct(queue) => Distinct(queue'), Elements(queue') = Elements(queue),
           \A f \in Files : dl'[f].status = "Absent" <=> dl[f].status = "Absent"
    PROVE  QueueMatches'
<1>1. /\ Distinct(queue')
      /\ \A f \in Files : dl'[f].status # "Absent" <=> f \in Elements(queue')
  BY QueueMatchesIs
<1> QED BY <1>1 DEF QueueMatches, Distinct, Elements

LEMMA DispatchKeepsQueue ==
    ASSUME QueueMatches, UNCHANGED queue, NEW d \in [Files -> Entries], NEW sent,
           Dispatch(d, sent),
           \A f \in Files : d[f].status = "Absent" <=> dl[f].status = "Absent"
    PROVE  QueueMatches'
<1>1. \A f \in Files : dl'[f].status = "Absent" <=> dl[f].status = "Absent"
  BY DispatchEntry
<1> QED BY <1>1, QueueKept

LEMMA StartKeepsQueue ==
    ASSUME TypeOK, QueueMatches, NEW f \in Files, StartDownload(f)
    PROVE  QueueMatches'
<1> DEFINE d == [dl EXCEPT ![f] = [EntryOf(f) EXCEPT !.status = "Active"]]
<1>1. d \in [Files -> Entries]
  BY EntryOfType
<1>2. \A g \in Files : d[g].status = IF g = f THEN "Active" ELSE dl[g].status
  BY EntryOfType DEF Entries, TypeOK
<1>3. \A g \in Files :
         dl'[g].status = "Absent" <=> g # f /\ dl[g].status = "Absent"
  <2>1. Dispatch(d, net)
    BY DEF StartDownload
  <2> HIDE DEF d
  <2> QED BY <1>1, <1>2, <2>1, DispatchEntry
<1> HIDE DEF d
<1>4. CASE dl[f].status # "Absent"
  BY <1>3, <1>4, QueueKept DEF StartDownload, Enqueue
<1>5. CASE dl[f].status = "Absent"
  <2>1. f \notin Elements(queue) /\ Distinct(queue)
    BY <1>5, QueueMatchesIs
  <2>2. queue' = Append(queue, f) /\ queue \in Seq(Files)
    BY <1>5 DEF StartDownload, Enqueue, TypeOK
  <2>3. /\ Elements(queue') = Elements(queue) \cup {f}
        /\ Distinct(queue')
    <3>1. /\ DOMAIN queue = 1 .. Len(queue) /\ Len(queue) \in Nat
          /\ DOMAIN queue' = 1 .. Len(queue) + 1
          /\ \A k \in DOMAIN queue : queue'[k] = queue[k]
          /\ queue'[Len(queue) + 1] = f
      BY <2>2
    <3>2. \A k \in DOMAIN queue' : k \in DOMAIN queue \/ k = Len(queue) + 1
      BY <3>1
    <3>3. \A k \in DOMAIN queue : k \in DOMAIN queue' /\ queue[k] # f
      BY <2>1, <3>1 DEF Elements
    <3>4. Len(queue) + 1 \in DOMAIN queue'
      BY <3>1
    <3> QED BY <2>1, <3>1, <3>2, <3>3, <3>4 DEF Elements, Distinct
  <2> QED BY <1>3, <2>1, <2>3, QueueMatchesIs DEF QueueMatches, Elements, Distinct
<1> QED BY <1>4, <1>5

LEMMA CancelKeepsQueue ==
    ASSUME TypeOK, QueueMatches, NEW k \in Numbers, Cancel(k)
    PROVE  QueueMatches'
<1> DEFINE p == Position(k)
<1>1. /\ p \in DOMAIN queue
      /\ queue' = [j \in 1 .. Len(queue) - 1 |->
                      IF j < p THEN queue[j] ELSE queue[j + 1]]
      /\ dl' = [dl EXCEPT ![queue[p]] = Absent]
  BY DEF Cancel
<1>2. /\ queue \in Seq(Files) /\ DOMAIN queue = 1 .. Len(queue)
      /\ Len(queue) \in Nat /\ queue[p] \in Files
  BY <1>1 DEF TypeOK
<1> HIDE DEF p
<1>3. \A j \in DOMAIN queue' :
         LET i == IF j < p THEN j ELSE j + 1
         IN  i \in DOMAIN queue /\ i # p /\ queue'[j] = queue[i]
  BY <1>1, <1>2
<1>4. \A i \in DOMAIN queue \ {p} :
         LET j == IF i < p THEN i ELSE i - 1
         IN  j \in DOMAIN queue' /\ queue'[j] = queue[i]
  BY <1>1, <1>2
<1>5. Distinct(queue)
  BY QueueMatchesIs
<1>6. ASSUME NEW j \in DOMAIN queue', NEW l \in DOMAIN queue', queue'[j] = queue'[l]
      PROVE  j = l
  <2> DEFINE i(x) == IF x < p THEN x ELSE x + 1
  <2>1. i(j) = i(l)
    BY <1>3, <1>5, <1>6 DEF Distinct
  <2>2. j \in Int /\ l \in Int /\ p \in Int
    BY <1>1, <1>2
  <2> QED BY <2>1, <2>2
<1>7. Elements(queue') = Elements(queue) \ {queue[p]}
  <2>1. ASSUME NEW j \in DOMAIN queue'
        PROVE  queue'[j] \in Elements(queue) \ {queue[p]}
    BY <1>1, <1>3, <1>5 DEF Distinct, Elements
  <2>2. ASSUME NEW i \in DOMAIN queue, queue[i] # queue[p]
        PROVE  queue[i] \in Elements(queue')
    BY <1>4, <2>2 DEF Elements
  <2> QED BY <2>1, <2>2 DEF Elements
<1>8. \A f \in Files : dl'[f].status # "Absent"
                       <=> dl[f].status # "Absent" /\ f # queue[p]
  <2>1. \A f \in Files : dl'[f] = IF f = queue[p] THEN Absent ELSE dl[f]
    BY <1>1, <1>2 DEF TypeOK
  <2>2. Absent.status = "Absent"
    BY DEF Absent
  <2> QED BY <2>1, <2>2
<1> QED
  BY <1>6, <1>7, <1>8, QueueMatchesIs DEF QueueMatches, Elements

LEMMA PauseKeepsQueue ==
    ASSUME TypeOK, QueueMatches, NEW k \in Numbers, Pause(k) \/ Resume(k)
    PROVE  QueueMatches'
<1> DEFINE f == queue[Position(k)]
<1>1. f \in Files /\ dl[f].status # "Absent"
  BY DEF Pause, Resume, Change, TypeOK
<1>2. \E e \in {[dl[f] EXCEPT !.status = "ManualPaused", !.inFlight = {}],
                [dl[f] EXCEPT !.status = "Active"]} : dl' = [dl EXCEPT ![f] = e]
  BY <1>1 DEF Pause, Resume, Change
<1> HIDE DEF f
<1>3. dl[f] \in Entries
  BY <1>1 DEF TypeOK
<1>4. \A e \in {[dl[f] EXCEPT !.status = "ManualPaused", !.inFlight = {}],
                [dl[f] EXCEPT !.status = "Active"]} : e.status # "Absent"
  BY <1>3 DEF Entries
<1>5. \A g \in Files : dl'[g].status = "Absent" <=> dl[g].status = "Absent"
  BY <1>1, <1>2, <1>4 DEF TypeOK
<1>6. queue' = queue
  BY DEF Pause, Resume, Change
<1> QED BY <1>5, <1>6, QueueKept

LEMMA MoveKeepsQueue ==
    ASSUME TypeOK, QueueMatches, NEW k \in Numbers,
           MoveTop(k) \/ MoveUp(k) \/ MoveDown(k)
    PROVE  QueueMatches'
<1>1. dl' = dl
  BY DEF MoveTop, MoveUp, MoveDown, Swap
<1>2. queue \in Seq(Files)
  BY DEF TypeOK
<1> QED BY <1>1, <1>2, MoveFacts, QueueKept

LEMMA RoomKeepsQueue ==
    ASSUME TypeOK, QueueMatches, LeaveRoom \/ \E r \in Rooms : JoinRoom(r)
    PROVE  QueueMatches'
<1>1. \A e \in Entries : AutoPaused(e).status = "Absent" <=> e.status = "Absent"
  BY DEF AutoPaused, Entries
<1>2. dl \in [Files -> Entries]
  BY DEF TypeOK
<1>3. CASE LeaveRoom
  BY <1>1, <1>2, <1>3, QueueKept DEF LeaveRoom
<1>4. ASSUME NEW r \in Rooms, JoinRoom(r) PROVE QueueMatches'
  <2> DEFINE d == IF room = NoRoom THEN dl ELSE [f \in Files |-> AutoPaused(dl[f])]
  <2>1. d \in [Files -> Entries]
    BY <1>2, AutoPausedType
  <2>2. \A f \in Files : d[f].status = "Absent" <=> dl[f].status = "Absent"
    BY <1>1, <1>2
  <2>3. dl' = [f \in Files |-> IF Resumes(d, f)
                               THEN [d[f] EXCEPT !.status = "Active"]
                               ELSE d[f]]
    BY <1>4 DEF JoinRoom
  <2> HIDE DEF d
  <2>4. \A f \in Files : dl'[f].status = "Absent" <=> d[f].status = "Absent"
    BY <2>1, <2>3 DEF Resumes, Entries
  <2> QED BY <1>4, <2>2, <2>4, QueueKept DEF JoinRoom
<1> QED BY <1>3, <1>4

LEMMA ChunkKeepsQueue ==
    ASSUME TypeOK, QueueMatches, NEW m \in ChunkResponses, NEW f \in Files,
           \/ ChunkCorrupt(m, f)
           \/ ChunkStored(m, f)
           \/ BitsUnflushed(m, f)
    PROVE  QueueMatches'
<1> DEFINE i == m.chunk
           bits == SetBit(dl[f].bits, i, ChunkCount[f])
           done == IsComplete(bits, ChunkCount[f])
           e1 == [dl[f] EXCEPT !.inFlight = @ \ {i}]
           e2 == [status   |-> IF done THEN "Completed" ELSE dl[f].status,
                  bits     |-> bits,
                  inFlight |-> dl[f].inFlight \ {i}]
           e3 == [status   |-> dl[f].status,
                  bits     |-> bits,
                  inFlight |-> dl[f].inFlight \ {i}]
<1>1. dl[f] \in Entries /\ i \in Int /\ dl[f].status = "Active"
  BY DEF TypeOK, ChunkResponses, ChunkResponse, Index, ChunkOf, Chunks,
         ChunkCorrupt, ChunkStored, BitsUnflushed, Opens, Addressee, Awaits
<1>2. bits \in SUBSET Int
  BY <1>1 DEF SetBit, Entries
<1>3. \E e \in {e1, e2, e3} : Dispatch([dl EXCEPT ![f] = e], Receive(m))
  BY DEF ChunkCorrupt, ChunkStored, BitsUnflushed
<1> HIDE DEF bits, done, i
<1>4. \A e \in {e1, e2, e3} : e \in Entries /\ e.status # "Absent"
  <2>1. e1 \in Entries /\ e1.status # "Absent"
    BY <1>1 DEF Entries
  <2>2. e2 \in Entries /\ e2.status # "Absent"
    BY <1>1, <1>2 DEF Entries, Statuses
  <2>3. e3 \in Entries /\ e3.status # "Absent"
    BY <1>1, <1>2 DEF Entries
  <2> HIDE DEF e1, e2, e3
  <2> QED BY <2>1, <2>2, <2>3
<1> HIDE DEF e1, e2, e3
<1>5. PICK e \in {e1, e2, e3} : Dispatch([dl EXCEPT ![f] = e], Receive(m))
  BY <1>3
<1>6. /\ [dl EXCEPT ![f] = e] \in [Files -> Entries]
      /\ \A g \in Files : [dl EXCEPT ![f] = e][g].status = "Absent"
                          <=> dl[g].status = "Absent"
  BY <1>1, <1>4 DEF TypeOK
<1>7. UNCHANGED queue
  BY DEF ChunkCorrupt, ChunkStored, BitsUnflushed
<1> QED BY <1>5, <1>6, <1>7, DispatchKeepsQueue

\* The queue lists every entry once and nothing else, through every command, room
\* change, response and restart: the number of the user and the search of
\* on_chunk_response find each download exactly where it stands.
THEOREM QueueIsRight == Spec => []QueueMatches
<1>1. Init => QueueMatches
  BY DEF Init, QueueMatches, Absent
<1>2. TypeOK /\ QueueMatches /\ [Next]_vars => QueueMatches'
  <2> SUFFICES ASSUME TypeOK, QueueMatches, [Next]_vars PROVE QueueMatches'
    OBVIOUS
  <2>1. CASE UserCommand
    BY <2>1, StartKeepsQueue, CancelKeepsQueue, PauseKeepsQueue,
       MoveKeepsQueue, RoomKeepsQueue
    DEF UserCommand
  <2>2. ASSUME UNCHANGED <<queue, dl>> PROVE QueueMatches'
    BY <2>2 DEF QueueMatches
  <2>3. ASSUME NEW d \in {dl}, NEW sent, Dispatch(d, sent), UNCHANGED queue
        PROVE  QueueMatches'
    BY <2>3, DispatchKeepsQueue DEF TypeOK
  <2>4. CASE ChunkArrives
    <3>1. ASSUME NEW m \in InNet("ChunkResponse"), ResponseIgnored(m)
          PROVE  QueueMatches'
      BY <2>2, <3>1 DEF ResponseIgnored, client
    <3>2. ASSUME NEW m \in InNet("ChunkResponse"), NEW f \in Files,
                 ChunkRejected(m, f) \/ ChunkUnwritable(m, f)
          PROVE  QueueMatches'
      BY <2>3, <3>2 DEF ChunkRejected, ChunkUnwritable
    <3> QED BY <2>4, <3>1, <3>2, ChunkKeepsQueue, InNetType DEF ChunkArrives
  <2>5. CASE BitfieldArrives
    <3>1. ASSUME NEW m, ResponseIgnored(m) PROVE QueueMatches'
      BY <2>2, <3>1 DEF ResponseIgnored, client
    <3>2. ASSUME NEW m, OnBitfieldResponse(m) PROVE QueueMatches'
      BY <2>3, <3>2 DEF OnBitfieldResponse
    <3> QED BY <2>5, <3>1, <3>2 DEF BitfieldArrives
  <2>6. CASE ChunkAnswered \/ BitfieldAnswered
    <3>1. UNCHANGED client
      BY <2>6
      DEF ChunkAnswered, BitfieldAnswered, PeerServesChunk, PeerListsSeeds,
          RequestUnanswered, PeerStep
    <3> QED BY <2>2, <3>1 DEF client
  <2>7. CASE Environment
    <3>1. UNCHANGED <<queue, dl>>
      BY <2>7
      DEF Environment, FileAnnounced, ProvidersFound, PeerMoves, PeerStopsSeeding,
          PeerStep, client
    <3> QED BY <2>2, <3>1
  <2>8. CASE Crashes
    <3>1. Restarted
      BY <2>8 DEF Crashes, Crash, CrashInStore
    <3>2. queue' = <<>> /\ \A f \in Files : dl'[f].status = "Absent"
      BY <3>1 DEF Restarted, Absent
    <3> QED BY <3>2 DEF QueueMatches
  <2>9. CASE UNCHANGED vars
    BY <2>2, <2>9 DEF vars, client
  <2> QED BY <2>1, <2>4, <2>5, <2>6, <2>7, <2>8, <2>9 DEF Next
<1> QED BY <1>1, <1>2, TypeCorrect, PTL DEF Spec
-----------------------------------------------------------------------------
(* Failures and blocked peers *)

\* What makes BlockedAtThree inductive: the sets it counts are finite.
FailuresFinite == \A p \in Peers : IsFiniteSet(failures[p].chunks)

LEMMA FailureStep ==
    ASSUME TypeOK, BlockedAtThree, FailuresFinite,
           NEW q \in Peers, NEW f \in Files, NEW i \in Index, RecordFailure(q, f, i)
    PROVE  (BlockedAtThree /\ FailuresFinite)'
<1>1. /\ failures' = [failures EXCEPT ![q] = [total  |-> failures[q].total + 1,
                                             chunks |-> failures[q].chunks
                                                           \cup {<<f, i>>}]]
      /\ blocked' = IF failures'[q].total >= MaxFailures
                    THEN blocked \cup {q} ELSE blocked
      /\ failures \in [Peers -> [total : Nat, chunks : SUBSET (Files \X Index)]]
  BY DEF RecordFailure, TooMany, TypeOK
<1> SUFFICES ASSUME NEW p \in Peers
             PROVE  /\ p \in blocked' <=> failures'[p].total >= MaxFailures
                    /\ failures'[p].chunks = {} <=> failures'[p].total = 0
                    /\ Cardinality(failures'[p].chunks) <= failures'[p].total
                    /\ IsFiniteSet(failures'[p].chunks)
  BY DEF BlockedAtThree, FailuresFinite
<1>2. CASE p # q
  BY <1>1, <1>2 DEF BlockedAtThree, FailuresFinite
<1>3. CASE p = q
  <2>1. /\ failures'[p].total = failures[p].total + 1
        /\ failures'[p].chunks = failures[p].chunks \cup {<<f, i>>}
        /\ failures[p].total \in Nat
    BY <1>1, <1>3
  <2>2. /\ IsFiniteSet(failures[p].chunks)
        /\ Cardinality(failures[p].chunks) <= failures[p].total
        /\ p \in blocked <=> failures[p].total >= MaxFailures
    BY DEF BlockedAtThree, FailuresFinite
  <2>3. /\ IsFiniteSet(failures[p].chunks \cup {<<f, i>>})
        /\ Cardinality(failures[p].chunks \cup {<<f, i>>})
              <= Cardinality(failures[p].chunks) + 1
    <3> DEFINE S == failures[p].chunks
               x == <<f, i>>
    <3>1. IsFiniteSet(S) /\ Cardinality(S) \in Nat
      BY <2>2, FS_CardinalityType
    <3> HIDE DEF S, x
    <3>2. /\ IsFiniteSet(S \cup {x})
          /\ Cardinality(S \cup {x}) = IF x \in S THEN Cardinality(S)
                                       ELSE Cardinality(S) + 1
      BY <3>1, FS_AddElement
    <3>3. IsFiniteSet(S \cup {x}) /\ Cardinality(S \cup {x}) <= Cardinality(S) + 1
      BY <3>1, <3>2
    <3> QED BY <3>3 DEF S, x
  <2>4. Cardinality(failures[p].chunks) \in Nat
        /\ Cardinality(failures[p].chunks \cup {<<f, i>>}) \in Nat
    BY <2>2, <2>3, FS_CardinalityType
  <2>5. p \in blocked' <=> failures'[p].total >= MaxFailures
    BY <1>1, <1>3, <2>1, <2>2, ConstantsAssumption
  <2>6. failures'[p].chunks # {} /\ failures'[p].total # 0
    <3>1. <<f, i>> \in failures'[p].chunks
      BY <2>1
    <3>2. failures'[p].total # 0
      BY <2>1
    <3> QED BY <3>1, <3>2
  <2>7. Cardinality(failures'[p].chunks) <= failures'[p].total
    BY <2>1, <2>2, <2>3, <2>4
  <2>8. IsFiniteSet(failures'[p].chunks)
    BY <2>1, <2>3
  <2> QED BY <2>5, <2>6, <2>7, <2>8
<1> QED BY <1>2, <1>3

\* Nothing but a failed chunk and a restart touches the blacklist.
LEMMA BlacklistStep ==
    ASSUME TypeOK, Next
    PROVE  \/ UNCHANGED <<failures, blocked>>
           \/ failures' = NoFailures /\ blocked' = {}
           \/ \E q \in Peers, f \in Files, i \in Index : RecordFailure(q, f, i)
<1>1. CASE UserCommand
  BY <1>1
  DEF UserCommand, StartDownload, Pause, Resume, Change, Cancel, MoveTop, MoveUp,
      MoveDown, Swap, UserStep, LeaveRoom, JoinRoom
<1>2. CASE ChunkArrives
  <2>1. ASSUME NEW m \in ChunkResponses, NEW f \in Files, ChunkCorrupt(m, f)
        PROVE  \E q \in Peers, g \in Files, i \in Index : RecordFailure(q, g, i)
    <3>1. m.peer \in Peers /\ m.chunk \in Index /\ RecordFailure(m.peer, f, m.chunk)
      BY <2>1 DEF ChunkResponses, ChunkResponse, ChunkCorrupt
    <3> QED BY <3>1
  <2>2. ASSUME NEW m, ResponseIgnored(m) PROVE UNCHANGED <<failures, blocked>>
    BY <2>2 DEF ResponseIgnored, client
  <2>3. ASSUME NEW m, NEW f, \/ ChunkRejected(m, f) \/ ChunkStored(m, f)
                             \/ ChunkUnwritable(m, f) \/ BitsUnflushed(m, f)
        PROVE  UNCHANGED <<failures, blocked>>
    BY <2>3 DEF ChunkRejected, ChunkStored, ChunkUnwritable, BitsUnflushed
  <2> QED BY <1>2, <2>1, <2>2, <2>3, InNetType DEF ChunkArrives
<1>3. CASE BitfieldArrives \/ ChunkAnswered \/ BitfieldAnswered \/ Environment
  BY <1>3
  DEF BitfieldArrives, ChunkAnswered, BitfieldAnswered, Environment,
      OnBitfieldResponse, ResponseIgnored, PeerServesChunk, PeerListsSeeds,
      RequestUnanswered, FileAnnounced, ProvidersFound, PeerMoves,
      PeerStopsSeeding, PeerStep, client
<1>4. CASE Crashes
  BY <1>4 DEF Crashes, Crash, CrashInStore, Restarted
<1> QED BY <1>1, <1>2, <1>3, <1>4 DEF Next

\* A peer is blocked exactly when three of its chunks have failed, however the
\* failures of several chunks and peers interleave (BlacklistSet::record_failure).
THEOREM BlockingIsRight == Spec => []BlockedAtThree
<1>0. ASSUME NEW p \in Peers
      PROVE  /\ ~(NoFailures[p].total >= MaxFailures)
             /\ NoFailures[p].chunks = {} /\ NoFailures[p].total = 0
             /\ Cardinality(NoFailures[p].chunks) = 0
             /\ IsFiniteSet(NoFailures[p].chunks)
  <2>1. NoFailures[p].total = 0 /\ NoFailures[p].chunks = {}
    BY DEF NoFailures
  <2>2. ~(0 >= MaxFailures)
    BY ConstantsAssumption
  <2> QED BY <2>1, <2>2, FS_EmptySet
<1>1. Init => BlockedAtThree /\ FailuresFinite
  <2> SUFFICES ASSUME failures = NoFailures, blocked = {}
               PROVE  BlockedAtThree /\ FailuresFinite
    BY DEF Init
  <2>1. ASSUME NEW p \in Peers
        PROVE  Cardinality(failures[p].chunks) <= failures[p].total
    BY <1>0
  <2> QED BY <1>0, <2>1 DEF BlockedAtThree, FailuresFinite
<1>2. TypeOK /\ (BlockedAtThree /\ FailuresFinite) /\ [Next]_vars
      => (BlockedAtThree /\ FailuresFinite)'
  <2> SUFFICES ASSUME TypeOK, BlockedAtThree, FailuresFinite, [Next]_vars
               PROVE  (BlockedAtThree /\ FailuresFinite)'
    OBVIOUS
  <2>1. CASE UNCHANGED <<failures, blocked>>
    BY <2>1 DEF BlockedAtThree, FailuresFinite
  <2>2. CASE failures' = NoFailures /\ blocked' = {}
    <3>1. ASSUME NEW p \in Peers
          PROVE  Cardinality(failures'[p].chunks) <= failures'[p].total
      BY <1>0, <2>2
    <3> QED BY <1>0, <2>2, <3>1 DEF BlockedAtThree, FailuresFinite
  <2>3. CASE UNCHANGED vars
    BY <2>1, <2>3 DEF vars, client
  <2> QED BY <2>1, <2>2, <2>3, BlacklistStep, FailureStep
<1> QED BY <1>1, <1>2, TypeCorrect, PTL DEF Spec
-----------------------------------------------------------------------------
(* The slots of a download *)

\* Of the members of a finite set in the order of their weights (and of the numbers
\* themselves where those are equal), n at most have fewer than n before them.
LEMMA FirstFew ==
    ASSUME NEW C \in SUBSET Int, IsFiniteSet(C), NEW weight \in [C -> Nat],
           NEW n \in Int
    PROVE  LET Before(j, i) == weight[j] < weight[i] \/ (weight[j] = weight[i] /\ j < i)
               First == {i \in C : Cardinality({j \in C : Before(j, i)}) < n}
           IN  /\ IsFiniteSet(First)
               /\ Cardinality(First) <= IF n > 0 THEN n ELSE 0
<1> DEFINE Before(j, i) == weight[j] < weight[i] \/ (weight[j] = weight[i] /\ j < i)
           Ahead(i) == {j \in C : Before(j, i)}
           First == {i \in C : Cardinality(Ahead(i)) < n}
           rank == [i \in First |-> Cardinality(Ahead(i))]
<1>1. \A i \in C : IsFiniteSet(Ahead(i)) /\ Cardinality(Ahead(i)) \in Nat
  BY FS_Subset, FS_CardinalityType
<1>2. ASSUME NEW i \in C, NEW j \in C, Before(j, i)
      PROVE  Cardinality(Ahead(j)) < Cardinality(Ahead(i))
  <2>1. Ahead(j) \cup {j} \subseteq Ahead(i) /\ j \notin Ahead(j)
    <3>1. weight[i] \in Nat /\ weight[j] \in Nat /\ i \in Int /\ j \in Int
      OBVIOUS
    <3>2. ASSUME NEW k \in C, Before(k, j) PROVE Before(k, i)
      <4>1. weight[k] \in Nat /\ k \in Int
        OBVIOUS
      <4> QED BY <1>2, <3>1, <3>2, <4>1
    <3>3. ~Before(j, j)
      BY <3>1
    <3> HIDE DEF Before
    <3> QED BY <1>2, <3>2, <3>3
  <2>2. /\ IsFiniteSet(Ahead(j) \cup {j})
        /\ Cardinality(Ahead(j) \cup {j}) = Cardinality(Ahead(j)) + 1
    <3> HIDE DEF Ahead
    <3> QED BY <1>1, <2>1, FS_AddElement
  <2>3. Cardinality(Ahead(j) \cup {j}) <= Cardinality(Ahead(i))
    <3> HIDE DEF Ahead
    <3> QED BY <1>1, <2>1, FS_Subset
  <2> HIDE DEF Ahead
  <2> QED BY <1>1, <2>2, <2>3
<1>3. \A i, j \in C : i # j => Before(i, j) \/ Before(j, i)
  OBVIOUS
<1>4. rank \in Injection(First, 0 .. n - 1)
  <2> HIDE DEF Ahead, Before
  <2>1. rank \in [First -> 0 .. n - 1]
    <3>1. \A i \in First : Cardinality(Ahead(i)) \in 0 .. n - 1
      BY <1>1
    <3> QED BY <3>1
  <2>2. ASSUME NEW i \in First, NEW j \in First, rank[i] = rank[j] PROVE i = j
    BY <1>1, <1>2, <1>3, <2>2
  <2> QED BY <2>1, <2>2 DEF Injection, IsInjective
<1>5. /\ IsFiniteSet(0 .. n - 1)
      /\ Cardinality(0 .. n - 1) = IF n > 0 THEN n ELSE 0
  <2>1. /\ IsFiniteSet(0 .. n - 1)
        /\ Cardinality(0 .. n - 1) = IF 0 > n - 1 THEN 0 ELSE n - 1 - 0 + 1
    <3>1. 0 \in Int /\ n - 1 \in Int
      OBVIOUS
    <3> DEFINE b == n - 1
    <3> HIDE DEF b
    <3>2. /\ IsFiniteSet(0 .. b)
          /\ Cardinality(0 .. b) = IF 0 > b THEN 0 ELSE b - 0 + 1
      BY <3>1, FS_Interval DEF b
    <3> QED BY <3>2 DEF b
  <2> QED BY <2>1
<1> HIDE DEF rank, First
<1>6. IsFiniteSet(First) /\ Cardinality(First) <= Cardinality(0 .. n - 1)
  BY <1>4, <1>5, FS_Injection
<1> QED BY <1>5, <1>6 DEF First

\* What makes FlightIsBounded inductive: the sets it counts are finite.
FlightFits(e) == IsFiniteSet(e.inFlight) /\ Cardinality(e.inFlight) <= MaxInFlight

\* A dispatch takes no more chunks than there are free slots.
LEMMA WantedFits ==
    ASSUME NEW d \in [Files -> Entries], NEW f \in Files, FlightFits(d[f])
    PROVE  /\ IsFiniteSet(d[f].inFlight \cup Wanted(d, f))
           /\ Cardinality(d[f].inFlight \cup Wanted(d, f)) <= MaxInFlight
<1> DEFINE C == Candidates(d, f)
           n == Slots(d[f])
           weight == [i \in C |-> Cardinality(Sources(f, i)')]
           Before(j, i) == weight[j] < weight[i] \/ (weight[j] = weight[i] /\ j < i)
           First == {i \in C : Cardinality({j \in C : Before(j, i)}) < n}
<1>1. C \in SUBSET Int /\ IsFiniteSet(C)
  <2>1. C \subseteq 0 .. ChunkCount[f] - 1
    BY DEF Candidates, Missing, Chunks
  <2>2. IsFiniteSet(0 .. ChunkCount[f] - 1)
    <3> DEFINE b == ChunkCount[f] - 1
    <3>1. b \in Int
      BY ConstantsAssumption
    <3> HIDE DEF b
    <3>2. IsFiniteSet(0 .. b)
      BY <3>1, FS_Interval
    <3> QED BY <3>2 DEF b
  <2> HIDE DEF C
  <2>3. IsFiniteSet(C)
    BY <2>1, <2>2, FS_Subset
  <2> QED BY <2>1, <2>3
<1>2. \A i : Cardinality(Sources(f, i)') \in Nat
  <2>1. \A i : Sources(f, i)' \in SUBSET Peers
    BY DEF Sources
  <2> QED BY <2>1, ConstantsAssumption, FS_Subset, FS_CardinalityType
<1>3. weight \in [C -> Nat]
  BY <1>2
<1>4. n \in Int /\ n >= 0 /\ n = MaxInFlight - Cardinality(d[f].inFlight)
  BY FS_CardinalityType, ConstantsAssumption DEF FlightFits, Slots
<1>5. Wanted(d, f) \subseteq First
  BY DEF Wanted, Rarer
<1> HIDE DEF C, n, weight
<1>6. IsFiniteSet(First) /\ Cardinality(First) <= IF n > 0 THEN n ELSE 0
  BY <1>1, <1>3, <1>4, FirstFew
<1> HIDE DEF First
<1>7. /\ IsFiniteSet(Wanted(d, f)) /\ Cardinality(Wanted(d, f)) <= Cardinality(First)
      /\ Cardinality(Wanted(d, f)) \in Nat /\ Cardinality(First) \in Nat
  BY <1>5, <1>6, FS_Subset, FS_CardinalityType
<1> DEFINE A == d[f].inFlight
           B == Wanted(d, f)
<1>8. /\ IsFiniteSet(A \cup B)
      /\ Cardinality(A \cup B) = Cardinality(A) + Cardinality(B) - Cardinality(A \cap B)
      /\ Cardinality(A \cap B) \in Nat /\ Cardinality(A) \in Nat
  <2>1. IsFiniteSet(A) /\ IsFiniteSet(B)
    BY <1>7 DEF FlightFits
  <2> HIDE DEF A, B
  <2>2. IsFiniteSet(A \cap B)
    BY <2>1, FS_Subset
  <2> QED BY <2>1, <2>2, FS_Union, FS_CardinalityType
<1> QED BY <1>4, <1>6, <1>7, <1>8, ConstantsAssumption

\* A command of the user puts nothing in flight but by a dispatch.
LEMMA StartDispatches ==
    ASSUME TypeOK, NEW f \in Files, StartDownload(f)
    PROVE  \E d \in [Files -> Entries] :
              /\ Dispatch(d, net)
              /\ \A g \in Files : d[g].inFlight \subseteq dl[g].inFlight
<1> DEFINE e == [EntryOf(f) EXCEPT !.status = "Active"]
           d == [dl EXCEPT ![f] = e]
<1>1. d \in [Files -> Entries] /\ Dispatch(d, net)
  BY EntryOfType DEF StartDownload
<1>2. dl[f] \in Entries /\ dl \in [Files -> Entries]
  BY DEF TypeOK
<1>3. e.inFlight \subseteq dl[f].inFlight
  <2>1. CASE dl[f].status # "Absent"
    BY <1>2, <2>1 DEF EntryOf, Entries
  <2>2. CASE dl[f].status = "Absent"
    BY <2>2 DEF EntryOf, Absent
  <2> QED BY <2>1, <2>2
<1> HIDE DEF e
<1>4. \A g \in Files : d[g].inFlight \subseteq dl[g].inFlight
  BY <1>2, <1>3
<1> QED BY <1>1, <1>4

LEMMA CommandKeepsFlight ==
    ASSUME TypeOK,
           \/ \E k \in Numbers : \/ Pause(k) \/ Resume(k) \/ Cancel(k)
                                 \/ MoveTop(k) \/ MoveUp(k) \/ MoveDown(k)
           \/ LeaveRoom
           \/ \E r \in Rooms : JoinRoom(r)
    PROVE  \A f \in Files : dl'[f].inFlight \subseteq dl[f].inFlight
<1>1. dl \in [Files -> Entries]
  BY DEF TypeOK
<1>2. ASSUME NEW k \in Numbers, Pause(k) \/ Resume(k) \/ Cancel(k)
      PROVE  \A g \in Files : dl'[g].inFlight \subseteq dl[g].inFlight
  <2> DEFINE f == queue[Position(k)]
             e1 == [dl[f] EXCEPT !.status = "ManualPaused", !.inFlight = {}]
             e2 == [dl[f] EXCEPT !.status = "Active"]
  <2>1. f \in Files
    <3>1. Position(k) \in DOMAIN queue
      BY <1>2 DEF Pause, Resume, Cancel, Change
    <3>2. queue \in Seq(Files)
      BY DEF TypeOK
    <3> QED BY <3>1, <3>2
  <2>2. \E e \in {e1, e2, Absent} : dl' = [dl EXCEPT ![f] = e]
    <3>1. CASE Pause(k)
      BY <2>1, <3>1 DEF Pause, Change, TypeOK
    <3>2. CASE Resume(k)
      BY <2>1, <3>2 DEF Resume, Change, TypeOK
    <3>3. CASE Cancel(k)
      BY <2>1, <3>3 DEF Cancel, TypeOK
    <3> QED BY <1>2, <3>1, <3>2, <3>3
  <2>3. \A e \in {e1, e2, Absent} : e.inFlight \subseteq dl[f].inFlight
    <3>1. dl[f] \in Entries
      BY <2>1 DEF TypeOK
    <3>2. e1.inFlight = {} /\ e2.inFlight = dl[f].inFlight
      BY <3>1 DEF Entries
    <3>3. Absent.inFlight = {}
      BY DEF Absent
    <3> QED BY <3>2, <3>3
  <2> HIDE DEF f, e1, e2
  <2> QED BY <1>1, <2>1, <2>2, <2>3
<1>3. ASSUME NEW k \in Numbers, MoveTop(k) \/ MoveUp(k) \/ MoveDown(k) PROVE dl' = dl
  BY <1>3 DEF MoveTop, MoveUp, MoveDown, Swap
<1>4. \A e \in Entries : AutoPaused(e).inFlight \subseteq e.inFlight
  BY DEF AutoPaused, Entries
<1>5. CASE LeaveRoom
  BY <1>1, <1>4, <1>5 DEF LeaveRoom
<1>6. ASSUME NEW r \in Rooms, JoinRoom(r)
      PROVE  \A f \in Files : dl'[f].inFlight \subseteq dl[f].inFlight
  <2> DEFINE d == IF room = NoRoom THEN dl ELSE [f \in Files |-> AutoPaused(dl[f])]
  <2>1. d \in [Files -> Entries]
    BY <1>1, AutoPausedType
  <2>2. \A f \in Files : d[f].inFlight \subseteq dl[f].inFlight
    BY <1>1, <1>4
  <2>3. dl' = [f \in Files |-> IF Resumes(d, f) THEN [d[f] EXCEPT !.status = "Active"]
                               ELSE d[f]]
    BY <1>6 DEF JoinRoom
  <2> HIDE DEF d
  <2> QED BY <2>1, <2>2, <2>3 DEF Entries
<1> QED BY <1>2, <1>3, <1>5, <1>6

\* The handlers of a chunk that opens dispatch with one entry changed: its chunk is
\* no longer in flight.
LEMMA ArrivalDispatches ==
    ASSUME TypeOK, NEW m \in ChunkResponses, NEW f \in Files,
           ChunkCorrupt(m, f) \/ ChunkStored(m, f) \/ BitsUnflushed(m, f)
    PROVE  \E d \in [Files -> Entries] :
              /\ Dispatch(d, Receive(m))
              /\ \A g \in Files : d[g].inFlight \subseteq dl[g].inFlight
              /\ m.chunk \notin d[f].inFlight
<1>0. dl \in [Files -> Entries]
  BY DEF TypeOK
<1> DEFINE bits == SetBit(dl[f].bits, m.chunk, ChunkCount[f])
           e0 == [dl[f] EXCEPT !.inFlight = @ \ {m.chunk}]
           e(s) == [status |-> s, bits |-> bits,
                    inFlight |-> dl[f].inFlight \ {m.chunk}]
           Changed == {e0, e(dl[f].status), e("Completed")}
<1>1. \E x \in Changed : Dispatch([dl EXCEPT ![f] = x], Receive(m))
  <2>1. CASE ChunkCorrupt(m, f)
    BY <2>1 DEF ChunkCorrupt
  <2>2. CASE ChunkStored(m, f)
    BY <2>2 DEF ChunkStored
  <2>3. CASE BitsUnflushed(m, f)
    BY <2>3 DEF BitsUnflushed
  <2> QED BY <2>1, <2>2, <2>3
<1>2. \A x \in Changed : x \in Entries /\ x.inFlight = dl[f].inFlight \ {m.chunk}
  <2>1. dl[f] \in Entries /\ m.chunk \in Int
    BY <1>0 DEF ChunkResponses, ChunkResponse, Index, ChunkOf, Chunks
  <2>2. bits \in SUBSET Int
    BY <2>1 DEF SetBit, Entries
  <2> HIDE DEF bits
  <2>3. e0 \in Entries /\ e0.inFlight = dl[f].inFlight \ {m.chunk}
    BY <2>1 DEF Entries
  <2>4. \A s \in Statuses :
           e(s) \in Entries /\ e(s).inFlight = dl[f].inFlight \ {m.chunk}
    BY <2>1, <2>2 DEF Entries
  <2>5. dl[f].status \in Statuses /\ "Completed" \in Statuses
    BY <2>1 DEF Entries, Statuses
  <2> HIDE DEF e0, e
  <2> QED BY <2>3, <2>4, <2>5
<1> HIDE DEF Changed
<1>3. PICK x \in Changed : Dispatch([dl EXCEPT ![f] = x], Receive(m))
  BY <1>1
<1> DEFINE d == [dl EXCEPT ![f] = x]
<1>4. /\ d \in [Files -> Entries] /\ Dispatch(d, Receive(m))
      /\ \A g \in Files : d[g].inFlight \subseteq dl[g].inFlight
      /\ m.chunk \notin d[f].inFlight
  BY <1>0, <1>2, <1>3
<1> QED BY <1>4

LEMMA FlightStep ==
    ASSUME TypeOK, \A f \in Files : FlightFits(dl[f]), [Next]_vars
    PROVE  \A f \in Files : FlightFits(dl'[f])
<1>1. ASSUME NEW d \in [Files -> Entries], NEW sent, Dispatch(d, sent),
             \A f \in Files : FlightFits(d[f])
      PROVE  \A f \in Files : FlightFits(dl'[f])
  BY <1>1, DispatchEntry, WantedFits DEF FlightFits
<1>2. ASSUME NEW S, NEW T \in SUBSET S, IsFiniteSet(S), Cardinality(S) <= MaxInFlight
      PROVE  IsFiniteSet(T) /\ Cardinality(T) <= MaxInFlight
  BY <1>2, FS_Subset, FS_CardinalityType, ConstantsAssumption
<1>3. ASSUME NEW d \in [Files -> Entries],
             \A f \in Files : d[f].inFlight \subseteq dl[f].inFlight
      PROVE  \A f \in Files : FlightFits(d[f])
  BY <1>2, <1>3 DEF FlightFits
<1>4. dl \in [Files -> Entries] /\ dl' \in [Files -> Entries]
  BY NextType DEF TypeOK
<1>5. CASE UserCommand
  <2>1. ASSUME NEW f \in Files, StartDownload(f)
        PROVE  \A g \in Files : FlightFits(dl'[g])
    BY <1>1, <1>3, <2>1, StartDispatches
  <2> QED BY <1>3, <1>4, <1>5, <2>1, CommandKeepsFlight DEF UserCommand
<1>6. ASSUME NEW m, ResponseIgnored(m) PROVE dl' = dl
  BY <1>6 DEF ResponseIgnored, client
<1>7. ASSUME NEW m, \/ OnBitfieldResponse(m)
                    \/ \E f \in Files : ChunkRejected(m, f) \/ ChunkUnwritable(m, f)
      PROVE  Dispatch(dl, Receive(m))
  BY <1>7 DEF OnBitfieldResponse, ChunkRejected, ChunkUnwritable
<1>8. ASSUME NEW m \in ChunkResponses, NEW f \in Files,
             ChunkCorrupt(m, f) \/ ChunkStored(m, f) \/ BitsUnflushed(m, f)
      PROVE  \A g \in Files : FlightFits(dl'[g])
  <2>1. PICK d \in [Files -> Entries] :
           /\ Dispatch(d, Receive(m))
           /\ \A g \in Files : d[g].inFlight \subseteq dl[g].inFlight
    BY <1>8, ArrivalDispatches
  <2> QED BY <1>1, <1>3, <2>1
<1>9. CASE ChunkArrives \/ BitfieldArrives
  BY <1>1, <1>4, <1>6, <1>7, <1>8, <1>9, InNetType DEF ChunkArrives, BitfieldArrives
<1>10. CASE ChunkAnswered \/ BitfieldAnswered \/ Environment \/ UNCHANGED vars
  <2>1. dl' = dl
    BY <1>10
    DEF ChunkAnswered, BitfieldAnswered, PeerServesChunk, PeerListsSeeds,
        RequestUnanswered, Environment, FileAnnounced, ProvidersFound, PeerMoves,
        PeerStopsSeeding, PeerStep, client, vars
  <2> QED BY <2>1
<1>11. CASE Crashes
  <2>1. Restarted
    BY <1>11 DEF Crashes, Crash, CrashInStore
  <2>2. \A f \in Files : dl'[f].inFlight \subseteq dl[f].inFlight
    BY <2>1 DEF Restarted, Absent
  <2> QED BY <1>3, <1>4, <2>2
<1> QED BY <1>5, <1>9, <1>10, <1>11 DEF Next

\* No handler, and no sequence of them, puts more requests of a file under way than
\* its slots: what a dispatch adds is counted against what is still in flight.
THEOREM FlightIsRight == Spec => []FlightIsBounded
<1>1. Init => \A f \in Files : FlightFits(dl[f])
  <2>1. FlightFits(Absent)
    BY FS_EmptySet, ConstantsAssumption DEF FlightFits, Absent
  <2> QED BY <2>1 DEF Init
<1>2. TypeOK /\ (\A f \in Files : FlightFits(dl[f])) /\ [Next]_vars
      => (\A f \in Files : FlightFits(dl[f]))'
  BY FlightStep DEF FlightFits
<1>3. (\A f \in Files : FlightFits(dl[f])) => FlightIsBounded
  BY DEF FlightFits, FlightIsBounded
<1> QED BY <1>1, <1>2, <1>3, TypeCorrect, PTL DEF Spec
-----------------------------------------------------------------------------
(* What is asked, and of whom *)

\* How often m is in the bag B.
Count(B, m) == IF m \in DOMAIN B THEN B[m] ELSE 0

LEMMA CountOfSum ==
    ASSUME NEW B, IsABag(B), NEW S
    PROVE  LET Sum == B (+) SetToBag(S)
           IN  /\ IsABag(Sum)
               /\ \A m : Count(Sum, m) = Count(B, m) + (IF m \in S THEN 1 ELSE 0)
BY DEF IsABag, SetToBag, (+), Count

LEMMA CountOfRest ==
    ASSUME NEW B, IsABag(B), NEW r
    PROVE  LET Rest == B (-) SetToBag({r})
           IN  IsABag(Rest) /\ \A m : Count(Rest, m) <= Count(B, m)
BY DEF IsABag, SetToBag, (-), Count

\* A dispatch sends requests for the chunks it takes, each to one of their sources.
LEMMA DispatchAsks ==
    ASSUME NEW d \in [Files -> Entries], NEW sent, Dispatch(d, sent), IsABag(sent)
    PROVE  /\ IsABag(net')
           /\ \A m \in ChunkRequests :
                 Count(net', m) > Count(sent, m)
                 => /\ m.peer \notin blocked'
                    /\ <<m.file, m.chunk>> \notin failures'[m.peer].chunks
                    /\ m.chunk \in peerBits'[m.file][m.peer]
                    /\ m.chunk \in dl'[m.file].inFlight
<1> DEFINE W == {w \in Files \X Index : w[2] \in Wanted(d, w[1])}
<1>1. PICK ask \in [W -> Peers] :
         /\ \A w \in W : ask[w] \in Sources(w[1], w[2])'
         /\ net' = sent (+) SetToBag({ChunkRequest(ask[w], w[1], w[2]) : w \in W})
  BY DEF Dispatch
<1> DEFINE Asked == {ChunkRequest(ask[w], w[1], w[2]) : w \in W}
<1>2. /\ IsABag(net')
      /\ \A m : Count(net', m) = Count(sent, m) + (IF m \in Asked THEN 1 ELSE 0)
  <2> HIDE DEF Asked
  <2> QED BY <1>1, CountOfSum DEF Asked
<1>3. ASSUME NEW m \in ChunkRequests, Count(net', m) > Count(sent, m) PROVE m \in Asked
  <2>1. Count(sent, m) \in Nat
    BY DEF IsABag, Count
  <2> HIDE DEF Asked
  <2> QED BY <1>2, <1>3, <2>1
<1>4. ASSUME NEW m \in Asked
      PROVE  /\ m.peer \notin blocked'
             /\ <<m.file, m.chunk>> \notin failures'[m.peer].chunks
             /\ m.chunk \in peerBits'[m.file][m.peer]
             /\ m.chunk \in dl'[m.file].inFlight
  <2>1. PICK w \in W : m = ChunkRequest(ask[w], w[1], w[2])
    OBVIOUS
  <2>2. m.peer = ask[w] /\ m.file = w[1] /\ m.chunk = w[2]
    BY <2>1 DEF ChunkRequest
  <2>3. m.peer \in Sources(m.file, m.chunk)'
    BY <1>1, <2>2
  <2>4. m.file \in Files /\ m.chunk \in Wanted(d, m.file)
    BY <2>2
  <2>5. m.chunk \in dl'[m.file].inFlight
    BY <2>4, DispatchEntry
  <2> QED BY <2>3, <2>5 DEF Sources, Blacklisted, GetBit
<1> QED BY <1>2, <1>3, <1>4

\* What makes RequestsAvoidTheBlamed hold of every step: the messages under way are
\* a bag, and no file counts as announced to a client outside any room.
AskingInv == IsABag(net) /\ (room = NoRoom => available = {})

\* The promise of RequestsAvoidTheBlamed about one step.
AsksWell ==
    \A m \in ChunkRequests :
        Count(net', m) > Count(net, m)
        => /\ room' # NoRoom
           /\ m.peer \notin blocked'
           /\ <<m.file, m.chunk>> \notin failures'[m.peer].chunks
           /\ m.chunk \in peerBits'[m.file][m.peer]
           /\ m.chunk \in dl'[m.file].inFlight

\* A handler that dispatches, after it took a message or none, asks well in a room.
LEMMA DispatchAsksWell ==
    ASSUME NEW d \in [Files -> Entries], NEW sent, Dispatch(d, sent), IsABag(net),
           IsABag(sent), \A m : Count(sent, m) <= Count(net, m), room' # NoRoom
    PROVE  IsABag(net') /\ AsksWell
<1>1. \A m : /\ Count(sent, m) \in Nat /\ Count(net, m) \in Nat
             /\ IsABag(net') => Count(net', m) \in Nat
  BY DEF IsABag, Count
<1>2. IsABag(net')
  BY DispatchAsks
<1>3. ASSUME NEW m \in ChunkRequests, Count(net', m) > Count(net, m)
      PROVE  Count(net', m) > Count(sent, m)
  BY <1>1, <1>2, <1>3
<1> QED BY <1>2, <1>3, DispatchAsks DEF AsksWell

\* A step that takes a message, or none, and sends none but what is not a request.
LEMMA OthersAskNothing ==
    ASSUME IsABag(net), NEW sent, IsABag(sent),
           \A m : Count(sent, m) <= Count(net, m),
           NEW S, \A m \in S : m \notin ChunkRequests,
           net' = sent (+) SetToBag(S)
    PROVE  IsABag(net') /\ AsksWell
<1>1. /\ IsABag(net')
      /\ \A m : Count(net', m) = Count(sent, m) + (IF m \in S THEN 1 ELSE 0)
  BY CountOfSum
<1>2. \A m : Count(sent, m) \in Nat /\ Count(net, m) \in Nat
  BY DEF IsABag, Count
<1>3. ASSUME NEW m \in ChunkRequests PROVE ~(Count(net', m) > Count(net, m))
  BY <1>1, <1>2
<1> QED BY <1>1, <1>3 DEF AsksWell

LEMMA NothingAsked ==
    ASSUME IsABag(net), IsABag(net'), \A m : Count(net', m) <= Count(net, m)
    PROVE  AsksWell
<1>1. \A m : Count(net', m) \in Nat /\ Count(net, m) \in Nat
  BY DEF IsABag, Count
<1> QED BY <1>1 DEF AsksWell

LEMMA ReceiveCounts ==
    ASSUME IsABag(net), NEW r
    PROVE  IsABag(Receive(r)) /\ \A m : Count(Receive(r), m) <= Count(net, m)
BY CountOfRest DEF Receive

LEMMA CommandAsksWell ==
    ASSUME TypeOK, AskingInv, UserCommand
    PROVE  AskingInv' /\ AsksWell
<1>0. dl \in [Files -> Entries] /\ IsABag(net) /\ \A m : Count(net, m) \in Nat
  BY DEF TypeOK, AskingInv, IsABag, Count
<1>1. ASSUME net' = net PROVE IsABag(net') /\ AsksWell
  BY <1>0, <1>1, NothingAsked
<1>2. ASSUME NEW f \in Files, StartDownload(f) PROVE AskingInv' /\ AsksWell
  <2>1. f \in available /\ UNCHANGED <<room, available>>
    BY <1>2 DEF StartDownload
  <2>2. room # NoRoom
    BY <2>1 DEF AskingInv
  <2>3. IsABag(net') /\ AsksWell
    BY <1>0, <1>2, <2>1, <2>2, StartDispatches, DispatchAsksWell
  <2> QED BY <2>1, <2>3 DEF AskingInv
<1>3. ASSUME NEW k \in Numbers,
             \/ Pause(k) \/ Resume(k) \/ Cancel(k)
             \/ MoveTop(k) \/ MoveUp(k) \/ MoveDown(k)
      PROVE  UNCHANGED <<room, available, net>>
  BY <1>3
  DEF Pause, Resume, Change, Cancel, MoveTop, MoveUp, MoveDown, Swap, UserStep
<1>4. CASE LeaveRoom \/ \E r \in Rooms : JoinRoom(r)
  <2>1. net' = net /\ (room' = NoRoom => available' = {})
    <3>1. CASE LeaveRoom
      BY <3>1 DEF LeaveRoom, ForgetRoom
    <3>2. ASSUME NEW r \in Rooms, JoinRoom(r)
          PROVE  net' = net /\ room' # NoRoom
      BY <3>2, ConstantsAssumption DEF JoinRoom
    <3> QED BY <1>4, <3>1, <3>2
  <2> QED BY <1>1, <2>1 DEF AskingInv
<1> QED BY <1>1, <1>2, <1>3, <1>4 DEF UserCommand, AskingInv

LEMMA ResponseAsksWell ==
    ASSUME TypeOK, AskingInv, ChunkArrives \/ BitfieldArrives
    PROVE  AskingInv' /\ AsksWell
<1>0. dl \in [Files -> Entries] /\ IsABag(net)
  BY DEF TypeOK, AskingInv
<1>1. ASSUME NEW m, ResponseIgnored(m) PROVE AskingInv' /\ AsksWell
  <2>1. net' = Receive(m) /\ UNCHANGED <<room, available>>
    BY <1>1 DEF ResponseIgnored, client
  <2>2. IsABag(net') /\ \A r : Count(net', r) <= Count(net, r)
    BY <1>0, <2>1, ReceiveCounts
  <2> QED BY <1>0, <2>1, <2>2, NothingAsked DEF AskingInv
<1>2. ASSUME NEW m, NEW d \in [Files -> Entries], Dispatch(d, Receive(m)),
             room # NoRoom, room' = room
      PROVE  AskingInv' /\ AsksWell
  <2>1. IsABag(net') /\ AsksWell
    BY <1>0, <1>2, ReceiveCounts, DispatchAsksWell
  <2> QED BY <1>2, <2>1 DEF AskingInv
<1>3. ASSUME NEW m, \/ OnBitfieldResponse(m)
                    \/ \E f \in Files : ChunkRejected(m, f) \/ ChunkUnwritable(m, f)
      PROVE  AskingInv' /\ AsksWell
  <2>1. Dispatch(dl, Receive(m)) /\ room # NoRoom /\ room' = room
    BY <1>3 DEF OnBitfieldResponse, ChunkRejected, ChunkUnwritable, Opens
  <2> QED BY <1>0, <1>2, <2>1
<1>4. ASSUME NEW m \in ChunkResponses, NEW f \in Files,
             ChunkCorrupt(m, f) \/ ChunkStored(m, f) \/ BitsUnflushed(m, f)
      PROVE  AskingInv' /\ AsksWell
  <2>1. room # NoRoom /\ room' = room
    BY <1>4 DEF ChunkCorrupt, ChunkStored, BitsUnflushed, Opens
  <2>2. PICK d \in [Files -> Entries] : Dispatch(d, Receive(m))
    BY <1>4, ArrivalDispatches
  <2> QED BY <1>2, <2>1, <2>2
<1> QED BY <1>1, <1>3, <1>4, InNetType DEF ChunkArrives, BitfieldArrives

\* A chunk is asked for only in a room, of a peer that has not failed it and is not
\* blocked, on the word that peer gave during this stay: what a handler changes
\* before it dispatches is what the dispatch goes by.
THEOREM RequestsAreRight == Spec => RequestsAvoidTheBlamed
<1>1. Init => AskingInv
  BY DEF Init, AskingInv, IsABag, EmptyBag, SetToBag
<1>2. TypeOK /\ AskingInv /\ [Next]_vars
      => /\ AskingInv'
         /\ [\A m \in ChunkRequests :
                Copies(m)' > Copies(m)
                => /\ room' # NoRoom
                   /\ m.peer \notin blocked'
                   /\ <<m.file, m.chunk>> \notin failures'[m.peer].chunks
                   /\ m.chunk \in peerBits'[m.file][m.peer]
                   /\ m.chunk \in dl'[m.file].inFlight]_vars
  <2> SUFFICES ASSUME TypeOK, AskingInv, [Next]_vars
               PROVE  AskingInv' /\ AsksWell
    BY DEF AsksWell, Count, Copies, BagIn, BagToSet
  <2>1. IsABag(net) /\ \A m : Count(net, m) \in Nat
    BY DEF AskingInv, IsABag, Count
  <2>2. ASSUME UNCHANGED <<room, available, net>> PROVE AskingInv' /\ AsksWell
    BY <2>1, <2>2, NothingAsked DEF AskingInv
  <2>3. CASE ChunkAnswered \/ BitfieldAnswered
    <3>1. UNCHANGED <<room, available>>
      BY <2>3
      DEF ChunkAnswered, BitfieldAnswered, PeerServesChunk, PeerListsSeeds,
          RequestUnanswered, PeerStep, client
    <3>2. PICK m : PeerServesChunk(m) \/ PeerListsSeeds(m) \/ RequestUnanswered(m)
      BY <2>3 DEF ChunkAnswered, BitfieldAnswered
    <3>3. IsABag(Receive(m)) /\ \A r : Count(Receive(m), r) <= Count(net, r)
      BY <2>1, ReceiveCounts
    <3>4. CASE RequestUnanswered(m)
      <4>1. net' = Receive(m)
        BY <3>4 DEF RequestUnanswered
      <4> QED BY <2>1, <3>1, <3>3, <4>1, NothingAsked DEF AskingInv
    <3>5. CASE PeerServesChunk(m) \/ PeerListsSeeds(m)
      <4>1. PICK x : /\ x.type # "ChunkRequest"
                     /\ net' = Receive(m) (+) SetToBag({x})
        BY <3>5 DEF PeerServesChunk, PeerListsSeeds, ChunkResponse, BitfieldResponse
      <4>2. \A y \in {x} : y \notin ChunkRequests
        BY <4>1 DEF ChunkRequests, ChunkRequest
      <4>3. IsABag(net') /\ AsksWell
        BY <2>1, <3>3, <4>1, <4>2, OthersAskNothing
      <4> QED BY <3>1, <4>3 DEF AskingInv
    <3> QED BY <3>2, <3>4, <3>5
  <2>4. CASE Environment
    <3>1. ASSUME NEW p, NEW r, \/ PeerMoves(p, r) \/ PeerStopsSeeding(p, r)
          PROVE  AskingInv' /\ AsksWell
      BY <2>2, <3>1 DEF PeerMoves, PeerStopsSeeding, PeerStep, client
    <3>2. ASSUME NEW ps,
                 \/ \E p \in Peers, f \in Files : ps = {p} /\ FileAnnounced(p, f)
                 \/ ProvidersFound(ps)
          PROVE  AskingInv' /\ AsksWell
      <4> DEFINE S == {BitfieldRequest(p, room) : p \in ps}
      <4>1. net' = net (+) SetToBag(S) /\ room # NoRoom /\ room' = room
        BY <3>2 DEF FileAnnounced, ProvidersFound, client
      <4>2. \A m \in S : m \notin ChunkRequests
        BY DEF BitfieldRequest, ChunkRequests, ChunkRequest
      <4> HIDE DEF S
      <4>3. \A m : Count(net, m) <= Count(net, m)
        BY <2>1
      <4>4. IsABag(net') /\ AsksWell
        BY <2>1, <4>1, <4>2, <4>3, OthersAskNothing
      <4> QED BY <4>1, <4>4 DEF AskingInv
    <3> QED BY <2>4, <3>1, <3>2 DEF Environment
  <2>5. CASE Crashes
    <3>1. available' = {} /\ net' = EmptyBag
      BY <2>5 DEF Crashes, Crash, CrashInStore, Restarted
    <3>2. IsABag(net') /\ \A m : Count(net', m) = 0
      BY <3>1 DEF IsABag, EmptyBag, SetToBag, Count
    <3>3. AsksWell
      BY <2>1, <3>2 DEF AsksWell
    <3> QED BY <3>1, <3>2, <3>3 DEF AskingInv
  <2>6. CASE UNCHANGED vars
    BY <2>2, <2>6 DEF vars, client
  <2> QED BY <2>3, <2>4, <2>5, <2>6, CommandAsksWell, ResponseAsksWell DEF Next
<1> QED BY <1>1, <1>2, TypeCorrect, PTL DEF Spec, RequestsAvoidTheBlamed
=============================================================================
