------------------------------ MODULE Download ------------------------------
(***************************************************************************)
(* The download side of one running client: the queue of downloads         *)
(* (transfer/download.rs), the choice of the next chunks to ask for        *)
(* (transfer/bitfield.rs, transfer/transfer_loop.rs), the handlers of      *)
(* AppCore that drive them (app/core.rs), and what they leave on disk.     *)
(*                                                                         *)
(* AppCore handles one command or network event at a time, so a handler is *)
(* one action.  Peers run the same program; of them the model keeps the    *)
(* room each is in and the files each seeds.  Requests and responses       *)
(* travel through net, a bag, in any order.                                *)
(***************************************************************************)
EXTENDS Bitfield, Sequences, Bags

CONSTANTS
    Peers,          \* the other members of the rooms
    Files,          \* files shared in the rooms, named by their hash
    Names,          \* file names; a download is written to <download dir>/<name>
    Rooms,
    NoRoom,         \* not in a room
    ChunkCount,     \* [Files -> Nat]
    NameOf,         \* [Files -> Names]
    Owns,           \* [Peers -> SUBSET Files], what each peer seeds at first
    Fickle,         \* peers that move between rooms and stop seeding
    Lossy,          \* peers whose connection may fail
    Stale,          \* peers whose file has changed since it was shared
    MaxConcurrent,  \* max_concurrent_dl of the configuration
    MaxInFlight,    \* MAX_IN_FLIGHT_PER_FILE
    MaxFailures,    \* MAX_CHUNK_FAILURES
    DiskFaults,     \* whether a write to the disk may fail
    MaxNet          \* bound: the user acts only while net holds fewer messages

ASSUME ConstantsAssumption ==
    /\ ChunkCount \in [Files -> Nat]
    /\ NameOf \in [Files -> Names]
    /\ Owns \in [Peers -> SUBSET Files]
    /\ NoRoom \notin Rooms
    /\ Fickle \subseteq Peers /\ Lossy \subseteq Peers /\ Stale \subseteq Peers
    /\ MaxConcurrent \in Nat
    /\ MaxInFlight \in Nat \ {0}
    /\ MaxFailures \in Nat \ {0}
    /\ DiskFaults \in BOOLEAN
    /\ MaxNet \in Nat
    /\ IsFiniteSet(Peers) /\ IsFiniteSet(Files)

VARIABLES
    room,       \* active_room: the room the client is in
    available,  \* available_files: files announced during this stay
    peerBits,   \* PeerBitfields: [Files -> [Peers -> bitmap]]
    queue,      \* the order of DownloadManager.entries, as file hashes
    dl,         \* DownloadManager.entries, by file hash
    failures,   \* BlacklistSet.chunk_failures, by peer: their number and chunks
    blocked,    \* BlacklistSet.blocked_peers
    net,        \* requests and responses under way
    disk,       \* the downloaded files: [Names -> [chunk index -> content]]
    bf,         \* the .bf files: [Names -> stored bitmap]
    peerRoom,   \* the room of each peer
    seeds       \* the files each peer seeds

client  == <<room, available, peerBits, queue, dl, failures, blocked>>
storage == <<disk, bf>>
others  == <<peerRoom, seeds>>
vars    == <<client, net, storage, others>>
-----------------------------------------------------------------------------
(* Values *)

ChunkOf(f) == Chunks(ChunkCount[f])
Index == UNION {ChunkOf(f) : f \in Files}

\* Contents of one chunk of a file on disk: nothing yet, a write cut short by a
\* crash, or the chunk of a file.  A chunk that fails its hash is Corrupt.
Empty   == "empty"
Torn    == "torn"
Corrupt == "corrupt"

ASSUME ContentsAssumption == Files \cap {Empty, Torn, Corrupt} = {}

Statuses == {"Absent", "Active", "AutoPaused", "ManualPaused", "Waiting",
             "Completed"}
Entries == [status : Statuses, bits : SUBSET Int, inFlight : SUBSET Index]
Absent == [status |-> "Absent", bits |-> NewBits, inFlight |-> {}]

ChunkRequest(p, f, i) ==
    [type |-> "ChunkRequest", peer |-> p, file |-> f, chunk |-> i]
\* A response carries the index of the chunk but not the hash of its file.
ChunkResponse(p, i, content, key) ==
    [type |-> "ChunkResponse", peer |-> p, chunk |-> i, content |-> content,
     key |-> key]
BitfieldRequest(p, r) == [type |-> "BitfieldRequest", peer |-> p, room |-> r]
\* Seeds are always whole (share_file sets every bit), so a file stands for its
\* full bitmap.
BitfieldResponse(p, fs) ==
    [type |-> "BitfieldResponse", peer |-> p, files |-> fs]

ChunkRequests  == {ChunkRequest(p, f, i) : p \in Peers, f \in Files, i \in Index}
ChunkResponses == {ChunkResponse(p, i, c, r) :
                      p \in Peers, i \in Index, c \in Files \cup {Corrupt},
                      r \in Rooms}
BitfieldRequests  == {BitfieldRequest(p, r) : p \in Peers, r \in Rooms}
BitfieldResponses == {BitfieldResponse(p, fs) :
                         p \in Peers, fs \in SUBSET Files}
Messages == ChunkRequests \cup ChunkResponses \cup BitfieldRequests
                \cup BitfieldResponses

NoPeerBits == [f \in Files |-> [p \in Peers |-> NewBits]]
NoFailures == [p \in Peers |-> [total |-> 0, chunks |-> {}]]

Init ==
    /\ room = NoRoom
    /\ available = {}
    /\ peerBits = NoPeerBits
    /\ queue = <<>>
    /\ dl = [f \in Files |-> Absent]
    /\ failures = NoFailures
    /\ blocked = {}
    /\ net = EmptyBag
    /\ disk = [n \in Names |-> [i \in Index |-> Empty]]
    /\ bf = [n \in Names |-> NoFile]
    /\ peerRoom \in [Peers -> Rooms]
    /\ seeds = Owns
-----------------------------------------------------------------------------
(* Choosing and sending chunk requests *)

BlockedOnly(p, f, i) == p \in blocked      \* mutant: one failure has no effect
Blacklisted(p, f, i) == p \in blocked \/ <<f, i>> \in failures[p].chunks

\* The peers a missing chunk may be requested from.
Sources(f, i) ==
    {p \in Peers : GetBit(peerBits[f][p], i, ChunkCount[f]) /\ ~Blacklisted(p, f, i)}

\* rarest_first without the chunks already under way.  Like the definitions
\* below it looks at the state the handler has reached, hence the primes.
Candidates(d, f) ==
    {i \in Missing(d[f].bits, ChunkCount[f]) \ d[f].inFlight : Sources(f, i)' # {}}

Rarer(f, i, j) ==
    LET ni == Cardinality(Sources(f, i)')
        nj == Cardinality(Sources(f, j)')
    IN  ni < nj \/ (ni = nj /\ i < j)

AllSlots(e) == MaxInFlight      \* mutant: as if nothing were under way yet
Slots(e) == MaxInFlight - Cardinality(e.inFlight)

\* The first candidates, as many as there are free slots.
Wanted(d, f) ==
    IF d[f].status # "Active" THEN {}
    ELSE {i \in Candidates(d, f) :
            Cardinality({j \in Candidates(d, f) : Rarer(f, j, i)}) < Slots(d[f])}

\* mutant: an entry with nothing to ask for stays active
AfterDispatchActive(d, f) == [d[f] EXCEPT !.inFlight = @ \cup Wanted(d, f)]

AfterDispatch(d, f) ==
    LET inFlight == d[f].inFlight \cup Wanted(d, f)
    IN  [d[f] EXCEPT !.inFlight = inFlight,
                     !.status = IF @ = "Active" /\ inFlight = {}
                                THEN "Waiting" ELSE @]

\* dispatch_chunk_requests, over the entries d: every active entry asks for its
\* wanted chunks; which source it asks depends on the order of a hash map.
Dispatch(d, sent) ==
    /\ dl' = [f \in Files |-> AfterDispatch(d, f)]
    /\ \E ask \in [{w \in Files \X Index : w[2] \in Wanted(d, w[1])} -> Peers] :
          /\ \A w \in DOMAIN ask : ask[w] \in Sources(w[1], w[2])'
          /\ net' = sent (+) SetToBag({ChunkRequest(ask[w], w[1], w[2]) :
                                         w \in DOMAIN ask})
-----------------------------------------------------------------------------
(* Commands of the user on the queue *)

Quiet == BagCardinality(net) < MaxNet

\* DownloadManager::add: a hash already queued is not queued again.
EnqueueAlways(f) == Append(queue, f)      \* mutant: no check for duplicates
Enqueue(f) == IF dl[f].status = "Absent" THEN Append(queue, f) ELSE queue

\* The entry of f, made by DownloadEntry::new when f is not queued.
EntryOf(f) ==
    IF dl[f].status # "Absent" THEN dl[f]
    ELSE [Absent EXCEPT !.bits = LoadBits(bf[NameOf[f]], ChunkCount[f])]

\* DownloadFileByNumber and start_download.  An entry already queued becomes
\* active again whatever its state.
StartDownload(f) ==
    /\ Quiet
    /\ f \in available
    /\ queue' = Enqueue(f)
    /\ UNCHANGED <<room, available, peerBits, failures, blocked, storage, others>>
    /\ Dispatch([dl EXCEPT ![f] = [EntryOf(f) EXCEPT !.status = "Active"]], net)

\* The position in the queue a number of the user stands for: 0 means the first
\* entry, as 1 does (saturating_sub).
Position(number) == IF number = 0 THEN 1 ELSE number
Numbers == 0 .. Len(queue) + 1

UserStep == Quiet /\ UNCHANGED <<room, available, peerBits, failures, blocked,
                                 net, storage, others>>

Change(number, from, Changed(_)) ==
    /\ UserStep
    /\ Position(number) \in DOMAIN queue
    /\ LET f == queue[Position(number)]
       IN  /\ dl[f].status \in from
           /\ dl' = [dl EXCEPT ![f] = Changed(@)]
    /\ UNCHANGED queue

Pause(number) ==
    Change(number, {"Active", "Waiting"},
           LAMBDA e : [e EXCEPT !.status = "ManualPaused", !.inFlight = {}])

\* Resuming asks for no chunk: the next dispatch is that of some other event.
Resume(number) ==
    Change(number, {"ManualPaused", "AutoPaused", "Waiting"},
           LAMBDA e : [e EXCEPT !.status = "Active"])

\* The entry goes; the partial file and its .bf stay on the disk.
Cancel(number) ==
    /\ UserStep
    /\ LET k == Position(number)
       IN  /\ k \in DOMAIN queue
           /\ dl' = [dl EXCEPT ![queue[k]] = Absent]
           /\ queue' = [j \in 1 .. Len(queue) - 1 |->
                            IF j < k THEN queue[j] ELSE queue[j + 1]]

MoveTop(number) ==
    /\ UserStep
    /\ LET k == Position(number)
       IN  /\ k \in DOMAIN queue
           /\ queue' = [j \in DOMAIN queue |->
                            IF j = 1 THEN queue[k]
                            ELSE IF j <= k THEN queue[j - 1] ELSE queue[j]]
    /\ UNCHANGED dl

Swap(k) ==
    /\ UserStep
    /\ {k, k + 1} \subseteq DOMAIN queue
    /\ queue' = [queue EXCEPT ![k] = queue[k + 1], ![k + 1] = queue[k]]
    /\ UNCHANGED dl

MoveUp(number)   == Position(number) > 1 /\ Swap(Position(number) - 1)
MoveDown(number) == Swap(Position(number))
-----------------------------------------------------------------------------
(* Entering and leaving rooms *)

\* auto_pause_all: active and waiting downloads pause, their requests forgotten.
AutoPausedInFlight(e) ==                  \* mutant: the requests are kept
    IF e.status \in {"Active", "Waiting"}
    THEN [e EXCEPT !.status = "AutoPaused"] ELSE e
AutoPaused(e) ==
    IF e.status \in {"Active", "Waiting"}
    THEN [e EXCEPT !.status = "AutoPaused", !.inFlight = {}] ELSE e

\* What was learnt of the room's peers and files goes with the room.
ForgetFiles == peerBits' = peerBits /\ available' = {}      \* mutant
ForgetRoom  == peerBits' = NoPeerBits /\ available' = {}

\* leave_room, on the transfer state.
LeaveRoom ==
    /\ room # NoRoom
    /\ room' = NoRoom
    /\ dl' = [f \in Files |-> AutoPaused(dl[f])]
    /\ ForgetRoom
    /\ UNCHANGED <<queue, failures, blocked, net, storage, others>>

\* auto_resume_on_rejoin over the entries d: in the order of the queue, while
\* fewer than MaxConcurrent entries are active.
Resumes(d, f) ==
    /\ d[f].status = "AutoPaused"
    /\ Cardinality({g \in Files : d[g].status = "Active"})
       + Cardinality({k \in DOMAIN queue :
                        /\ d[queue[k]].status = "AutoPaused"
                        /\ \E j \in DOMAIN queue : k < j /\ queue[j] = f})
       < MaxConcurrent

\* join_room, which leaves the present room first.  It resumes paused downloads
\* of every room and forgets the files and peers of the previous one.
JoinRoom(r) ==
    /\ room' = r
    /\ LET d == IF room = NoRoom THEN dl ELSE [f \in Files |-> AutoPaused(dl[f])]
       IN  dl' = [f \in Files |-> IF Resumes(d, f)
                                  THEN [d[f] EXCEPT !.status = "Active"]
                                  ELSE d[f]]
    /\ IF room = NoRoom THEN UNCHANGED <<peerBits, available>> ELSE ForgetRoom
    /\ UNCHANGED <<queue, failures, blocked, net, storage, others>>
-----------------------------------------------------------------------------
(* Network events *)

\* A peer of the room shares f: its announcement is kept and the peer is asked
\* for its bitmaps.
FileAnnounced(p, f) ==
    /\ Quiet
    /\ room # NoRoom /\ peerRoom[p] = room
    /\ f \in Owns[p]
    /\ seeds' = [seeds EXCEPT ![p] = @ \cup {f}]
    /\ available' = available \cup {f}
    /\ net' = net (+) SetToBag({BitfieldRequest(p, room)})
    /\ UNCHANGED <<room, peerBits, queue, dl, failures, blocked, storage, peerRoom>>

\* handle_providers_for_sync, or /refresh: the providers of the active room are
\* asked for their bitmaps.  A query reports any subset of them at a time.
ProvidersFound(ps) ==
    /\ Quiet
    /\ room # NoRoom
    /\ net' = net (+) SetToBag({BitfieldRequest(p, room) : p \in ps})
    /\ UNCHANGED <<client, storage, others>>

Receive(m) == net (-) SetToBag({m})

\* on_bitfield_response: only the bitmaps of announced files are kept.
OnBitfieldResponse(m) ==
    /\ room # NoRoom
    /\ peerBits' = [f \in Files |->
          IF f \in m.files \cap available /\ ChunkCount[f] > 0
          THEN [peerBits[f] EXCEPT ![m.peer] = ChunkOf(f)] ELSE peerBits[f]]
    /\ UNCHANGED <<room, available, queue, failures, blocked, storage, others>>
    /\ Dispatch(dl, Receive(m))

\* The first active entry of the queue that has asked for chunk i of its file.
Awaits(f, i) == dl[f].status = "Active" /\ i \in dl[f].inFlight
Addressee(f, i) ==
    \E k \in DOMAIN queue :
        /\ queue[k] = f /\ Awaits(f, i)
        /\ \A j \in 1 .. k - 1 : ~Awaits(queue[j], i)

\* Responses that reach a client outside any room, or that no entry expects.
ResponseIgnored(m) ==
    /\ \/ room = NoRoom
       \/ m.type = "ChunkResponse" /\ \A f \in Files : ~Awaits(f, m.chunk)
    /\ net' = Receive(m)
    /\ UNCHANGED <<client, storage, others>>

\* A response sealed with the key of another room, or of a file whose hashes are
\* not known: an error, and the chunk stays in flight.
ChunkRejected(m, f) ==
    /\ room # NoRoom /\ Addressee(f, m.chunk)
    /\ ~(m.key = room /\ f \in available)
    /\ UNCHANGED <<room, available, peerBits, queue, failures, blocked, storage,
                   others>>
    /\ Dispatch(dl, Receive(m))

Opens(m, f) ==
    /\ room # NoRoom /\ Addressee(f, m.chunk)
    /\ m.key = room /\ f \in available

\* record_failure
TooManyAbove(total) == total > MaxFailures      \* mutant: one failure too late
TooMany(total) == total >= MaxFailures

RecordFailure(p, f, i) ==
    /\ failures' = [failures EXCEPT ![p] = [total  |-> @.total + 1,
                                           chunks |-> @.chunks \cup {<<f, i>>}]]
    /\ blocked' = IF TooMany(failures'[p].total) THEN blocked \cup {p} ELSE blocked

\* The chunk fails its hash: record_chunk_failure.
ChunkCorrupt(m, f) ==
    /\ Opens(m, f)
    /\ m.content # f
    /\ RecordFailure(m.peer, f, m.chunk)
    /\ UNCHANGED <<room, available, peerBits, queue, storage, others>>
    /\ Dispatch([dl EXCEPT ![f].inFlight = @ \ {m.chunk}], Receive(m))

\* The disk holds exactly the file f under its name (verify_complete_file).
WholeFile(contents, f) ==
    \A i \in Index : contents[NameOf[f]][i] = IF i \in ChunkOf(f) THEN f ELSE Empty

\* The chunk is written, then the bit set, then the .bf flushed.  The last chunk
\* completes the entry; the .bf is deleted when the whole file has its hash.
ChunkStored(m, f) ==
    LET n    == NameOf[f]
        bits == SetBit(dl[f].bits, m.chunk, ChunkCount[f])
        done == IsComplete(bits, ChunkCount[f])
    IN  /\ Opens(m, f)
        /\ m.content = f
        /\ disk' = [disk EXCEPT ![n][m.chunk] = f]
        /\ bf' = [bf EXCEPT ![n] = IF done /\ WholeFile(disk', f)
                                   THEN NoFile
                                   ELSE StoredBits(bits, ChunkCount[f])]
        /\ UNCHANGED <<room, available, peerBits, queue, failures, blocked, others>>
        /\ Dispatch([dl EXCEPT ![f] =
                        [status   |-> IF done THEN "Completed" ELSE @.status,
                         bits     |-> bits,
                         inFlight |-> @.inFlight \ {m.chunk}]],
                    Receive(m))

\* What a write of chunk i of f leaves at its place when it is cut short; a
\* chunk written over itself stays as it is however little of it is written.
CutShortAnyway(f, i) == [disk EXCEPT ![NameOf[f]][i] = Torn]      \* mutant
CutShort(f, i) == [disk EXCEPT ![NameOf[f]][i] = IF @ = f THEN f ELSE Torn]

\* The chunk cannot be written, or not all of it: an error, and it stays in
\* flight.
ChunkUnwritable(m, f) ==
    /\ DiskFaults
    /\ Opens(m, f)
    /\ m.content = f
    /\ disk' \in {disk, CutShort(f, m.chunk)}
    /\ UNCHANGED <<room, available, peerBits, queue, failures, blocked, bf, others>>
    /\ Dispatch(dl, Receive(m))

\* mutant: the index stays in flight
BitsUnflushedInFlight(m, f) ==
    /\ DiskFaults
    /\ Opens(m, f)
    /\ m.content = f
    /\ disk' = [disk EXCEPT ![NameOf[f]][m.chunk] = f]
    /\ UNCHANGED <<room, available, peerBits, queue, failures, blocked, bf, others>>
    /\ Dispatch([dl EXCEPT ![f].bits = SetBit(@, m.chunk, ChunkCount[f])], Receive(m))

\* The chunk is written but the .bf is not: the bit is set in memory and the
\* handler returns before it looks whether the file is complete.
BitsUnflushed(m, f) ==
    /\ DiskFaults
    /\ Opens(m, f)
    /\ m.content = f
    /\ disk' = [disk EXCEPT ![NameOf[f]][m.chunk] = f]
    /\ UNCHANGED <<room, available, peerBits, queue, failures, blocked, bf, others>>
    /\ Dispatch([dl EXCEPT ![f] =
                    [status   |-> @.status,
                     bits     |-> SetBit(@.bits, m.chunk, ChunkCount[f]),
                     inFlight |-> @.inFlight \ {m.chunk}]],
                Receive(m))
-----------------------------------------------------------------------------
(* Crashes.  Nothing of the client's memory survives; the disk does. *)

Restarted ==
    /\ room' = NoRoom
    /\ available' = {}
    /\ peerBits' = NoPeerBits
    /\ queue' = <<>>
    /\ dl' = [f \in Files |-> Absent]
    /\ failures' = NoFailures
    /\ blocked' = {}
    /\ net' = EmptyBag

Crash == Restarted /\ UNCHANGED <<storage, others>>

\* mutant: the .bf is flushed before the chunk is written
CrashInStoreBitsFirst(m, f) ==
    /\ Opens(m, f)
    /\ m.content = f
    /\ bf' = [bf EXCEPT ![NameOf[f]] =
                 StoredBits(SetBit(dl[f].bits, m.chunk, ChunkCount[f]), ChunkCount[f])]
    /\ disk' \in {disk, CutShort(f, m.chunk)}
    /\ Restarted
    /\ UNCHANGED others

\* The process dies while it stores a chunk: the write may be cut short, or be
\* whole with the .bf still old, or the .bf be new and not yet deleted.
CrashInStore(m, f) ==
    LET n    == NameOf[f]
        bits == SetBit(dl[f].bits, m.chunk, ChunkCount[f])
    IN  /\ Opens(m, f)
        /\ m.content = f
        /\ \/ disk' = CutShort(f, m.chunk) /\ bf' = bf
           \/ /\ disk' = [disk EXCEPT ![n][m.chunk] = f]
              /\ bf' \in {bf, [bf EXCEPT ![n] = StoredBits(bits, ChunkCount[f])]}
        /\ Restarted
        /\ UNCHANGED others
-----------------------------------------------------------------------------
(* The peers *)

PeerStep == UNCHANGED <<client, storage>>

PeerMoves(p, r) ==
    /\ p \in Fickle
    /\ peerRoom' = [peerRoom EXCEPT ![p] = r]
    /\ UNCHANGED <<seeds, net>>
    /\ PeerStep

PeerStopsSeeding(p, f) ==
    /\ p \in Fickle /\ f \in seeds[p]
    /\ seeds' = [seeds EXCEPT ![p] = @ \ {f}]
    /\ UNCHANGED <<peerRoom, net>>
    /\ PeerStep

\* mutant: served outside any room too
PeerServesChunkAnywhere(m) ==
    /\ m.file \in seeds[m.peer]
    /\ net' = Receive(m) (+) SetToBag({
          ChunkResponse(m.peer, m.chunk, m.file, peerRoom[m.peer])})
    /\ UNCHANGED others
    /\ PeerStep

\* A seed is not tied to the room it was shared in: it is served in any room,
\* under the key of the room the peer is in.
PeerServesChunk(m) ==
    /\ peerRoom[m.peer] # NoRoom /\ m.file \in seeds[m.peer]
    /\ net' = Receive(m) (+) SetToBag({
          ChunkResponse(m.peer, m.chunk,
                        IF m.peer \in Stale THEN Corrupt ELSE m.file,
                        peerRoom[m.peer])})
    /\ UNCHANGED others
    /\ PeerStep

PeerListsSeeds(m) ==
    /\ net' = Receive(m) (+) SetToBag({
          BitfieldResponse(m.peer,
              IF peerRoom[m.peer] = m.room THEN seeds[m.peer] ELSE {})})
    /\ UNCHANGED others
    /\ PeerStep

\* A request that is never answered: the peer drops it without a word, or the
\* connection fails.  The client ignores the failure its swarm reports.
RequestUnanswered(m) ==
    /\ \/ m.peer \in Lossy
       \/ m.type = "ChunkRequest" /\ (\/ peerRoom[m.peer] = NoRoom
                                     \/ m.file \notin seeds[m.peer])
    /\ net' = Receive(m)
    /\ UNCHANGED others
    /\ PeerStep
-----------------------------------------------------------------------------
InNet(type) == {m \in BagToSet(net) : m.type = type}

UserCommand ==
    \/ \E f \in Files : StartDownload(f)
    \/ \E n \in Numbers : Pause(n)
    \/ \E n \in Numbers : Resume(n)
    \/ \E n \in Numbers : Cancel(n)
    \/ \E n \in Numbers : MoveTop(n)
    \/ \E n \in Numbers : MoveUp(n)
    \/ \E n \in Numbers : MoveDown(n)
    \/ LeaveRoom
    \/ \E r \in Rooms : JoinRoom(r)

ChunkArrives ==
    \E m \in InNet("ChunkResponse") :
        \/ ResponseIgnored(m)
        \/ \E f \in Files :
              \/ ChunkRejected(m, f)
              \/ ChunkCorrupt(m, f)
              \/ ChunkStored(m, f)
              \/ ChunkUnwritable(m, f)
              \/ BitsUnflushed(m, f)

BitfieldArrives ==
    \E m \in InNet("BitfieldResponse") : OnBitfieldResponse(m) \/ ResponseIgnored(m)

ChunkAnswered ==
    \E m \in InNet("ChunkRequest") : PeerServesChunk(m) \/ RequestUnanswered(m)

BitfieldAnswered ==
    \E m \in InNet("BitfieldRequest") : PeerListsSeeds(m) \/ RequestUnanswered(m)

Environment ==
    \/ \E p \in Peers, f \in Files : FileAnnounced(p, f)
    \/ \E ps \in SUBSET Peers \ {{}} : ProvidersFound(ps)
    \/ \E p \in Peers, r \in Rooms \cup {NoRoom} : PeerMoves(p, r)
    \/ \E p \in Peers, f \in Files : PeerStopsSeeding(p, f)

Crashes ==
    \/ Crash
    \/ \E m \in InNet("ChunkResponse"), f \in Files : CrashInStore(m, f)

Next ==
    \/ UserCommand
    \/ ChunkArrives
    \/ BitfieldArrives
    \/ ChunkAnswered
    \/ BitfieldAnswered
    \/ Environment
    \/ Crashes

Spec == Init /\ [][Next]_vars

\* The swarm delivers what it has and AppCore takes every event in turn.  The
\* user, the peers and crashes are under no obligation.
FairSpec ==
    /\ Spec
    /\ WF_vars(ChunkAnswered) /\ WF_vars(ChunkArrives)
    /\ WF_vars(BitfieldAnswered) /\ WF_vars(BitfieldArrives)
-----------------------------------------------------------------------------
(* Safety *)

\* Every variable keeps its type.
TypeOK ==
    /\ room \in Rooms \cup {NoRoom}
    /\ available \subseteq Files
    /\ peerBits \in [Files -> [Peers -> SUBSET Index]]
    /\ queue \in Seq(Files)
    /\ dl \in [Files -> Entries]
    /\ failures \in [Peers -> [total : Nat, chunks : SUBSET (Files \X Index)]]
    /\ blocked \subseteq Peers
    /\ BagToSet(net) \subseteq Messages
    /\ disk \in [Names -> [Index -> Files \cup {Empty, Torn}]]
    /\ bf \in [Names -> [bytes : Int, bits : SUBSET Int]]
    /\ peerRoom \in [Peers -> Rooms \cup {NoRoom}]
    /\ seeds \in [Peers -> SUBSET Files]

\* The queue lists every entry once, and nothing else: numbers given by the user
\* reach each download, and a response finds its addressee in the queue.
QueueMatches ==
    /\ \A j, k \in DOMAIN queue : queue[j] = queue[k] => j = k
    /\ \A f \in Files :
          dl[f].status # "Absent" <=> \E k \in DOMAIN queue : queue[k] = f

\* A file has a name of its own.  Nothing in the program sees to it.
NamesDiffer == \A f, g \in Files : NameOf[f] = NameOf[g] => f = g

\* Chunks in flight are missing ones and only an active download has any: whatever
\* the order of answers, pauses and moves, no chunk is asked for that the download
\* already holds, and a pause or the end of a download leaves none behind.  (With
\* file names that differ.)
InFlightIsMissing ==
    \A f \in Files :
        /\ dl[f].inFlight \subseteq Missing(dl[f].bits, ChunkCount[f])
        /\ dl[f].inFlight # {} => dl[f].status = "Active"

\* A file never has more requests under way than its slots, whichever handlers
\* have dispatched for it (MAX_IN_FLIGHT_PER_FILE).
FlightIsBounded ==
    \A f \in Files : Cardinality(dl[f].inFlight) <= MaxInFlight

\* Leaving a room forgets what was announced, known and asked for in it, and nothing
\* comes back by itself: a bitmap is kept, and a chunk in flight, only for a file that
\* was announced since this room was entered. (The bitmap may be one asked for in an
\* earlier room, if the file was announced in both.)
KnownIsAnnounced ==
    /\ room = NoRoom => available = {}
    /\ \A f \in Files \ available :
          /\ \A p \in Peers : peerBits[f][p] = NewBits
          /\ dl[f].inFlight = {}

\* A peer is blocked exactly when three of its chunks have failed, each failure
\* being of a chunk that is not asked of it again.
BlockedAtThree ==
    \A p \in Peers :
        /\ p \in blocked <=> failures[p].total >= MaxFailures
        /\ failures[p].chunks = {} <=> failures[p].total = 0
        /\ Cardinality(failures[p].chunks) <= failures[p].total

\* A bit on disk or in memory never runs ahead of the data, whatever crashes and
\* write errors come between: the chunk it stands for is on disk, whole.  (With
\* file names that differ.)
BitsNeverAhead ==
    /\ \A n \in Names : \A i \in bf[n].bits :
          i \in Index /\ disk[n][i] \notin {Empty, Torn}
    /\ \A f \in Files : \A i \in dl[f].bits :
          i \in ChunkOf(f) /\ disk[NameOf[f]][i] = f

\* A completed download has the whole file on disk, the last and only judge being
\* the bits that were loaded, received and counted.
CompletedIsWhole ==
    \A f \in Files : dl[f].status = "Completed" => WholeFile(disk, f)

Copies(m) == IF BagIn(m, net) THEN net[m] ELSE 0

\* A chunk request goes to a peer that is not blocked, for a chunk that peer has
\* not failed and that it said during this stay it has, by a client in a room, and
\* the chunk is in flight from then on.
RequestsAvoidTheBlamed ==
    [][\A m \in ChunkRequests :
          Copies(m)' > Copies(m)
          => /\ room' # NoRoom
             /\ m.peer \notin blocked'
             /\ <<m.file, m.chunk>> \notin failures'[m.peer].chunks
             /\ m.chunk \in peerBits'[m.file][m.peer]
             /\ m.chunk \in dl'[m.file].inFlight]_vars

\* The abstract store of verified chunks (ChunkStore) that the disk implements.
Verified(f) == {i \in ChunkOf(f) : disk[NameOf[f]][i] = f}
Store == INSTANCE ChunkStore WITH
            have <- [f \in Files |-> Verified(f)],
            done <- {f \in Files : dl[f].status = "Completed"}

\* The client implements the store: a chunk verified and stored is never lost again,
\* crashes and write errors included, chunks arrive one at a time, and a download
\* is completed only when all of its chunks are stored.
ImplementsStore == Store!Spec
-----------------------------------------------------------------------------
(* Progress *)

\* The requests and responses under way for a chunk of index i, of whatever file,
\* the copies of one message told apart.
UnderWay(i) ==
    UNION {{<<m, k>> : k \in 1 .. net[m]} :
             m \in {m \in InNet("ChunkRequest") \cup InNet("ChunkResponse") : m.chunk = i}}

\* With peers that stay and answer, and a single room, as many answers are under way
\* for an index as there are downloads that wait for one: a response may be taken for
\* another file's, but then the other's is left, and no download waits for an answer
\* that cannot come.
AnswerComes ==
    \A i \in Index :
        Cardinality({f \in Files : i \in dl[f].inFlight}) <= Cardinality(UnderWay(i))

\* A download with chunks in flight lands: it completes, the user or a change of
\* room pauses it, removes it or forgets what was in flight, or it waits because
\* the sources of a missing chunk have failed it.
FlightLands ==
    \A f \in Files :
        dl[f].inFlight # {}
        ~> \/ dl[f].status \in {"Completed", "ManualPaused", "AutoPaused", "Absent"}
           \/ f \notin available
           \/ /\ dl[f].status = "Waiting"
              /\ \E i \in Missing(dl[f].bits, ChunkCount[f]) :
                    Sources(f, i) = {} /\ \E p \in Peers : Blacklisted(p, f, i)
=============================================================================
