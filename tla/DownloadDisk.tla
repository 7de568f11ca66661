---------------------------- MODULE DownloadDisk ----------------------------
(***************************************************************************)
(* What the downloads keep true of the disk when no two files share a      *)
(* name: bits never run ahead of the data, what is asked for is missing,   *)
(* and what is complete is whole.  With peers that stay, and one room, an  *)
(* answer is on its way for each chunk in flight.                          *)
(***************************************************************************)
EXTENDS DownloadProofs

-----------------------------------------------------------------------------
(* The inductive invariant *)

\* An entry on its own: its bits are of its chunks, it asks only for chunks it
\* misses and only while active, and it is complete only with every bit.
SoundEntry(f, e) ==
    /\ e.bits \subseteq ChunkOf(f)
    /\ e.inFlight \subseteq ChunkOf(f) \ e.bits
    /\ e.inFlight # {} => e.status = "Active"
    /\ e.status = "Completed" => e.bits = ChunkOf(f)

\* The disk: every bit, in memory or in the .bf file, stands for a verified chunk,
\* and there is nothing beyond the end of the file.
SoundDisk(f) ==
    /\ dl[f].bits \subseteq Verified(f)
    /\ bf[NameOf[f]].bits \subseteq Verified(f)
    /\ \A i \in Index \ ChunkOf(f) : disk[NameOf[f]][i] = Empty

\* A name no file has is never written to.
NoStrayBits == \A n \in Names : (\A f \in Files : NameOf[f] # n) => bf[n].bits = {}

SoundInv ==
    /\ \A f \in Files : SoundEntry(f, dl[f]) /\ SoundDisk(f)
    /\ NoStrayBits

LEMMA MissingIs == \A f \in Files : \A S : Missing(S, ChunkCount[f]) = ChunkOf(f) \ S
BY DEF Missing, GetBit, ChunkOf

LEMMA AllBitsSet ==
    ASSUME NEW f \in Files, NEW S \in SUBSET ChunkOf(f), IsComplete(S, ChunkCount[f])
    PROVE  S = ChunkOf(f)
<1>1. ChunkCount[f] \in Nat
  BY ConstantsAssumption
<1>2. IsFiniteSet(ChunkOf(f)) /\ Cardinality(ChunkOf(f)) = ChunkCount[f]
  <2> DEFINE n == ChunkCount[f]
  <2>1. /\ IsFiniteSet(0 .. n - 1)
        /\ Cardinality(0 .. n - 1) = IF 0 > n - 1 THEN 0 ELSE n - 1 - 0 + 1
    <3>1. n - 1 \in Int /\ 0 \in Int
      BY <1>1
    <3> HIDE DEF n
    <3> QED BY <3>1, FS_Interval
  <2> QED BY <1>1, <2>1 DEF ChunkOf, Chunks
<1> QED BY <1>2, FS_Subset DEF IsComplete, Completed

LEMMA DispatchSound ==
    ASSUME NEW d \in [Files -> Entries], NEW sent, Dispatch(d, sent), NEW f \in Files,
           SoundEntry(f, d[f])
    PROVE  SoundEntry(f, dl'[f]) /\ dl'[f].bits = d[f].bits
<1>1. Wanted(d, f) \subseteq ChunkOf(f) \ d[f].bits
  BY MissingIs DEF Wanted, Candidates
<1>2. d[f].status # "Active" => Wanted(d, f) = {}
  BY DEF Wanted
<1> QED BY <1>1, <1>2, DispatchEntry DEF SoundEntry

\* A step that leaves the disk alone and starts no entry with unverified bits.
LEMMA EntriesSound ==
    ASSUME SoundInv, UNCHANGED storage,
           \A f \in Files : SoundEntry(f, dl'[f]) /\ dl'[f].bits \subseteq Verified(f)
    PROVE  SoundInv'
<1>1. \A f \in Files : Verified(f)' = Verified(f)
  BY DEF Verified, storage
<1> QED BY <1>1 DEF SoundInv, SoundEntry, SoundDisk, NoStrayBits, storage

LEMMA DispatchedSound ==
    ASSUME SoundInv, UNCHANGED storage, NEW d \in [Files -> Entries], NEW sent,
           Dispatch(d, sent),
           \A f \in Files : SoundEntry(f, d[f]) /\ d[f].bits \subseteq Verified(f)
    PROVE  SoundInv'
<1>1. \A f \in Files : SoundEntry(f, dl'[f]) /\ dl'[f].bits \subseteq Verified(f)
  BY DispatchSound
<1> QED BY <1>1, EntriesSound

\* A verified chunk is written in its place.
LEMMA ChunkWritten ==
    ASSUME TypeOK, SoundInv, NamesDiffer, NEW f \in Files, NEW i \in ChunkOf(f),
           disk' = [disk EXCEPT ![NameOf[f]][i] = f]
    PROVE  /\ \A g \in Files : Verified(g)' = IF g = f THEN Verified(f) \cup {i}
                                              ELSE Verified(g)
           /\ \A g \in Files : \A j \in Index \ ChunkOf(g) : disk'[NameOf[g]][j] = Empty
<1>1. i \in Index /\ NameOf[f] \in Names
  BY IndexOfChunk, ConstantsAssumption
<1>2. \A j \in Index : disk'[NameOf[f]][j] = IF j = i THEN f ELSE disk[NameOf[f]][j]
  BY <1>1 DEF TypeOK
<1>3. \A g \in Files : g # f => disk'[NameOf[g]] = disk[NameOf[g]]
  BY <1>1, ConstantsAssumption DEF TypeOK, NamesDiffer
<1>4. \A g \in Files : ChunkOf(g) \subseteq Index
  BY IndexOfChunk
<1>5. Verified(f)' = Verified(f) \cup {i}
  BY <1>1, <1>2, <1>4 DEF Verified
<1>6. \A g \in Files : g # f => Verified(g)' = Verified(g)
  BY <1>3 DEF Verified
<1>7. ASSUME NEW g \in Files, NEW j \in Index \ ChunkOf(g)
      PROVE  disk'[NameOf[g]][j] = Empty
  BY <1>2, <1>3 DEF SoundInv, SoundDisk
<1> QED BY <1>5, <1>6, <1>7

\* A write cut short destroys no verified chunk.
LEMMA ChunkCut ==
    ASSUME TypeOK, SoundInv, NamesDiffer, NEW f \in Files, NEW i \in ChunkOf(f),
           disk' = CutShort(f, i)
    PROVE  /\ \A g \in Files : Verified(g)' = Verified(g)
           /\ \A g \in Files : \A j \in Index \ ChunkOf(g) : disk'[NameOf[g]][j] = Empty
<1>1. i \in Index /\ NameOf[f] \in Names
  BY IndexOfChunk, ConstantsAssumption
<1>2. \A j \in Index : disk'[NameOf[f]][j] =
                          IF j = i /\ disk[NameOf[f]][i] # f THEN Torn
                          ELSE disk[NameOf[f]][j]
  BY <1>1 DEF TypeOK, CutShort
<1>3. \A g \in Files : g # f => disk'[NameOf[g]] = disk[NameOf[g]]
  BY <1>1, ConstantsAssumption DEF TypeOK, NamesDiffer, CutShort
<1>4. \A g \in Files : ChunkOf(g) \subseteq Index
  BY IndexOfChunk
<1>5. Torn # f
  BY ContentsAssumption
<1>6. Verified(f)' = Verified(f)
  BY <1>1, <1>2, <1>4, <1>5 DEF Verified
<1>7. \A g \in Files : g # f => Verified(g)' = Verified(g)
  BY <1>3 DEF Verified
<1>8. ASSUME NEW g \in Files, NEW j \in Index \ ChunkOf(g)
      PROVE  disk'[NameOf[g]][j] = Empty
  BY <1>2, <1>3 DEF SoundInv, SoundDisk
<1> QED BY <1>6, <1>7, <1>8
-----------------------------------------------------------------------------
(* The steps *)

LEMMA StartSound ==
    ASSUME TypeOK, SoundInv, NEW f \in Files, StartDownload(f)
    PROVE  SoundInv'
<1> DEFINE e == [EntryOf(f) EXCEPT !.status = "Active"]
           d == [dl EXCEPT ![f] = e]
<1>1. d \in [Files -> Entries] /\ Dispatch(d, net) /\ UNCHANGED storage
  BY EntryOfType DEF StartDownload
<1>2. EntryOf(f).bits \subseteq Verified(f)
      /\ EntryOf(f).inFlight \subseteq ChunkOf(f) \ EntryOf(f).bits
  <2>1. CASE dl[f].status # "Absent"
    BY <2>1 DEF EntryOf, SoundInv, SoundEntry, SoundDisk
  <2>2. CASE dl[f].status = "Absent"
    <3>1. LoadBits(bf[NameOf[f]], ChunkCount[f]) \subseteq Verified(f)
      BY DEF LoadBits, NewBits, SoundInv, SoundDisk
    <3>2. /\ EntryOf(f).bits = LoadBits(bf[NameOf[f]], ChunkCount[f])
          /\ EntryOf(f).inFlight = {}
      BY <2>2 DEF EntryOf, Absent
    <3> QED BY <3>1, <3>2
  <2> QED BY <2>1, <2>2
<1>3. SoundEntry(f, e) /\ e.bits \subseteq Verified(f)
  <2>1. /\ e.bits = EntryOf(f).bits /\ e.inFlight = EntryOf(f).inFlight
        /\ e.status = "Active"
    <3>1. EntryOf(f) \in [status : Statuses, bits : SUBSET Int, inFlight : SUBSET Index]
      <4>1. dl[f] \in Entries /\ LoadBits(bf[NameOf[f]], ChunkCount[f]) \in SUBSET Int
        BY ConstantsAssumption DEF TypeOK, LoadBits, NewBits
      <4> QED BY <4>1 DEF EntryOf, Absent, Entries, Statuses, NewBits
    <3> QED BY <3>1
  <2>2. Verified(f) \subseteq ChunkOf(f)
    BY DEF Verified
  <2> QED BY <1>2, <2>1, <2>2 DEF SoundEntry
<1> HIDE DEF e
<1>4. \A g \in Files : SoundEntry(g, d[g]) /\ d[g].bits \subseteq Verified(g)
  BY <1>3 DEF TypeOK, SoundInv, SoundDisk
<1> HIDE DEF d
<1> QED BY <1>1, <1>4, DispatchedSound

LEMMA CommandSound ==
    ASSUME TypeOK, SoundInv, NEW k \in Numbers, Pause(k) \/ Resume(k) \/ Cancel(k)
    PROVE  SoundInv'
<1> DEFINE f == queue[Position(k)]
<1>1. f \in Files /\ UNCHANGED storage
  BY DEF Pause, Resume, Cancel, Change, UserStep, TypeOK
<1>2. \E e \in {[dl[f] EXCEPT !.status = "ManualPaused", !.inFlight = {}],
                [dl[f] EXCEPT !.status = "Active"], Absent} :
         dl' = [dl EXCEPT ![f] = e]
  <2>1. CASE Pause(k)
    BY <1>1, <2>1 DEF Pause, Change, TypeOK, Entries
  <2>2. CASE Resume(k)
    BY <1>1, <2>2 DEF Resume, Change, TypeOK
  <2>3. CASE Cancel(k)
    BY <1>1, <2>3 DEF Cancel, TypeOK, Absent, Entries
  <2> QED BY <2>1, <2>2, <2>3
<1> HIDE DEF f
<1>3. \A e \in {[dl[f] EXCEPT !.status = "ManualPaused", !.inFlight = {}],
                [dl[f] EXCEPT !.status = "Active"], Absent} :
         SoundEntry(f, e) /\ e.bits \subseteq Verified(f)
  <2>1. dl[f] \in Entries /\ SoundEntry(f, dl[f]) /\ dl[f].bits \subseteq Verified(f)
    BY <1>1 DEF TypeOK, SoundInv, SoundDisk
  <2> DEFINE e1 == [dl[f] EXCEPT !.status = "ManualPaused", !.inFlight = {}]
             e2 == [dl[f] EXCEPT !.status = "Active"]
  <2>2. SoundEntry(f, e1) /\ e1.bits \subseteq Verified(f)
    BY <2>1 DEF SoundEntry, Entries
  <2>3. SoundEntry(f, e2) /\ e2.bits \subseteq Verified(f)
    BY <2>1 DEF SoundEntry, Entries
  <2>4. SoundEntry(f, Absent) /\ Absent.bits \subseteq Verified(f)
    BY DEF SoundEntry, Absent, NewBits
  <2> QED BY <2>2, <2>3, <2>4
<1>4. \A g \in Files : SoundEntry(g, dl'[g]) /\ dl'[g].bits \subseteq Verified(g)
  BY <1>1, <1>2, <1>3 DEF TypeOK, SoundInv, SoundDisk
<1> QED BY <1>1, <1>4, EntriesSound

LEMMA RoomSound ==
    ASSUME TypeOK, SoundInv, LeaveRoom \/ \E r \in Rooms : JoinRoom(r)
    PROVE  SoundInv'
<1>1. \A f \in Files, e \in Entries :
         SoundEntry(f, e)
         => SoundEntry(f, AutoPaused(e)) /\ AutoPaused(e).bits = e.bits
  BY DEF SoundEntry, AutoPaused, Entries
<1>2. /\ dl \in [Files -> Entries] /\ UNCHANGED storage
      /\ \A f \in Files : SoundEntry(f, dl[f]) /\ dl[f].bits \subseteq Verified(f)
  BY DEF TypeOK, SoundInv, SoundDisk, LeaveRoom, JoinRoom
<1>3. CASE LeaveRoom
  BY <1>1, <1>2, <1>3, EntriesSound DEF LeaveRoom
<1>4. ASSUME NEW r \in Rooms, JoinRoom(r) PROVE SoundInv'
  <2> DEFINE d == IF room = NoRoom THEN dl ELSE [f \in Files |-> AutoPaused(dl[f])]
  <2>1. d \in [Files -> Entries]
    BY <1>2, AutoPausedType
  <2>2. \A f \in Files : SoundEntry(f, d[f]) /\ d[f].bits \subseteq Verified(f)
    BY <1>1, <1>2
  <2>3. dl' = [f \in Files |-> IF Resumes(d, f)
                               THEN [d[f] EXCEPT !.status = "Active"]
                               ELSE d[f]]
    BY <1>4 DEF JoinRoom
  <2> HIDE DEF d
  <2>4. \A f \in Files : SoundEntry(f, dl'[f]) /\ dl'[f].bits \subseteq Verified(f)
    BY <2>1, <2>2, <2>3 DEF Resumes, Entries, SoundEntry
  <2> QED BY <1>2, <2>4, EntriesSound
<1> QED BY <1>3, <1>4

\* A chunk that arrives was in flight, so it is one of its file that is missing.
LEMMA ArrivedIsMissing ==
    ASSUME TypeOK, SoundInv, NEW m, NEW f \in Files, Opens(m, f)
    PROVE  /\ m.chunk \in ChunkOf(f) \ dl[f].bits
           /\ dl[f].status = "Active"
           /\ SetBit(dl[f].bits, m.chunk, ChunkCount[f]) = dl[f].bits \cup {m.chunk}
<1>1. m.chunk \in dl[f].inFlight /\ dl[f].status = "Active"
  BY DEF Opens, Addressee, Awaits
<1>2. m.chunk \in ChunkOf(f) \ dl[f].bits
  BY <1>1 DEF SoundInv, SoundEntry
<1> QED BY <1>1, <1>2 DEF SetBit, ChunkOf

\* After a step that writes chunk i of f, or leaves it unwritten, and flushes a
\* bitmap or not.
LEMMA StorageSound ==
    ASSUME SoundInv, NEW f \in Files, NEW S \in SUBSET Verified(f)', NamesDiffer,
           \A g \in Files : Verified(g) \subseteq Verified(g)',
           \A g \in Files : \A j \in Index \ ChunkOf(g) : disk'[NameOf[g]][j] = Empty,
           TypeOK,
           \/ bf' = bf
           \/ \E b : b.bits = S /\ bf' = [bf EXCEPT ![NameOf[f]] = b],
           \A g \in Files : SoundEntry(g, dl'[g]) /\ dl'[g].bits \subseteq Verified(g)'
    PROVE  SoundInv'
<1>1. NameOf[f] \in Names
  BY ConstantsAssumption
<1>2. bf'[NameOf[f]].bits \subseteq Verified(f)'
  BY <1>1 DEF TypeOK, SoundInv, SoundDisk
<1>3. \A g \in Files : g # f => bf'[NameOf[g]] = bf[NameOf[g]]
  BY <1>1, ConstantsAssumption DEF TypeOK, NamesDiffer
<1>4. \A g \in Files : bf'[NameOf[g]].bits \subseteq Verified(g)'
  BY <1>2, <1>3 DEF SoundInv, SoundDisk
<1>5. \A n \in Names : (\A g \in Files : NameOf[g] # n) => bf'[n].bits = {}
  BY DEF TypeOK, SoundInv, NoStrayBits
<1> QED BY <1>4, <1>5 DEF SoundInv, SoundDisk, SoundEntry, NoStrayBits

LEMMA CorruptSound ==
    ASSUME TypeOK, SoundInv, NEW m, NEW f \in Files, ChunkCorrupt(m, f)
    PROVE  SoundInv'
<1> DEFINE e == [dl[f] EXCEPT !.inFlight = @ \ {m.chunk}]
           d == [dl EXCEPT ![f] = e]
<1>1. Dispatch(d, Receive(m)) /\ UNCHANGED storage
  BY DEF ChunkCorrupt
<1>2. dl[f] \in Entries /\ SoundEntry(f, dl[f]) /\ dl[f].bits \subseteq Verified(f)
  BY DEF TypeOK, SoundInv, SoundDisk
<1>3. e \in Entries /\ SoundEntry(f, e) /\ e.bits \subseteq Verified(f)
  BY <1>2 DEF SoundEntry, Entries
<1> HIDE DEF e
<1>4. /\ d \in [Files -> Entries]
      /\ \A g \in Files : SoundEntry(g, d[g]) /\ d[g].bits \subseteq Verified(g)
  BY <1>3 DEF TypeOK, SoundInv, SoundDisk
<1> HIDE DEF d
<1> QED BY <1>1, <1>4, DispatchedSound

\* The entry that has stored a chunk, complete or not.
LEMMA StoredEntry ==
    ASSUME TypeOK, SoundInv, NEW m, NEW f \in Files, Opens(m, f), NEW status,
           status \in {"Active", "Completed"},
           status = "Completed" => dl[f].bits \cup {m.chunk} = ChunkOf(f)
    PROVE  LET e == [status   |-> status,
                     bits     |-> dl[f].bits \cup {m.chunk},
                     inFlight |-> dl[f].inFlight \ {m.chunk}]
           IN  e \in Entries /\ SoundEntry(f, e)
<1>1. /\ dl[f] \in Entries /\ SoundEntry(f, dl[f]) /\ m.chunk \in ChunkOf(f)
      /\ ChunkOf(f) \subseteq Int
  BY ArrivedIsMissing, ConstantsAssumption DEF TypeOK, SoundInv, ChunkOf, Chunks
<1> DEFINE e == [status   |-> status,
                 bits     |-> dl[f].bits \cup {m.chunk},
                 inFlight |-> dl[f].inFlight \ {m.chunk}]
<1>2. e \in Entries
  BY <1>1 DEF Entries, Statuses
<1>3. e.inFlight \subseteq ChunkOf(f) \ e.bits /\ e.bits \subseteq ChunkOf(f)
  BY <1>1 DEF SoundEntry
<1>4. status = "Completed" => e.inFlight = {}
  BY <1>3
<1> QED BY <1>2, <1>3, <1>4 DEF SoundEntry

LEMMA StoredSound ==
    ASSUME TypeOK, SoundInv, NamesDiffer, NEW m \in ChunkResponses, NEW f \in Files,
           ChunkStored(m, f) \/ BitsUnflushed(m, f)
    PROVE  SoundInv'
<1> DEFINE i == m.chunk
           bits == dl[f].bits \cup {i}
           done == IsComplete(bits, ChunkCount[f])
           e(s) == [status |-> s, bits |-> bits, inFlight |-> dl[f].inFlight \ {i}]
<1>1. /\ Opens(m, f) /\ i \in ChunkOf(f) /\ dl[f].status = "Active"
      /\ SetBit(dl[f].bits, i, ChunkCount[f]) = bits
      /\ disk' = [disk EXCEPT ![NameOf[f]][i] = f]
  BY ArrivedIsMissing DEF ChunkStored, BitsUnflushed
<1>2. /\ bits \in SUBSET ChunkOf(f) /\ dl[f] \in Entries
      /\ dl[f].bits \subseteq Verified(f)
  BY <1>1 DEF TypeOK, SoundInv, SoundEntry, SoundDisk
<1>3. PICK s \in {"Active", "Completed"} :
         /\ Dispatch([dl EXCEPT ![f] = e(s)], Receive(m))
         /\ s = "Completed" => done
  <2>1. CASE ChunkStored(m, f)
    BY <1>1, <2>1 DEF ChunkStored
  <2>2. CASE BitsUnflushed(m, f)
    BY <1>1, <2>2 DEF BitsUnflushed
  <2> QED BY <2>1, <2>2
<1>4. s = "Completed" => bits = ChunkOf(f)
  BY <1>2, <1>3, AllBitsSet
<1>5. e(s) \in Entries /\ SoundEntry(f, e(s))
  BY <1>1, <1>4, StoredEntry
<1>6. /\ \A g \in Files : Verified(g)' = IF g = f THEN Verified(f) \cup {i}
                                         ELSE Verified(g)
      /\ \A g \in Files : \A j \in Index \ ChunkOf(g) : disk'[NameOf[g]][j] = Empty
  BY <1>1, ChunkWritten
<1>7. e(s).bits = bits
  OBVIOUS
<1>8. \/ bf' = bf
      \/ \E b, S : /\ b.bits = S /\ S \subseteq bits
                   /\ bf' = [bf EXCEPT ![NameOf[f]] = b]
  <2>1. CASE ChunkStored(m, f)
    <3>1. NoFile.bits = {} /\ StoredBits(bits, ChunkCount[f]).bits = bits
      BY DEF NoFile, StoredBits
    <3>2. \E b \in {NoFile, StoredBits(bits, ChunkCount[f])} :
             bf' = [bf EXCEPT ![NameOf[f]] = b]
      BY <1>1, <2>1 DEF ChunkStored
    <3> QED BY <3>1, <3>2
  <2> QED BY <2>1 DEF BitsUnflushed
<1> HIDE DEF e
<1>9. \A g \in Files : SoundEntry(g, dl'[g]) /\ dl'[g].bits \subseteq Verified(g)'
  <2> DEFINE d == [dl EXCEPT ![f] = e(s)]
  <2>1. d \in [Files -> Entries] /\ \A g \in Files : SoundEntry(g, d[g])
    BY <1>5 DEF TypeOK, SoundInv
  <2>2. \A g \in Files : d[g].bits \subseteq Verified(g)'
    BY <1>2, <1>6, <1>7 DEF TypeOK, SoundInv, SoundDisk
  <2>3. Dispatch(d, Receive(m))
    BY <1>3
  <2> HIDE DEF d
  <2> QED BY <2>1, <2>2, <2>3, DispatchSound
<1>10. bits \subseteq Verified(f)'
  BY <1>2, <1>6
<1> HIDE DEF bits
<1> QED BY <1>6, <1>8, <1>9, <1>10, StorageSound

LEMMA UnwritableSound ==
    ASSUME TypeOK, SoundInv, NamesDiffer, NEW m, NEW f \in Files,
           ChunkUnwritable(m, f)
    PROVE  SoundInv'
<1>1. Opens(m, f) /\ disk' \in {disk, CutShort(f, m.chunk)} /\ bf' = bf
      /\ Dispatch(dl, Receive(m))
  BY DEF ChunkUnwritable
<1>2. m.chunk \in ChunkOf(f)
  BY <1>1, ArrivedIsMissing
<1>3. /\ dl \in [Files -> Entries]
      /\ \A g \in Files : SoundEntry(g, dl[g]) /\ dl[g].bits \subseteq Verified(g)
  BY DEF TypeOK, SoundInv, SoundDisk
<1>4. /\ \A g \in Files : Verified(g)' = Verified(g)
      /\ \A g \in Files : \A j \in Index \ ChunkOf(g) : disk'[NameOf[g]][j] = Empty
  <2>1. CASE disk' = disk
    BY <2>1 DEF Verified, SoundInv, SoundDisk
  <2>2. CASE disk' = CutShort(f, m.chunk)
    BY <1>2, <2>2, ChunkCut
  <2> QED BY <1>1, <2>1, <2>2
<1>5. \A g \in Files : SoundEntry(g, dl'[g]) /\ dl'[g].bits \subseteq Verified(g)'
  BY <1>1, <1>3, <1>4, DispatchSound
<1> QED BY <1>1, <1>4, <1>5, StorageSound

LEMMA CrashSound ==
    ASSUME TypeOK, SoundInv, NamesDiffer, Crashes
    PROVE  SoundInv'
<1>1. \A g \in Files : dl'[g] = Absent /\ SoundEntry(g, dl'[g]) /\ dl'[g].bits = {}
  <2>1. \A g \in Files : dl'[g] = Absent
    BY DEF Crashes, Crash, CrashInStore, Restarted
  <2>2. Absent.bits = {} /\ \A g \in Files : SoundEntry(g, Absent)
    BY DEF Absent, NewBits, SoundEntry
  <2> QED BY <2>1, <2>2
<1>2. CASE Crash
  BY <1>1, <1>2, EntriesSound DEF Crash
<1>3. ASSUME NEW m, NEW f \in Files, CrashInStore(m, f) PROVE SoundInv'
  <2> DEFINE i == m.chunk
             bits == dl[f].bits \cup {i}
             b == StoredBits(bits, ChunkCount[f])
  <2>1. /\ i \in ChunkOf(f)
        /\ SetBit(dl[f].bits, i, ChunkCount[f]) = bits
    BY <1>3, ArrivedIsMissing DEF CrashInStore
  <2>2. \/ disk' = CutShort(f, i) /\ bf' = bf
        \/ /\ disk' = [disk EXCEPT ![NameOf[f]][i] = f]
           /\ bf' = bf \/ bf' = [bf EXCEPT ![NameOf[f]] = b]
    BY <1>3, <2>1 DEF CrashInStore
  <2>3. CASE disk' = CutShort(f, i) /\ bf' = bf
    <3>1. /\ \A g \in Files : Verified(g)' = Verified(g)
          /\ \A g \in Files : \A j \in Index \ ChunkOf(g) :
                disk'[NameOf[g]][j] = Empty
      BY <2>1, <2>3, ChunkCut
    <3> QED BY <1>1, <2>3, <3>1, StorageSound
  <2>4. CASE /\ disk' = [disk EXCEPT ![NameOf[f]][i] = f]
             /\ bf' = bf \/ bf' = [bf EXCEPT ![NameOf[f]] = b]
    <3>1. /\ \A g \in Files : Verified(g)' = IF g = f THEN Verified(f) \cup {i}
                                             ELSE Verified(g)
          /\ \A g \in Files : \A j \in Index \ ChunkOf(g) :
                disk'[NameOf[g]][j] = Empty
      BY <2>1, <2>4, ChunkWritten
    <3>2. b.bits = bits /\ bits \subseteq Verified(f)'
      BY <3>1 DEF StoredBits, SoundInv, SoundDisk
    <3> HIDE DEF b, bits
    <3> QED BY <1>1, <2>4, <3>1, <3>2, StorageSound
  <2> QED BY <2>2, <2>3, <2>4
<1> QED BY <1>2, <1>3 DEF Crashes
-----------------------------------------------------------------------------
(* The theorems *)

LEMMA InitSound == Init => SoundInv
<1> SUFFICES ASSUME Init PROVE SoundInv
  OBVIOUS
<1>1. \A f \in Files : dl[f] = Absent /\ SoundEntry(f, Absent) /\ Absent.bits = {}
  BY DEF Init, Absent, SoundEntry, NewBits
<1>2. \A n \in Names : bf[n].bits = {}
  BY DEF Init, NoFile
<1>3. \A f \in Files : \A i \in Index : disk[NameOf[f]][i] = Empty
  BY ConstantsAssumption DEF Init
<1>4. \A f \in Files : NameOf[f] \in Names
  BY ConstantsAssumption
<1> QED BY <1>1, <1>2, <1>3, <1>4 DEF SoundInv, SoundDisk, NoStrayBits

LEMMA NextSound ==
    ASSUME TypeOK, SoundInv, NamesDiffer, [Next]_vars
    PROVE  SoundInv'
<1>1. ASSUME UNCHANGED <<dl, storage>> PROVE SoundInv'
  BY <1>1 DEF SoundInv, SoundEntry, SoundDisk, NoStrayBits, Verified, storage
<1>2. ASSUME NEW sent, Dispatch(dl, sent), UNCHANGED storage PROVE SoundInv'
  <2>1. /\ dl \in [Files -> Entries]
        /\ \A f \in Files : SoundEntry(f, dl[f]) /\ dl[f].bits \subseteq Verified(f)
    BY DEF TypeOK, SoundInv, SoundDisk
  <2> QED BY <1>2, <2>1, DispatchedSound
<1>3. CASE UserCommand
  <2>1. ASSUME NEW k \in Numbers, MoveTop(k) \/ MoveUp(k) \/ MoveDown(k)
        PROVE  SoundInv'
    <3>1. UNCHANGED <<dl, storage>>
      BY <2>1 DEF MoveTop, MoveUp, MoveDown, Swap, UserStep
    <3> QED BY <1>1, <3>1
  <2> QED BY <1>3, <2>1, StartSound, CommandSound, RoomSound DEF UserCommand
<1>4. ASSUME NEW m, ResponseIgnored(m) PROVE SoundInv'
  BY <1>1, <1>4 DEF ResponseIgnored, client
<1>5. CASE ChunkArrives
  <2>1. ASSUME NEW m, NEW f \in Files, ChunkRejected(m, f) PROVE SoundInv'
    BY <1>2, <2>1 DEF ChunkRejected
  <2> QED
    BY <1>4, <1>5, <2>1, InNetType, CorruptSound, StoredSound, UnwritableSound
    DEF ChunkArrives
<1>6. CASE BitfieldArrives
  <2>1. ASSUME NEW m, OnBitfieldResponse(m) PROVE SoundInv'
    BY <1>2, <2>1 DEF OnBitfieldResponse
  <2> QED BY <1>4, <1>6, <2>1 DEF BitfieldArrives
<1>7. CASE ChunkAnswered \/ BitfieldAnswered \/ Environment
  <2>1. UNCHANGED <<dl, storage>>
    BY <1>7
    DEF ChunkAnswered, BitfieldAnswered, PeerServesChunk, PeerListsSeeds,
        RequestUnanswered, Environment, FileAnnounced, ProvidersFound, PeerMoves,
        PeerStopsSeeding, PeerStep, client
  <2> QED BY <1>1, <2>1
<1>8. CASE Crashes
  BY <1>8, CrashSound
<1>9. CASE UNCHANGED vars
  BY <1>1, <1>9 DEF vars, client
<1> QED BY <1>3, <1>5, <1>6, <1>7, <1>8, <1>9 DEF Next

THEOREM AlwaysSound ==
    ASSUME NamesDiffer
    PROVE  Spec => []SoundInv
BY InitSound, NextSound, TypeCorrect, PTL DEF Spec

\* Whatever the order of answers, pauses and moves, a download asks for no chunk
\* it already holds, and a pause or its end leaves none under way.
THEOREM InFlightIsRight ==
    ASSUME NamesDiffer
    PROVE  Spec => []InFlightIsMissing
<1>1. SoundInv => InFlightIsMissing
  BY MissingIs DEF SoundInv, SoundEntry, InFlightIsMissing
<1> QED BY <1>1, AlwaysSound, PTL

\* The write order of handle_chunk_response is safe: no crash and no failed write
\* leaves a bit, on disk or in memory, whose chunk is not on disk.
THEOREM BitsAreSafe ==
    ASSUME NamesDiffer
    PROVE  Spec => []BitsNeverAhead
<1>1. SoundInv => BitsNeverAhead
  <2> SUFFICES ASSUME SoundInv PROVE BitsNeverAhead
    OBVIOUS
  <2>1. ASSUME NEW n \in Names, NEW i \in bf[n].bits
        PROVE  i \in Index /\ disk[n][i] \notin {Empty, Torn}
    <3>1. PICK f \in Files : NameOf[f] = n
      BY DEF SoundInv, NoStrayBits
    <3>2. i \in ChunkOf(f) /\ disk[n][i] = f
      BY <3>1 DEF SoundInv, SoundDisk, Verified
    <3> QED BY <3>2, IndexOfChunk, ContentsAssumption
  <2>2. ASSUME NEW f \in Files, NEW i \in dl[f].bits
        PROVE  i \in ChunkOf(f) /\ disk[NameOf[f]][i] = f
    BY DEF SoundInv, SoundDisk, Verified
  <2> QED BY <2>1, <2>2 DEF BitsNeverAhead
<1> QED BY <1>1, AlwaysSound, PTL

\* A completed download has every chunk of its file on disk and nothing more.
THEOREM CompletedIsRight ==
    ASSUME NamesDiffer
    PROVE  Spec => []CompletedIsWhole
<1>1. SoundInv => CompletedIsWhole
  BY IndexOfChunk
  DEF SoundInv, SoundEntry, SoundDisk, Verified, CompletedIsWhole, WholeFile
<1> QED BY <1>1, AlwaysSound, PTL
-----------------------------------------------------------------------------
(* What is known of peers and files *)

\* Without a bitmap of a file nothing is asked for.
LEMMA DispatchUnknown ==
    ASSUME NEW d \in [Files -> Entries], NEW sent, Dispatch(d, sent), NEW f \in Files,
           \A p \in Peers : peerBits'[f][p] = NewBits, d[f].inFlight = {}
    PROVE  dl'[f].inFlight = {}
<1>1. \A i : Sources(f, i)' = {}
  BY DEF Sources, GetBit, NewBits
<1>2. Wanted(d, f) = {}
  BY <1>1 DEF Wanted, Candidates
<1> QED BY <1>2, DispatchEntry

LEMMA CommandKnows ==
    ASSUME TypeOK, SoundInv, KnownIsAnnounced, UserCommand
    PROVE  KnownIsAnnounced'
<1>1. ASSUME NEW f \in Files, StartDownload(f) PROVE KnownIsAnnounced'
  <2>1. UNCHANGED <<room, available, peerBits>>
    BY <1>1 DEF StartDownload
  <2>2. PICK d \in [Files -> Entries] :
           Dispatch(d, net) /\ \A g \in Files : d[g].inFlight \subseteq dl[g].inFlight
    BY <1>1, StartDispatches
  <2>3. \A g \in Files \ available : dl'[g].inFlight = {}
    BY <2>1, <2>2, DispatchUnknown DEF KnownIsAnnounced
  <2> QED BY <2>1, <2>3 DEF KnownIsAnnounced
<1>2. ASSUME UNCHANGED <<room, available, peerBits>>,
             \A f \in Files : dl'[f].inFlight \subseteq dl[f].inFlight
      PROVE  KnownIsAnnounced'
  BY <1>2 DEF KnownIsAnnounced
<1>3. ASSUME NEW k \in Numbers,
             \/ Pause(k) \/ Resume(k) \/ Cancel(k)
             \/ MoveTop(k) \/ MoveUp(k) \/ MoveDown(k)
      PROVE  KnownIsAnnounced'
  <2>1. UNCHANGED <<room, available, peerBits>>
    BY <1>3
    DEF Pause, Resume, Cancel, Change, MoveTop, MoveUp, MoveDown, Swap, UserStep
  <2> QED BY <1>2, <1>3, <2>1, CommandKeepsFlight
<1>5. \A f \in Files : AutoPaused(dl[f]).inFlight = {}
  BY DEF AutoPaused, TypeOK, Entries, SoundInv, SoundEntry
<1>6. ForgetRoom => \A f \in Files : \A p \in Peers : peerBits'[f][p] = NewBits
  BY DEF ForgetRoom, NoPeerBits
<1>7. CASE LeaveRoom
  <2>1. available' = {} /\ \A f \in Files : dl'[f].inFlight = {}
    BY <1>5, <1>7 DEF LeaveRoom, ForgetRoom
  <2> QED BY <1>6, <1>7, <2>1 DEF LeaveRoom, KnownIsAnnounced
<1>8. ASSUME NEW r \in Rooms, JoinRoom(r) PROVE KnownIsAnnounced'
  <2> DEFINE d == IF room = NoRoom THEN dl ELSE [f \in Files |-> AutoPaused(dl[f])]
  <2>1. d \in [Files -> Entries]
    BY AutoPausedType DEF TypeOK
  <2>2. dl' = [f \in Files |-> IF Resumes(d, f) THEN [d[f] EXCEPT !.status = "Active"]
                               ELSE d[f]]
    BY <1>8 DEF JoinRoom
  <2>3. \A f \in Files : d[f].inFlight = {}
    BY <1>5 DEF KnownIsAnnounced
  <2> HIDE DEF d
  <2>4. \A f \in Files : dl'[f].inFlight = {}
    BY <2>1, <2>2, <2>3 DEF Entries
  <2>5. \A f \in Files : \A p \in Peers : peerBits'[f][p] = NewBits
    BY <1>6, <1>8 DEF JoinRoom, KnownIsAnnounced
  <2>6. room' # NoRoom
    BY <1>8, ConstantsAssumption DEF JoinRoom
  <2> QED BY <2>4, <2>5, <2>6 DEF KnownIsAnnounced
<1> QED BY <1>1, <1>3, <1>7, <1>8 DEF UserCommand

LEMMA ResponseKnows ==
    ASSUME TypeOK, SoundInv, KnownIsAnnounced, ChunkArrives \/ BitfieldArrives
    PROVE  KnownIsAnnounced'
<1>1. ASSUME NEW m, ResponseIgnored(m) PROVE KnownIsAnnounced'
  BY <1>1 DEF ResponseIgnored, client, KnownIsAnnounced
<1>2. ASSUME NEW d \in [Files -> Entries], NEW sent, Dispatch(d, sent),
             UNCHANGED <<room, available>>,
             \A f \in Files \ available :
                d[f].inFlight = {} /\ \A p \in Peers : peerBits'[f][p] = NewBits
      PROVE  KnownIsAnnounced'
  <2>1. \A f \in Files \ available : dl'[f].inFlight = {}
    BY <1>2, DispatchUnknown
  <2> QED BY <1>2, <2>1 DEF KnownIsAnnounced
<1>3. \A f \in Files \ available :
         dl[f].inFlight = {} /\ \A p \in Peers : peerBits[f][p] = NewBits
  BY DEF KnownIsAnnounced
<1>4. dl \in [Files -> Entries]
  BY DEF TypeOK
<1>5. ASSUME NEW m, OnBitfieldResponse(m) PROVE KnownIsAnnounced'
  <2>1. \A f \in Files \ available : peerBits'[f] = peerBits[f]
    BY <1>5 DEF OnBitfieldResponse
  <2>2. Dispatch(dl, Receive(m)) /\ UNCHANGED <<room, available>>
    BY <1>5 DEF OnBitfieldResponse
  <2> QED BY <1>2, <1>3, <1>4, <2>1, <2>2
<1>6. ASSUME NEW m, NEW f \in Files, ChunkRejected(m, f) \/ ChunkUnwritable(m, f)
      PROVE  KnownIsAnnounced'
  <2>1. Dispatch(dl, Receive(m)) /\ UNCHANGED <<room, available, peerBits>>
    BY <1>6 DEF ChunkRejected, ChunkUnwritable
  <2> QED BY <1>2, <1>3, <1>4, <2>1
<1>7. ASSUME NEW m \in ChunkResponses, NEW f \in Files,
             ChunkCorrupt(m, f) \/ ChunkStored(m, f) \/ BitsUnflushed(m, f)
      PROVE  KnownIsAnnounced'
  <2>1. UNCHANGED <<room, available, peerBits>>
    BY <1>7 DEF ChunkCorrupt, ChunkStored, BitsUnflushed
  <2>2. PICK d \in [Files -> Entries] :
           /\ Dispatch(d, Receive(m))
           /\ \A g \in Files : d[g].inFlight \subseteq dl[g].inFlight
    BY <1>7, ArrivalDispatches
  <2> QED BY <1>2, <1>3, <2>1, <2>2
<1> QED BY <1>1, <1>5, <1>6, <1>7, InNetType DEF ChunkArrives, BitfieldArrives

\* Outside a room nothing is known or asked for, and inside one only of files announced
\* since the client entered it, although answers of an earlier room still arrive.
THEOREM KnownIsRight ==
    ASSUME NamesDiffer
    PROVE  Spec => []KnownIsAnnounced
<1>1. Init => KnownIsAnnounced
  BY DEF Init, KnownIsAnnounced, NoPeerBits, Absent
<1>2. TypeOK /\ SoundInv /\ KnownIsAnnounced /\ [Next]_vars
      => KnownIsAnnounced'
  <2> SUFFICES ASSUME TypeOK, SoundInv, KnownIsAnnounced, [Next]_vars
               PROVE  KnownIsAnnounced'
    OBVIOUS
  <2>1. ASSUME UNCHANGED <<room, peerBits, dl>>, available \subseteq available',
               room = NoRoom => available' = available
        PROVE  KnownIsAnnounced'
    BY <2>1 DEF KnownIsAnnounced
  <2>2. CASE ChunkAnswered \/ BitfieldAnswered \/ Environment \/ UNCHANGED vars
    <3>1. /\ UNCHANGED <<room, peerBits, dl>> /\ available \subseteq available'
          /\ room = NoRoom => available' = available
      BY <2>2
      DEF ChunkAnswered, BitfieldAnswered, PeerServesChunk, PeerListsSeeds,
          RequestUnanswered, Environment, FileAnnounced, ProvidersFound, PeerMoves,
          PeerStopsSeeding, PeerStep, client, vars
    <3> QED BY <2>1, <3>1
  <2>3. CASE Crashes
    <3>1. Restarted
      BY <2>3 DEF Crashes, Crash, CrashInStore
    <3>2. /\ available' = {}
          /\ \A f \in Files : dl'[f].inFlight = {}
          /\ \A f \in Files : \A p \in Peers : peerBits'[f][p] = NewBits
      BY <3>1 DEF Restarted, NoPeerBits, Absent
    <3> QED BY <3>2 DEF KnownIsAnnounced
  <2> QED BY <2>2, <2>3, CommandKnows, ResponseKnows DEF Next
<1> QED BY <1>1, <1>2, TypeCorrect, AlwaysSound, PTL DEF Spec
-----------------------------------------------------------------------------
(* The client implements the store of verified chunks *)

\* A step that stores nothing and completes no download.
LEMMA StoreForgets ==
    ASSUME \A f \in Files : Verified(f)' = Verified(f),
           \A f \in Files : dl'[f].status = "Completed" => dl[f].status = "Completed"
    PROVE  Store!Next
BY DEF Store!Next, Store!Forget

\* A step that stores one chunk; the download it belongs to may be complete.
LEMMA StoreGrows ==
    ASSUME NEW f \in Files, NEW i \in ChunkOf(f),
           \A g \in Files : Verified(g)' = IF g = f THEN Verified(f) \cup {i}
                                           ELSE Verified(g),
           \A g \in Files \ {f} :
              dl'[g].status = "Completed" => dl[g].status = "Completed",
           dl'[f].status = "Completed" => Verified(f)' = ChunkOf(f)
    PROVE  Store!Next
<1> DEFINE have == [g \in Files |-> Verified(g)]
           done == {g \in Files : dl[g].status = "Completed"}
<1>1. have' = [have EXCEPT ![f] = @ \cup {i}]
  OBVIOUS
<1>2. done' \subseteq done \cup {f}
  OBVIOUS
<1>3. f \in done' => have'[f] = Store!Chunks(ChunkCount[f])
  BY DEF ChunkOf, Chunks, Store!Chunks
<1>4. Store!StoreChunk(f, i)
  BY <1>1, <1>2, <1>3 DEF Store!StoreChunk
<1>5. i \in Store!Chunks(ChunkCount[f])
  BY DEF ChunkOf, Chunks, Store!Chunks
<1> QED BY <1>4, <1>5 DEF Store!Next

LEMMA DispatchCompletesNothing ==
    ASSUME NEW d \in [Files -> Entries], NEW sent, Dispatch(d, sent)
    PROVE  \A f \in Files : dl'[f].status = "Completed" => d[f].status = "Completed"
BY DispatchEntry

LEMMA CommandForgets ==
    ASSUME TypeOK, UserCommand
    PROVE  \A f \in Files : dl'[f].status = "Completed" => dl[f].status = "Completed"
<1>1. ASSUME NEW f \in Files, StartDownload(f), NEW g \in Files,
             dl'[g].status = "Completed"
      PROVE  dl[g].status = "Completed"
  <2> DEFINE e == [EntryOf(f) EXCEPT !.status = "Active"]
             d == [dl EXCEPT ![f] = e]
  <2>1. d \in [Files -> Entries] /\ Dispatch(d, net)
    BY <1>1, EntryOfType DEF StartDownload
  <2>2. d[g].status = "Completed"
    <3> HIDE DEF d
    <3> QED BY <1>1, <2>1, DispatchCompletesNothing
  <2>3. e.status = "Active"
    BY EntryOfType DEF Entries
  <2> HIDE DEF e
  <2> QED BY <2>2, <2>3 DEF TypeOK
<1>2. ASSUME NEW k \in Numbers, Pause(k) \/ Resume(k) \/ Cancel(k), NEW g \in Files,
             dl'[g].status = "Completed"
      PROVE  dl[g].status = "Completed"
  <2> DEFINE f == queue[Position(k)]
             e1 == [dl[f] EXCEPT !.status = "ManualPaused", !.inFlight = {}]
             e2 == [dl[f] EXCEPT !.status = "Active"]
  <2>1. f \in Files
    BY <1>2 DEF Pause, Resume, Cancel, Change, TypeOK
  <2>2. \E e \in {e1, e2, Absent} : dl' = [dl EXCEPT ![f] = e]
    <3>1. CASE Pause(k)
      BY <2>1, <3>1 DEF Pause, Change, TypeOK
    <3>2. CASE Resume(k)
      BY <2>1, <3>2 DEF Resume, Change, TypeOK
    <3>3. CASE Cancel(k)
      BY <2>1, <3>3 DEF Cancel, TypeOK
    <3> QED BY <1>2, <3>1, <3>2, <3>3
  <2>3. \A e \in {e1, e2, Absent} : e.status # "Completed"
    <3>1. dl[f] \in Entries
      BY <2>1 DEF TypeOK
    <3>2. e1.status = "ManualPaused" /\ e2.status = "Active"
      BY <3>1 DEF Entries
    <3>3. Absent.status = "Absent"
      BY DEF Absent
    <3> QED BY <3>2, <3>3
  <2> HIDE DEF f, e1, e2
  <2> QED BY <1>2, <2>1, <2>2, <2>3 DEF TypeOK
<1>3. ASSUME NEW k \in Numbers, MoveTop(k) \/ MoveUp(k) \/ MoveDown(k) PROVE dl' = dl
  BY <1>3 DEF MoveTop, MoveUp, MoveDown, Swap
<1>4. \A e \in Entries : AutoPaused(e).status = "Completed" => e.status = "Completed"
  BY DEF AutoPaused, Entries
<1>5. dl \in [Files -> Entries]
  BY DEF TypeOK
<1>6. CASE LeaveRoom
  BY <1>4, <1>5, <1>6 DEF LeaveRoom
<1>7. ASSUME NEW r \in Rooms, JoinRoom(r), NEW g \in Files, dl'[g].status = "Completed"
      PROVE  dl[g].status = "Completed"
  <2> DEFINE d == IF room = NoRoom THEN dl ELSE [f \in Files |-> AutoPaused(dl[f])]
  <2>1. d \in [Files -> Entries]
    BY <1>5, AutoPausedType
  <2>2. d[g].status = "Completed" => dl[g].status = "Completed"
    BY <1>4, <1>5
  <2>3. dl' = [f \in Files |-> IF Resumes(d, f) THEN [d[f] EXCEPT !.status = "Active"]
                               ELSE d[f]]
    BY <1>7 DEF JoinRoom
  <2> HIDE DEF d
  <2>4. d[g].status = "Completed"
    BY <1>7, <2>1, <2>3 DEF Entries
  <2> QED BY <2>2, <2>4
<1> QED BY <1>1, <1>2, <1>3, <1>6, <1>7 DEF UserCommand

LEMMA ResponseStores ==
    ASSUME TypeOK, SoundInv, NamesDiffer, ChunkArrives \/ BitfieldArrives
    PROVE  Store!Next
<1>0. dl \in [Files -> Entries]
  BY DEF TypeOK
<1>1. ASSUME UNCHANGED disk,
             \A f \in Files : dl'[f].status = "Completed" => dl[f].status = "Completed"
      PROVE  Store!Next
  <2>1. \A f \in Files : Verified(f)' = Verified(f)
    BY <1>1 DEF Verified
  <2> QED BY <1>1, <2>1, StoreForgets
<1>2. ASSUME NEW m, ResponseIgnored(m) PROVE Store!Next
  BY <1>1, <1>2 DEF ResponseIgnored, client, storage
<1>3. ASSUME NEW sent, Dispatch(dl, sent), UNCHANGED disk PROVE Store!Next
  BY <1>0, <1>1, <1>3, DispatchCompletesNothing
<1>4. ASSUME NEW m, OnBitfieldResponse(m) \/ \E f \in Files : ChunkRejected(m, f)
      PROVE  Store!Next
  <2>1. Dispatch(dl, Receive(m)) /\ UNCHANGED disk
    BY <1>4 DEF OnBitfieldResponse, ChunkRejected, storage
  <2> QED BY <1>3, <2>1
<1>5. ASSUME NEW m, NEW f \in Files, ChunkCorrupt(m, f) PROVE Store!Next
  <2> DEFINE e == [dl[f] EXCEPT !.inFlight = @ \ {m.chunk}]
             d == [dl EXCEPT ![f] = e]
  <2>1. Dispatch(d, Receive(m)) /\ UNCHANGED disk
    BY <1>5 DEF ChunkCorrupt, storage
  <2>2. e \in Entries /\ e.status = dl[f].status
    BY <1>0 DEF Entries
  <2> HIDE DEF e
  <2>3. /\ d \in [Files -> Entries]
        /\ \A g \in Files : d[g].status = dl[g].status
    BY <1>0, <2>2
  <2> HIDE DEF d
  <2> QED BY <1>1, <2>1, <2>3, DispatchCompletesNothing
<1>6. ASSUME NEW m, NEW f \in Files, ChunkUnwritable(m, f) PROVE Store!Next
  <2>1. /\ Opens(m, f) /\ Dispatch(dl, Receive(m))
        /\ disk' = disk \/ disk' = CutShort(f, m.chunk)
    BY <1>6 DEF ChunkUnwritable
  <2>2. m.chunk \in ChunkOf(f)
    BY <2>1, ArrivedIsMissing
  <2>3. CASE disk' = CutShort(f, m.chunk)
    BY <1>0, <2>1, <2>2, <2>3, ChunkCut, DispatchCompletesNothing, StoreForgets
  <2> QED BY <1>3, <2>1, <2>3
<1>7. ASSUME NEW m \in ChunkResponses, NEW f \in Files,
             ChunkStored(m, f) \/ BitsUnflushed(m, f)
      PROVE  Store!Next
  <2> DEFINE i == m.chunk
             bits == dl[f].bits \cup {i}
             e(s) == [status |-> s, bits |-> bits, inFlight |-> dl[f].inFlight \ {i}]
  <2>1. /\ Opens(m, f) /\ i \in ChunkOf(f) /\ dl[f].status = "Active"
        /\ SetBit(dl[f].bits, i, ChunkCount[f]) = bits
        /\ disk' = [disk EXCEPT ![NameOf[f]][i] = f]
    BY <1>7, ArrivedIsMissing DEF ChunkStored, BitsUnflushed
  <2>2. bits \subseteq ChunkOf(f) /\ dl[f].bits \subseteq Verified(f)
    BY <2>1 DEF SoundInv, SoundEntry, SoundDisk
  <2>3. PICK s \in {"Active", "Completed"} :
           /\ Dispatch([dl EXCEPT ![f] = e(s)], Receive(m))
           /\ s = "Completed" => IsComplete(bits, ChunkCount[f])
    <3>1. CASE ChunkStored(m, f)
      BY <2>1, <3>1 DEF ChunkStored
    <3>2. CASE BitsUnflushed(m, f)
      BY <2>1, <3>2 DEF BitsUnflushed
    <3> QED BY <1>7, <3>1, <3>2
  <2>4. s = "Completed" => bits = ChunkOf(f)
    BY <2>2, <2>3, AllBitsSet
  <2>5. e(s) \in Entries
    BY <2>1, <2>4, StoredEntry
  <2>6. \A g \in Files : Verified(g)' = IF g = f THEN Verified(f) \cup {i}
                                        ELSE Verified(g)
    BY <2>1, ChunkWritten
  <2> DEFINE d == [dl EXCEPT ![f] = e(s)]
  <2>7. /\ d \in [Files -> Entries] /\ d[f].status = s
        /\ \A g \in Files \ {f} : d[g] = dl[g]
    <3>1. e(s).status = s
      OBVIOUS
    <3> HIDE DEF e
    <3> QED BY <1>0, <2>5, <3>1
  <2>8. Dispatch(d, Receive(m))
    BY <2>3
  <2> HIDE DEF d, e
  <2>9. \A g \in Files : dl'[g].status = "Completed" => d[g].status = "Completed"
    BY <2>7, <2>8, DispatchCompletesNothing
  <2>10. dl'[f].status = "Completed" => Verified(f)' = ChunkOf(f)
    <3>1. Verified(f)' \subseteq ChunkOf(f)
      BY DEF Verified
    <3> QED BY <2>2, <2>4, <2>6, <2>7, <2>9, <3>1
  <2> HIDE DEF bits
  <2> QED BY <2>1, <2>6, <2>7, <2>9, <2>10, StoreGrows
<1> QED BY <1>2, <1>4, <1>5, <1>6, <1>7, InNetType DEF ChunkArrives, BitfieldArrives

LEMMA CrashStores ==
    ASSUME TypeOK, SoundInv, NamesDiffer, Crashes
    PROVE  Store!Next
<1>1. \A f \in Files : dl'[f].status # "Completed"
  <2>1. Restarted
    BY DEF Crashes, Crash, CrashInStore
  <2> QED BY <2>1 DEF Restarted, Absent
<1>2. ASSUME \A f \in Files : Verified(f)' = Verified(f) PROVE Store!Next
  BY <1>1, <1>2, StoreForgets
<1>3. CASE Crash
  <2>1. \A f \in Files : Verified(f)' = Verified(f)
    BY <1>3 DEF Crash, storage, Verified
  <2> QED BY <1>2, <2>1
<1>4. ASSUME NEW m, NEW f \in Files, CrashInStore(m, f) PROVE Store!Next
  <2>1. /\ m.chunk \in ChunkOf(f)
        /\ \/ disk' = CutShort(f, m.chunk)
           \/ disk' = [disk EXCEPT ![NameOf[f]][m.chunk] = f]
    BY <1>4, ArrivedIsMissing DEF CrashInStore
  <2>2. CASE disk' = CutShort(f, m.chunk)
    BY <1>2, <2>1, <2>2, ChunkCut
  <2>3. CASE disk' = [disk EXCEPT ![NameOf[f]][m.chunk] = f]
    <3>1. \A g \in Files : Verified(g)' = IF g = f THEN Verified(f) \cup {m.chunk}
                                          ELSE Verified(g)
      BY <2>1, <2>3, ChunkWritten
    <3> QED BY <1>1, <2>1, <3>1, StoreGrows
  <2> QED BY <2>1, <2>2, <2>3
<1> QED BY <1>3, <1>4 DEF Crashes

\* Every step of the client is one of the store or a stutter: whatever crashes and
\* write errors come between, a chunk verified and stored is never lost, chunks
\* arrive one at a time, and no download is complete before its last chunk is stored.
THEOREM StoreImplemented ==
    ASSUME NamesDiffer
    PROVE  Spec => ImplementsStore
<1>1. Init => Store!Init
  <2> SUFFICES ASSUME Init PROVE Store!Init
    OBVIOUS
  <2>1. \A f \in Files : Verified(f) = {}
    <3>1. \A f \in Files : \A i \in ChunkOf(f) : disk[NameOf[f]][i] = Empty
      BY IndexOfChunk, ConstantsAssumption DEF Init
    <3> QED BY <3>1, ContentsAssumption DEF Verified
  <2>2. \A f \in Files : dl[f].status # "Completed"
    BY DEF Init, Absent
  <2> QED BY <2>1, <2>2 DEF Store!Init
<1>2. TypeOK /\ SoundInv /\ [Next]_vars
      => [Store!Next]_<<[f \in Files |-> Verified(f)],
                        {f \in Files : dl[f].status = "Completed"}>>
  <2> SUFFICES ASSUME TypeOK, SoundInv, [Next]_vars
               PROVE  \/ Store!Next
                      \/ UNCHANGED <<[f \in Files |-> Verified(f)],
                                     {f \in Files : dl[f].status = "Completed"}>>
    OBVIOUS
  <2>1. CASE UserCommand
    <3>1. UNCHANGED disk
      BY <2>1
      DEF UserCommand, StartDownload, Pause, Resume, Change, Cancel, MoveTop, MoveUp,
          MoveDown, Swap, UserStep, LeaveRoom, JoinRoom, storage
    <3>2. \A f \in Files : Verified(f)' = Verified(f)
      BY <3>1 DEF Verified
    <3> QED BY <2>1, <3>2, CommandForgets, StoreForgets
  <2>2. CASE ChunkAnswered \/ BitfieldAnswered \/ Environment \/ UNCHANGED vars
    <3>1. UNCHANGED <<dl, disk>>
      BY <2>2
      DEF ChunkAnswered, BitfieldAnswered, PeerServesChunk, PeerListsSeeds,
          RequestUnanswered, Environment, FileAnnounced, ProvidersFound, PeerMoves,
          PeerStopsSeeding, PeerStep, client, storage, vars
    <3> QED BY <3>1 DEF Verified
  <2> QED BY <2>1, <2>2, ResponseStores, CrashStores DEF Next
<1> QED BY <1>1, <1>2, TypeCorrect, AlwaysSound, PTL
   DEF Spec, ImplementsStore, Store!Spec
-----------------------------------------------------------------------------
(* An answer for every chunk in flight *)

\* The environment AnswerComes is about: peers that stay in their room, keep what
\* they seed and are reached, a disk that takes every write, and one room.
Reliable == Fickle = {} /\ Lossy = {} /\ DiskFaults = FALSE
OneRoom  == \A r, s \in Rooms : r = s

\* A request or a response for a chunk of index i.
IsFor(m, i) == m.type \in {"ChunkRequest", "ChunkResponse"} /\ m.chunk = i

\* The messages of the bag B for index i, the copies of one told apart by a number.
Tokens(B, i) == UNION {{<<m, k>> : k \in 1 .. B[m]} : m \in {m \in BagToSet(B) : IsFor(m, i)}}

LEMMA TokensAre == \A i : UnderWay(i) = Tokens(net, i)
BY DEF UnderWay, Tokens, InNet, IsFor

LEMMA TokenIn ==
    ASSUME NEW B, IsABag(B), NEW i, NEW t
    PROVE  t \in Tokens(B, i)
           <=> \E m, k : t = <<m, k>> /\ IsFor(m, i) /\ k \in Nat \ {0} /\ k <= Count(B, m)
<1>1. \A m \in DOMAIN B : B[m] \in Nat /\ Count(B, m) = B[m]
  BY DEF IsABag, Count
<1>2. \A m : m \notin DOMAIN B => Count(B, m) = 0
  BY DEF Count
<1>3. \A m, k : k \in Nat \ {0} /\ k <= Count(B, m)
                <=> m \in DOMAIN B /\ k \in 1 .. B[m]
  BY <1>1, <1>2
<1>4. t \in Tokens(B, i)
      <=> \E m \in DOMAIN B : IsFor(m, i) /\ \E k \in 1 .. B[m] : t = <<m, k>>
  BY DEF Tokens, BagToSet
<1> QED BY <1>3, <1>4

\* Sending S adds a message for each member that is for i.
LEMMA TokensSent ==
    ASSUME NEW B, IsABag(B), NEW S, NEW i
    PROVE  LET New == {<<m, Count(B, m) + 1>> : m \in {m \in S : IsFor(m, i)}}
           IN  /\ Tokens(B (+) SetToBag(S), i) = Tokens(B, i) \cup New
               /\ Tokens(B, i) \cap New = {}
<1> DEFINE New == {<<m, Count(B, m) + 1>> : m \in {m \in S : IsFor(m, i)}}
           Sum == B (+) SetToBag(S)
<1>1. IsABag(Sum) /\ \A m : Count(Sum, m) = Count(B, m) + (IF m \in S THEN 1 ELSE 0)
  BY CountOfSum
<1>2. \A m : Count(B, m) \in Nat
  BY DEF IsABag, Count
<1> HIDE DEF Sum
<1>3. ASSUME NEW t PROVE t \in Tokens(Sum, i) <=> t \in Tokens(B, i) \cup New
  <2>1. ASSUME NEW m, NEW k, k \in Nat \ {0}
        PROVE  k <= Count(Sum, m)
               <=> k <= Count(B, m) \/ (m \in S /\ k = Count(B, m) + 1)
    BY <1>1, <1>2, <2>1
  <2>2. \A m : Count(B, m) + 1 \in Nat \ {0}
    BY <1>2
  <2>3. t \in New <=> \E m, k : /\ t = <<m, k>> /\ IsFor(m, i) /\ k \in Nat \ {0}
                                /\ m \in S /\ k = Count(B, m) + 1
    BY <2>2
  <2>4. t \in Tokens(B, i)
        <=> \E m, k : t = <<m, k>> /\ IsFor(m, i) /\ k \in Nat \ {0} /\ k <= Count(B, m)
    BY TokenIn
  <2>5. t \in Tokens(Sum, i)
        <=> \E m, k : t = <<m, k>> /\ IsFor(m, i) /\ k \in Nat \ {0} /\ k <= Count(Sum, m)
    BY <1>1, TokenIn
  <2> HIDE DEF New
  <2> QED BY <2>1, <2>3, <2>4, <2>5
<1>4. ASSUME NEW t, t \in Tokens(B, i), t \in New PROVE FALSE
  <2>1. PICK m, k : t = <<m, k>> /\ k <= Count(B, m)
    BY <1>4, TokenIn
  <2>2. PICK n \in S : t = <<n, Count(B, n) + 1>>
    BY <1>4
  <2>3. m = n /\ k = Count(B, n) + 1
    BY <2>1, <2>2
  <2> QED BY <1>2, <2>1, <2>3
<1> QED BY <1>3, <1>4 DEF Sum

\* Receiving r takes one message, of its index if it is for a chunk.
LEMMA TokensReceived ==
    ASSUME NEW B, IsABag(B), NEW r \in BagToSet(B), NEW i
    PROVE  LET Rest == B (-) SetToBag({r})
           IN  /\ IsABag(Rest)
               /\ <<r, B[r]>> \in Tokens(B, i) <=> IsFor(r, i)
               /\ Tokens(Rest, i) = Tokens(B, i) \ {<<r, B[r]>>}
<1> DEFINE Rest == B (-) SetToBag({r})
<1>1. IsABag(Rest)
  BY CountOfRest
<1>2. \A m : Count(B, m) \in Nat
  BY DEF IsABag, Count
<1>3. r \in DOMAIN B /\ B[r] = Count(B, r) /\ B[r] \in Nat \ {0}
  BY DEF IsABag, Count, BagToSet
<1>4. \A m : Count(Rest, m) = Count(B, m) - (IF m = r THEN 1 ELSE 0)
  <2>1. \A m \in DOMAIN B : B[m] \in Nat /\ B[m] > 0
    BY DEF IsABag
  <2>2. DOMAIN Rest = {m \in DOMAIN B : B[m] - (IF m = r THEN 1 ELSE 0) > 0}
    BY <2>1 DEF (-), SetToBag
  <2>3. \A m \in DOMAIN Rest : Rest[m] = B[m] - (IF m = r THEN 1 ELSE 0)
    BY <2>1 DEF (-), SetToBag
  <2> HIDE DEF Rest
  <2> QED BY <1>3, <2>1, <2>2, <2>3 DEF Count
<1> HIDE DEF Rest
<1>5. <<r, B[r]>> \in Tokens(B, i) <=> IsFor(r, i)
  <2>1. <<r, B[r]>> \in Tokens(B, i)
        <=> \E m, k : /\ <<r, B[r]>> = <<m, k>> /\ IsFor(m, i) /\ k \in Nat \ {0}
                      /\ k <= Count(B, m)
    BY TokenIn
  <2> QED BY <1>2, <1>3, <2>1
<1>6. ASSUME NEW t PROVE t \in Tokens(Rest, i) <=> t \in Tokens(B, i) /\ t # <<r, B[r]>>
  <2>1. ASSUME NEW m, NEW k, k \in Nat \ {0}
        PROVE  k <= Count(Rest, m) <=> k <= Count(B, m) /\ ~(m = r /\ k = B[r])
    BY <1>2, <1>3, <1>4, <2>1
  <2>2. t \in Tokens(B, i)
        <=> \E m, k : t = <<m, k>> /\ IsFor(m, i) /\ k \in Nat \ {0} /\ k <= Count(B, m)
    BY TokenIn
  <2>3. t \in Tokens(Rest, i)
        <=> \E m, k : t = <<m, k>> /\ IsFor(m, i) /\ k \in Nat \ {0} /\ k <= Count(Rest, m)
    BY <1>1, TokenIn
  <2>4. \A m, k : t = <<m, k>> => (t # <<r, B[r]>> <=> ~(m = r /\ k = B[r]))
    OBVIOUS
  <2> QED BY <2>1, <2>2, <2>3, <2>4
<1> QED BY <1>1, <1>5, <1>6 DEF Rest

\* The downloads of the entries d that have asked for index i.
Waiting(d, i) == {f \in Files : i \in d[f].inFlight}

\* The messages of B can be counted, and there is one for each wait.
Answered(B, d, i) ==
    /\ IsFiniteSet(Tokens(B, i))
    /\ Cardinality(Waiting(d, i)) <= Cardinality(Tokens(B, i))

\* Fewer waits leave as many answers.
LEMMA FewerWait ==
    ASSUME NEW B, NEW d, NEW e, NEW i, Answered(B, d, i),
           \A f \in Files : e[f].inFlight \subseteq d[f].inFlight
    PROVE  Answered(B, e, i)
<1>1. Waiting(e, i) \in SUBSET Waiting(d, i) /\ IsFiniteSet(Waiting(d, i))
  BY FS_Subset, ConstantsAssumption DEF Waiting
<1>2. Cardinality(Waiting(e, i)) <= Cardinality(Waiting(d, i)) /\ IsFiniteSet(Waiting(e, i))
  BY <1>1, FS_Subset
<1>3. /\ Cardinality(Waiting(e, i)) \in Nat /\ Cardinality(Waiting(d, i)) \in Nat
      /\ Cardinality(Tokens(B, i)) \in Nat
  BY <1>1, <1>2, FS_CardinalityType DEF Answered
<1> QED BY <1>2, <1>3 DEF Answered

\* A dispatch asks for every chunk it puts in flight.
LEMMA DispatchAnswers ==
    ASSUME NEW d \in [Files -> Entries], NEW sent, Dispatch(d, sent), IsABag(sent),
           NEW i \in Index, Answered(sent, d, i)
    PROVE  Answered(net', dl', i)
<1> DEFINE W == {w \in Files \X Index : w[2] \in Wanted(d, w[1])}
<1>1. PICK ask \in [W -> Peers] :
         net' = sent (+) SetToBag({ChunkRequest(ask[w], w[1], w[2]) : w \in W})
  BY DEF Dispatch
<1> DEFINE Asked == {ChunkRequest(ask[w], w[1], w[2]) : w \in W}
           Asking == {f \in Files : i \in Wanted(d, f)}
           New == {<<m, Count(sent, m) + 1>> : m \in {m \in Asked : IsFor(m, i)}}
           request == [f \in Asking |-> ChunkRequest(ask[<<f, i>>], f, i)]
           token == [f \in Asking |-> <<request[f], Count(sent, request[f]) + 1>>]
<1>2. \A f \in Asking : <<f, i>> \in W
  OBVIOUS
<1>3. \A f \in Asking : request[f] \in Asked /\ IsFor(request[f], i) /\ request[f].file = f
  <2> SUFFICES ASSUME NEW f \in Asking
               PROVE  request[f] \in Asked /\ IsFor(request[f], i) /\ request[f].file = f
    OBVIOUS
  <2>1. <<f, i>> \in W /\ <<f, i>>[1] = f /\ <<f, i>>[2] = i
    BY <1>2
  <2>2. request[f] = ChunkRequest(ask[<<f, i>>], f, i)
    OBVIOUS
  <2> HIDE DEF request, W, Asking
  <2>3. request[f] \in Asked
    BY <2>1, <2>2
  <2>4. IsFor(request[f], i) /\ request[f].file = f
    BY <2>2 DEF ChunkRequest, IsFor
  <2> QED BY <2>3, <2>4
<1>4. ASSUME NEW m \in Asked, IsFor(m, i) PROVE \E f \in Asking : m = request[f]
  <2>1. PICK w \in W : m = ChunkRequest(ask[w], w[1], w[2])
    OBVIOUS
  <2>2. w[2] = i /\ w = <<w[1], i>> /\ w[1] \in Asking
    BY <1>4, <2>1 DEF ChunkRequest, IsFor
  <2> QED BY <2>1, <2>2
<1> HIDE DEF request
<1>5. token \in Bijection(Asking, New)
  <2>1. \A f \in Asking : token[f] \in New
    BY <1>3
  <2>2. \A f, g \in Asking : token[f] = token[g] => f = g
    <3>1. \A f, g \in Asking : token[f] = token[g] => request[f] = request[g]
      OBVIOUS
    <3> QED BY <1>3, <3>1
  <2>3. \A t \in New : \E f \in Asking : token[f] = t
    BY <1>4
  <2> HIDE DEF token, New
  <2>4. DOMAIN token = Asking /\ token = [f \in Asking |-> token[f]]
    BY DEF token
  <2> QED BY <2>1, <2>2, <2>3, <2>4 DEF Bijection, Injection, Surjection, IsInjective
<1>6. IsFiniteSet(Asking) /\ IsFiniteSet(Waiting(d, i))
  BY FS_Subset, ConstantsAssumption DEF Waiting
<1>7. IsFiniteSet(New) /\ Cardinality(New) = Cardinality(Asking)
  BY <1>5, <1>6, FS_Bijection DEF ExistsBijection
<1>8. Tokens(net', i) = Tokens(sent, i) \cup New /\ Tokens(sent, i) \cap New = {}
  <2> HIDE DEF Asked
  <2>1. /\ Tokens(sent (+) SetToBag(Asked), i) = Tokens(sent, i) \cup New
        /\ Tokens(sent, i) \cap New = {}
    BY TokensSent
  <2>2. net' = sent (+) SetToBag(Asked)
    BY <1>1 DEF Asked
  <2> QED BY <2>1, <2>2
<1> HIDE DEF W
<1> HIDE DEF New, token
<1>9. Waiting(dl', i) = Waiting(d, i) \cup Asking
  BY DispatchEntry DEF Waiting
<1> HIDE DEF Asking
<1>10. /\ IsFiniteSet(Tokens(net', i))
       /\ Cardinality(Tokens(net', i)) = Cardinality(Tokens(sent, i)) + Cardinality(New)
  <2>1. Cardinality(Tokens(sent, i) \cap New) = 0
    BY <1>8, FS_EmptySet
  <2>2. Cardinality(Tokens(sent, i)) \in Nat /\ Cardinality(New) \in Nat
    BY <1>7, FS_CardinalityType DEF Answered
  <2>3. /\ IsFiniteSet(Tokens(sent, i) \cup New)
        /\ Cardinality(Tokens(sent, i) \cup New)
           = Cardinality(Tokens(sent, i)) + Cardinality(New)
             - Cardinality(Tokens(sent, i) \cap New)
    BY <1>7, FS_Union DEF Answered
  <2> QED BY <1>8, <2>1, <2>2, <2>3
<1>11. Cardinality(Waiting(dl', i)) <= Cardinality(Waiting(d, i)) + Cardinality(Asking)
  <2>1. IsFiniteSet(Waiting(d, i) \cap Asking)
    BY <1>6, FS_Subset
  <2>2. /\ Cardinality(Waiting(d, i) \cap Asking) \in Nat
        /\ Cardinality(Waiting(d, i)) \in Nat /\ Cardinality(Asking) \in Nat
    BY <1>6, <2>1, FS_CardinalityType
  <2>3. Cardinality(Waiting(d, i) \cup Asking)
        = Cardinality(Waiting(d, i)) + Cardinality(Asking)
          - Cardinality(Waiting(d, i) \cap Asking)
    BY <1>6, FS_Union
  <2> QED BY <1>9, <2>2, <2>3
<1>12. /\ Cardinality(Waiting(d, i)) \in Nat /\ Cardinality(Asking) \in Nat
       /\ Cardinality(Tokens(sent, i)) \in Nat
       /\ Cardinality(Waiting(dl', i)) \in Nat
  <2>1. IsFiniteSet(Waiting(d, i) \cup Asking)
    BY <1>6, FS_Union
  <2> QED BY <1>6, <1>9, <2>1, FS_CardinalityType DEF Answered
<1> QED BY <1>7, <1>10, <1>11, <1>12 DEF Answered

\* Taking a message that is for no chunk of index i, and sending none.
LEMMA OtherReceived ==
    ASSUME NEW B, IsABag(B), NEW r \in BagToSet(B), NEW d, NEW i, Answered(B, d, i),
           ~IsFor(r, i)
    PROVE  Answered(B (-) SetToBag({r}), d, i)
<1> DEFINE t == <<r, B[r]>>
<1>1. t \notin Tokens(B, i) /\ Tokens(B (-) SetToBag({r}), i) = Tokens(B, i) \ {t}
  BY TokensReceived
<1> HIDE DEF t
<1>2. Tokens(B (-) SetToBag({r}), i) = Tokens(B, i)
  BY <1>1
<1> QED BY <1>2 DEF Answered

LEMMA OthersSent ==
    ASSUME NEW B, IsABag(B), NEW S, NEW d, NEW i, Answered(B, d, i),
           \A m \in S : ~IsFor(m, i)
    PROVE  Answered(B (+) SetToBag(S), d, i)
<1>1. Tokens(B (+) SetToBag(S), i) = Tokens(B, i)
  BY TokensSent
<1> QED BY <1>1 DEF Answered

\* A chunk that arrives ends the wait of the download that takes it.
LEMMA AnswerTaken ==
    ASSUME NEW B, IsABag(B), NEW r \in BagToSet(B), NEW d, NEW e, NEW i,
           Answered(B, d, i), NEW f \in Waiting(d, i), f \notin Waiting(e, i),
           \A g \in Files : e[g].inFlight \subseteq d[g].inFlight
    PROVE  Answered(B (-) SetToBag({r}), e, i)
<1> DEFINE Rest == B (-) SetToBag({r})
           t == <<r, B[r]>>
<1>1. Tokens(Rest, i) = Tokens(B, i) \ {t}
  BY TokensReceived
<1>2. Waiting(e, i) \in SUBSET (Waiting(d, i) \ {f}) /\ IsFiniteSet(Waiting(d, i))
  BY FS_Subset, ConstantsAssumption DEF Waiting
<1> HIDE DEF t, Rest
<1>3. /\ IsFiniteSet(Waiting(d, i) \ {f})
      /\ Cardinality(Waiting(d, i) \ {f}) = Cardinality(Waiting(d, i)) - 1
  BY <1>2, FS_RemoveElement
<1>4. /\ IsFiniteSet(Waiting(e, i))
      /\ Cardinality(Waiting(e, i)) <= Cardinality(Waiting(d, i) \ {f})
  BY <1>2, <1>3, FS_Subset
<1>5. /\ IsFiniteSet(Tokens(Rest, i))
      /\ \/ Cardinality(Tokens(Rest, i)) = Cardinality(Tokens(B, i)) - 1
         \/ Cardinality(Tokens(Rest, i)) = Cardinality(Tokens(B, i))
  BY <1>1, FS_RemoveElement DEF Answered
<1>6. /\ Cardinality(Waiting(e, i)) \in Nat /\ Cardinality(Waiting(d, i)) \in Nat
      /\ Cardinality(Tokens(B, i)) \in Nat /\ Cardinality(Tokens(Rest, i)) \in Nat
  BY <1>2, <1>4, <1>5, FS_CardinalityType DEF Answered
<1>7. Cardinality(Waiting(e, i)) <= Cardinality(Tokens(Rest, i))
  BY <1>3, <1>4, <1>5, <1>6 DEF Answered
<1> QED BY <1>5, <1>7 DEF Answered, Rest

\* A request answered by a response for the same index.
LEMMA RequestAnswered ==
    ASSUME NEW B, IsABag(B), NEW r \in BagToSet(B), NEW a, NEW d, NEW i,
           Answered(B, d, i), IsFor(r, i) <=> IsFor(a, i)
    PROVE  Answered((B (-) SetToBag({r})) (+) SetToBag({a}), d, i)
<1> DEFINE Rest == B (-) SetToBag({r})
           t == <<r, B[r]>>
           u == <<a, Count(Rest, a) + 1>>
<1>1. /\ IsABag(Rest) /\ Tokens(Rest, i) = Tokens(B, i) \ {t}
      /\ t \in Tokens(B, i) <=> IsFor(r, i)
  BY TokensReceived
<1>2. LET New == {<<m, Count(Rest, m) + 1>> : m \in {m \in {a} : IsFor(m, i)}}
      IN  /\ Tokens(Rest (+) SetToBag({a}), i) = Tokens(Rest, i) \cup New
          /\ Tokens(Rest, i) \cap New = {}
  BY <1>1, TokensSent
<1>3. CASE ~IsFor(r, i)
  <2>1. Tokens(Rest (+) SetToBag({a}), i) = Tokens(B, i)
    BY <1>1, <1>2, <1>3
  <2> QED BY <2>1 DEF Answered
<1>4. CASE IsFor(r, i)
  <2>1. {<<m, Count(Rest, m) + 1>> : m \in {m \in {a} : IsFor(m, i)}} = {u}
    BY <1>4
  <2> HIDE DEF t, u
  <2>2. /\ Tokens(Rest (+) SetToBag({a}), i) = (Tokens(B, i) \ {t}) \cup {u}
        /\ u \notin Tokens(B, i) \ {t} /\ t \in Tokens(B, i)
    BY <1>1, <1>2, <1>4, <2>1
  <2> HIDE DEF Rest
  <2>3. /\ IsFiniteSet(Tokens(B, i) \ {t})
        /\ Cardinality(Tokens(B, i) \ {t}) = Cardinality(Tokens(B, i)) - 1
    BY <2>2, FS_RemoveElement DEF Answered
  <2>4. /\ IsFiniteSet(Tokens(Rest (+) SetToBag({a}), i))
        /\ Cardinality(Tokens(Rest (+) SetToBag({a}), i))
           = Cardinality(Tokens(B, i) \ {t}) + 1
    <3> DEFINE T == Tokens(B, i) \ {t}
    <3>1. IsFiniteSet(T) /\ u \notin T /\ Tokens(Rest (+) SetToBag({a}), i) = T \cup {u}
      BY <2>2, <2>3
    <3> HIDE DEF T
    <3>2. IsFiniteSet(T \cup {u}) /\ Cardinality(T \cup {u}) = Cardinality(T) + 1
      BY <3>1, FS_AddElement
    <3> QED BY <3>1, <3>2 DEF T
  <2>5. Cardinality(Tokens(B, i)) \in Nat
    BY FS_CardinalityType DEF Answered
  <2> QED BY <2>3, <2>4, <2>5 DEF Answered, Rest
<1> QED BY <1>3, <1>4

-----------------------------------------------------------------------------
\* What stands behind an answer: peers are in a room, and what a peer said it has,
\* or is asked for, it seeds.
PeersHold ==
    /\ peerRoom \in [Peers -> Rooms]
    /\ \A f \in Files, p \in Peers : peerBits[f][p] # {} => f \in seeds[p]
    /\ \A m \in InNet("ChunkRequest") : m.file \in seeds[m.peer]
    /\ \A m \in InNet("BitfieldResponse") : m.files \subseteq seeds[m.peer]

AnswersInv ==
    /\ IsABag(net)
    /\ PeersHold
    /\ \A i \in Index : Answered(net, dl, i)

\* The members of the bag after a message is taken, or some are sent.
LEMMA HoldsAfter ==
    ASSUME PeersHold, NEW sent, NEW S, net' = sent (+) SetToBag(S),
           BagToSet(sent) \subseteq BagToSet(net), peerRoom' = peerRoom,
           \A p \in Peers : seeds[p] \subseteq seeds'[p],
           \A m \in InNet("ChunkRequest") \cup InNet("BitfieldResponse") : m.peer \in Peers,
           \A f \in Files, p \in Peers : peerBits'[f][p] # {} => f \in seeds'[p],
           \A m \in S : m.type = "ChunkRequest" => m.file \in seeds'[m.peer],
           \A m \in S : m.type = "BitfieldResponse" => m.files \subseteq seeds'[m.peer]
    PROVE  PeersHold'
<1>1. BagToSet(net') \subseteq BagToSet(net) \cup S
  BY BagFacts
<1>2. BagToSet(net)' = BagToSet(net')
  BY DEF BagToSet
<1>3. \A m \in InNet("ChunkRequest")' : m.file \in seeds'[m.peer]
  BY <1>1, <1>2 DEF PeersHold, InNet
<1>4. \A m \in InNet("BitfieldResponse")' : m.files \subseteq seeds'[m.peer]
  BY <1>1, <1>2 DEF PeersHold, InNet
<1> QED BY <1>3, <1>4 DEF PeersHold

LEMMA DispatchHolds ==
    ASSUME TypeOK, PeersHold, NEW d \in [Files -> Entries], NEW sent, Dispatch(d, sent),
           BagToSet(sent) \subseteq BagToSet(net), UNCHANGED others,
           \A f \in Files, p \in Peers : peerBits'[f][p] # {} => f \in seeds[p]
    PROVE  PeersHold'
<1> DEFINE W == {w \in Files \X Index : w[2] \in Wanted(d, w[1])}
<1>1. PICK ask \in [W -> Peers] :
         /\ \A w \in W : ask[w] \in Sources(w[1], w[2])'
         /\ net' = sent (+) SetToBag({ChunkRequest(ask[w], w[1], w[2]) : w \in W})
  BY DEF Dispatch
<1> DEFINE Asked == {ChunkRequest(ask[w], w[1], w[2]) : w \in W}
<1>2. ASSUME NEW m \in Asked PROVE m.type = "ChunkRequest" /\ m.file \in seeds[m.peer]
  <2>1. PICK w \in W : m = ChunkRequest(ask[w], w[1], w[2])
    OBVIOUS
  <2>2. m.type = "ChunkRequest" /\ m.peer = ask[w] /\ m.file = w[1] /\ w[1] \in Files
    BY <2>1 DEF ChunkRequest
  <2>3. ask[w] \in Peers /\ w[2] \in peerBits'[w[1]][ask[w]]
    BY <1>1 DEF Sources, GetBit
  <2> QED BY <2>2, <2>3
<1>3. seeds' = seeds /\ peerRoom' = peerRoom
  BY DEF others
<1>4. \A m \in InNet("ChunkRequest") \cup InNet("BitfieldResponse") : m.peer \in Peers
  BY InNetType
  DEF ChunkRequests, ChunkRequest, BitfieldResponses, BitfieldResponse
<1>5. net' = sent (+) SetToBag(Asked)
  BY <1>1
<1> HIDE DEF Asked
<1> QED BY <1>2, <1>3, <1>4, <1>5, HoldsAfter

\* A dispatch with no more in flight than before, after a message for no chunk was
\* taken or none.
LEMMA DispatchAnswersAll ==
    ASSUME TypeOK, AnswersInv, NEW d \in [Files -> Entries], NEW sent, Dispatch(d, sent),
           IsABag(sent), BagToSet(sent) \subseteq BagToSet(net), UNCHANGED others,
           \A f \in Files, p \in Peers : peerBits'[f][p] # {} => f \in seeds[p],
           \A i \in Index : Answered(sent, d, i)
    PROVE  AnswersInv'
<1>1. IsABag(net')
  BY DispatchAsks
<1>2. PeersHold'
  BY DispatchHolds DEF AnswersInv
<1>3. \A i \in Index : Answered(net', dl', i)
  BY DispatchAnswers
<1> QED BY <1>1, <1>2, <1>3 DEF AnswersInv, Answered, Tokens, Waiting, BagToSet, IsABag

\* A step that leaves the messages alone and asks for nothing.
LEMMA QuietAnswers ==
    ASSUME AnswersInv, UNCHANGED <<net, others>>,
           \A f \in Files : dl'[f].inFlight \subseteq dl[f].inFlight,
           peerBits' = peerBits \/ ForgetRoom
    PROVE  AnswersInv'
<1>1. \A f \in Files, p \in Peers : peerBits'[f][p] # {} => peerBits'[f][p] = peerBits[f][p]
  BY DEF ForgetRoom, NoPeerBits, NewBits
<1>2. PeersHold'
  BY <1>1 DEF AnswersInv, PeersHold, InNet, BagToSet, others
<1>3. \A i \in Index : Answered(net, dl', i)
  BY FewerWait DEF AnswersInv
<1> QED BY <1>2, <1>3 DEF AnswersInv, Answered, Tokens, Waiting, BagToSet, IsABag

LEMMA CommandAnswers ==
    ASSUME TypeOK, AnswersInv, UserCommand
    PROVE  AnswersInv'
<1>1. ASSUME NEW f \in Files, StartDownload(f) PROVE AnswersInv'
  <2>1. UNCHANGED <<peerBits, others>>
    BY <1>1 DEF StartDownload
  <2>2. PICK d \in [Files -> Entries] :
           Dispatch(d, net) /\ \A g \in Files : d[g].inFlight \subseteq dl[g].inFlight
    BY <1>1, StartDispatches
  <2>3. \A i \in Index : Answered(net, d, i)
    BY <2>2, FewerWait DEF AnswersInv
  <2>4. \A g \in Files, p \in Peers : peerBits'[g][p] # {} => g \in seeds[p]
    BY <2>1 DEF AnswersInv, PeersHold
  <2> QED BY <2>1, <2>2, <2>3, <2>4, DispatchAnswersAll DEF AnswersInv
<1>2. ASSUME NEW k \in Numbers,
             \/ Pause(k) \/ Resume(k) \/ Cancel(k)
             \/ MoveTop(k) \/ MoveUp(k) \/ MoveDown(k)
      PROVE  AnswersInv'
  <2>1. UNCHANGED <<net, peerBits, others>>
    BY <1>2
    DEF Pause, Resume, Cancel, Change, MoveTop, MoveUp, MoveDown, Swap, UserStep
  <2> QED BY <1>2, <2>1, CommandKeepsFlight, QuietAnswers
<1>3. CASE LeaveRoom \/ \E r \in Rooms : JoinRoom(r)
  <2>1. UNCHANGED <<net, others>> /\ (peerBits' = peerBits \/ ForgetRoom)
    BY <1>3 DEF LeaveRoom, JoinRoom
  <2> QED BY <1>3, <2>1, CommandKeepsFlight, QuietAnswers
<1> QED BY <1>1, <1>2, <1>3 DEF UserCommand

\* A message received, of those under way.
LEMMA ReceiveFacts ==
    ASSUME AnswersInv, NEW m \in BagToSet(net)
    PROVE  /\ IsABag(Receive(m)) /\ BagToSet(Receive(m)) \subseteq BagToSet(net)
           /\ \A i \in Index : ~IsFor(m, i) => Answered(Receive(m), dl, i)
<1>1. IsABag(Receive(m)) /\ BagToSet(Receive(m)) \subseteq BagToSet(net)
  BY CountOfRest, BagFacts DEF AnswersInv, Receive
<1>2. \A i \in Index : ~IsFor(m, i) => Answered(Receive(m), dl, i)
  BY OtherReceived DEF AnswersInv, Receive
<1> QED BY <1>1, <1>2

\* A response that is taken and changes nothing, when nothing waited for it.
LEMMA IgnoredAnswers ==
    ASSUME AnswersInv, NEW m \in BagToSet(net), net' = Receive(m),
           UNCHANGED <<client, others>>,
           \A i \in Index : IsFor(m, i) => Waiting(dl, i) = {}
    PROVE  AnswersInv'
<1>1. dl' = dl /\ peerBits' = peerBits /\ UNCHANGED <<peerRoom, seeds>>
  BY DEF client, others
<1>2. ASSUME NEW i \in Index, IsFor(m, i) PROVE Answered(Receive(m), dl, i)
  <2>1. Cardinality(Waiting(dl, i)) = 0
    BY <1>2, FS_EmptySet
  <2>2. Tokens(Receive(m), i) \in SUBSET Tokens(net, i) /\ IsFiniteSet(Tokens(net, i))
    <3>1. Tokens(Receive(m), i) = Tokens(net, i) \ {<<m, net[m]>>}
      BY TokensReceived DEF AnswersInv, Receive
    <3> QED BY <3>1 DEF AnswersInv, Answered
  <2>3. IsFiniteSet(Tokens(Receive(m), i)) /\ Cardinality(Tokens(Receive(m), i)) \in Nat
    BY <2>2, FS_Subset, FS_CardinalityType
  <2> QED BY <2>1, <2>3 DEF Answered
<1>3. \A i \in Index : Answered(net', dl', i)
  BY <1>1, <1>2, ReceiveFacts
<1>4. PeersHold'
  BY <1>1, ReceiveFacts DEF AnswersInv, PeersHold, InNet, BagToSet
<1>5. IsABag(net')
  BY ReceiveFacts
<1> QED BY <1>3, <1>4, <1>5 DEF AnswersInv, Answered, Tokens, Waiting, BagToSet, IsABag

LEMMA BitfieldAnswers ==
    ASSUME TypeOK, AnswersInv, NEW m \in InNet("BitfieldResponse"), OnBitfieldResponse(m)
    PROVE  AnswersInv'
<1>1. /\ m \in BagToSet(net) /\ m \in BitfieldResponses /\ \A i : ~IsFor(m, i)
  BY InNetType DEF InNet, IsFor
<1>2. m.peer \in Peers /\ m.files \subseteq seeds[m.peer]
  BY <1>1 DEF AnswersInv, PeersHold, BitfieldResponses, BitfieldResponse
<1>3. Dispatch(dl, Receive(m)) /\ UNCHANGED others
  BY DEF OnBitfieldResponse
<1>4. ASSUME NEW f \in Files, NEW p \in Peers, peerBits'[f][p] # {}
      PROVE  f \in seeds[p]
  <2>1. peerBits \in [Files -> [Peers -> SUBSET Index]]
    BY DEF TypeOK
  <2>2. \/ peerBits'[f][p] = peerBits[f][p]
        \/ p = m.peer /\ f \in m.files
    BY <1>2, <2>1 DEF OnBitfieldResponse
  <2> QED BY <1>2, <1>4, <2>2 DEF AnswersInv, PeersHold
<1>5. dl \in [Files -> Entries]
  BY DEF TypeOK
<1> QED BY <1>1, <1>3, <1>4, <1>5, ReceiveFacts, DispatchAnswersAll

\* With one room and a disk that takes every write, a chunk that some download waits
\* for opens and is stored or found corrupt.
LEMMA ChunkAnswers ==
    ASSUME TypeOK, SoundInv, KnownIsAnnounced, AnswersInv, Reliable, OneRoom,
           ChunkArrives
    PROVE  AnswersInv'
<1>0. PICK m \in InNet("ChunkResponse") :
         \/ ResponseIgnored(m)
         \/ \E f \in Files : \/ ChunkRejected(m, f) \/ ChunkCorrupt(m, f)
                             \/ ChunkStored(m, f) \/ ChunkUnwritable(m, f)
                             \/ BitsUnflushed(m, f)
  BY DEF ChunkArrives
<1>1. /\ m \in BagToSet(net) /\ m \in ChunkResponses
      /\ \A i : IsFor(m, i) <=> i = m.chunk
  BY InNetType DEF InNet, IsFor
<1>2. CASE ResponseIgnored(m)
  <2>1. \A f \in Files : m.chunk \notin dl[f].inFlight
    BY <1>2 DEF ResponseIgnored, Awaits, SoundInv, SoundEntry, KnownIsAnnounced
  <2>2. Waiting(dl, m.chunk) = {}
    BY <2>1 DEF Waiting
  <2>3. net' = Receive(m) /\ UNCHANGED <<client, others>>
    BY <1>2 DEF ResponseIgnored
  <2> QED BY <1>1, <2>2, <2>3, IgnoredAnswers
<1>3. ASSUME NEW f \in Files, ChunkRejected(m, f) PROVE FALSE
  <2>1. m.key \in Rooms /\ room \in Rooms
    BY <1>1, <1>3 DEF ChunkResponses, ChunkResponse, ChunkRejected, TypeOK
  <2>2. m.key = room
    BY <2>1 DEF OneRoom
  <2>3. m.chunk \in dl[f].inFlight
    BY <1>3 DEF ChunkRejected, Addressee, Awaits
  <2>4. f \in available
    BY <2>3 DEF KnownIsAnnounced
  <2> QED BY <1>3, <2>2, <2>4 DEF ChunkRejected
<1>4. ASSUME NEW f \in Files, ChunkUnwritable(m, f) \/ BitsUnflushed(m, f) PROVE FALSE
  BY <1>4 DEF ChunkUnwritable, BitsUnflushed, Reliable
<1>5. ASSUME NEW f \in Files, ChunkCorrupt(m, f) \/ ChunkStored(m, f)
      PROVE  AnswersInv'
  <2>1. PICK d \in [Files -> Entries] :
           /\ Dispatch(d, Receive(m))
           /\ \A g \in Files : d[g].inFlight \subseteq dl[g].inFlight
           /\ m.chunk \notin d[f].inFlight
    BY <1>1, <1>5, ArrivalDispatches
  <2>2. m.chunk \in dl[f].inFlight /\ UNCHANGED <<peerBits, others>>
    BY <1>5 DEF ChunkCorrupt, ChunkStored, Opens, Addressee, Awaits
  <2>3. f \in Waiting(dl, m.chunk) /\ f \notin Waiting(d, m.chunk)
    BY <2>1, <2>2 DEF Waiting
  <2>4. Answered(net, dl, m.chunk) /\ IsABag(net)
    BY <1>1 DEF AnswersInv, ChunkResponses, ChunkResponse
  <2>5. Answered(Receive(m), d, m.chunk)
    BY <1>1, <2>1, <2>3, <2>4, AnswerTaken DEF Receive
  <2>6. \A i \in Index : i # m.chunk => Answered(Receive(m), d, i)
    BY <1>1, <2>1, ReceiveFacts, FewerWait
  <2>7. \A g \in Files, p \in Peers : peerBits'[g][p] # {} => g \in seeds[p]
    BY <2>2 DEF AnswersInv, PeersHold
  <2> QED BY <1>1, <2>1, <2>2, <2>5, <2>6, <2>7, ReceiveFacts, DispatchAnswersAll
<1> QED BY <1>0, <1>2, <1>3, <1>4, <1>5

\* Peers that stay and keep what they seed answer every request, for a chunk with
\* that chunk.
LEMMA PeersAnswer ==
    ASSUME TypeOK, AnswersInv, Reliable, ChunkAnswered \/ BitfieldAnswered
    PROVE  AnswersInv'
<1>1. ASSUME NEW m \in BagToSet(net), NEW a, m.peer \in Peers,
             net' = Receive(m) (+) SetToBag({a}),
             UNCHANGED <<client, others>>,
             \A i : IsFor(m, i) <=> IsFor(a, i),
             a.type # "ChunkRequest",
             a.type = "BitfieldResponse" => a.files \subseteq seeds[a.peer]
      PROVE  AnswersInv'
  <2>1. dl' = dl /\ peerBits' = peerBits /\ peerRoom' = peerRoom /\ seeds' = seeds
    BY <1>1 DEF client, others
  <2>2. \A i \in Index : Answered(net', dl', i)
    BY <1>1, <2>1, RequestAnswered DEF AnswersInv, Receive
  <2>3. IsABag(net') /\ BagToSet(Receive(m)) \subseteq BagToSet(net)
    BY <1>1, ReceiveFacts, CountOfSum
  <2>4. \A n \in InNet("ChunkRequest") \cup InNet("BitfieldResponse") : n.peer \in Peers
    BY InNetType
    DEF ChunkRequests, ChunkRequest, BitfieldResponses, BitfieldResponse
  <2>5. \A f \in Files, p \in Peers : peerBits'[f][p] # {} => f \in seeds'[p]
    BY <2>1 DEF AnswersInv, PeersHold
  <2>6. PeersHold'
    BY <1>1, <2>1, <2>3, <2>4, <2>5, HoldsAfter DEF AnswersInv
  <2> QED BY <2>2, <2>3, <2>6
          DEF AnswersInv, Answered, Tokens, Waiting, BagToSet, IsABag
<1>2. ASSUME NEW m \in InNet("ChunkRequest"), PeerServesChunk(m) PROVE AnswersInv'
  <2> DEFINE c == IF m.peer \in Stale THEN Corrupt ELSE m.file
             a == ChunkResponse(m.peer, m.chunk, c, peerRoom[m.peer])
  <2>1. m \in BagToSet(net) /\ m.peer \in Peers
    BY InNetType DEF InNet, ChunkRequests, ChunkRequest
  <2>2. net' = Receive(m) (+) SetToBag({a}) /\ UNCHANGED <<client, others>>
    BY <1>2 DEF PeerServesChunk, PeerStep
  <2>3. a.type = "ChunkResponse" /\ \A i : IsFor(m, i) <=> IsFor(a, i)
    BY DEF InNet, IsFor, ChunkResponse
  <2> HIDE DEF a
  <2> QED BY <1>1, <2>1, <2>2, <2>3
<1>3. ASSUME NEW m \in InNet("BitfieldRequest"), PeerListsSeeds(m) PROVE AnswersInv'
  <2> DEFINE fs == IF peerRoom[m.peer] = m.room THEN seeds[m.peer] ELSE {}
             a == BitfieldResponse(m.peer, fs)
  <2>1. m \in BagToSet(net) /\ m.peer \in Peers
    BY InNetType DEF InNet, BitfieldRequests, BitfieldRequest
  <2>2. net' = Receive(m) (+) SetToBag({a}) /\ UNCHANGED <<client, others>>
    BY <1>3 DEF PeerListsSeeds, PeerStep
  <2>3. fs \subseteq seeds[m.peer]
    OBVIOUS
  <2>4. /\ a.type = "BitfieldResponse" /\ a.files \subseteq seeds[a.peer]
        /\ \A i : IsFor(m, i) <=> IsFor(a, i)
    <3> HIDE DEF fs
    <3> QED BY <2>3 DEF InNet, IsFor, BitfieldResponse
  <2> HIDE DEF a
  <2> QED BY <1>1, <2>1, <2>2, <2>4
<1>4. ASSUME NEW m \in InNet("ChunkRequest") \cup InNet("BitfieldRequest"),
             RequestUnanswered(m)
      PROVE  FALSE
  <2>1. m.type = "ChunkRequest" /\ (\/ peerRoom[m.peer] = NoRoom
                                    \/ m.file \notin seeds[m.peer])
    BY <1>4 DEF RequestUnanswered, Reliable
  <2>2. m \in InNet("ChunkRequest")
    BY <2>1 DEF InNet
  <2>3. m.peer \in Peers /\ m.file \in seeds[m.peer]
    BY <2>2, InNetType DEF ChunkRequests, ChunkRequest, AnswersInv, PeersHold
  <2>4. peerRoom[m.peer] # NoRoom
    BY <2>3, ConstantsAssumption DEF AnswersInv, PeersHold
  <2> QED BY <2>1, <2>3, <2>4
<1> QED BY <1>2, <1>3, <1>4 DEF ChunkAnswered, BitfieldAnswered

LEMMA EnvironmentAnswers ==
    ASSUME TypeOK, AnswersInv, Reliable, Environment
    PROVE  AnswersInv'
<1>1. ASSUME NEW S, net' = net (+) SetToBag(S), \A m \in S : m.type = "BitfieldRequest",
             UNCHANGED <<dl, peerBits, peerRoom>>,
             \A p \in Peers : seeds[p] \subseteq seeds'[p]
      PROVE  AnswersInv'
  <2>1. \A i \in Index : Answered(net', dl', i)
    BY <1>1, OthersSent DEF AnswersInv, IsFor
  <2>2. IsABag(net')
    BY <1>1, CountOfSum DEF AnswersInv
  <2>3. \A n \in InNet("ChunkRequest") \cup InNet("BitfieldResponse") : n.peer \in Peers
    BY InNetType
    DEF ChunkRequests, ChunkRequest, BitfieldResponses, BitfieldResponse
  <2>4. \A f \in Files, p \in Peers : peerBits'[f][p] # {} => f \in seeds'[p]
    BY <1>1 DEF AnswersInv, PeersHold
  <2>5. PeersHold'
    BY <1>1, <2>3, <2>4, HoldsAfter DEF AnswersInv
  <2> QED BY <2>1, <2>2, <2>5
          DEF AnswersInv, Answered, Tokens, Waiting, BagToSet, IsABag
<1>2. ASSUME NEW p \in Peers, NEW f \in Files, FileAnnounced(p, f) PROVE AnswersInv'
  <2>1. \A q \in Peers : seeds[q] \subseteq seeds'[q]
    BY <1>2 DEF FileAnnounced, TypeOK
  <2>2. BitfieldRequest(p, room).type = "BitfieldRequest"
    BY DEF BitfieldRequest
  <2> QED BY <1>1, <1>2, <2>1, <2>2 DEF FileAnnounced
<1>3. ASSUME NEW ps \in SUBSET Peers, ProvidersFound(ps) PROVE AnswersInv'
  <2>1. \A m \in {BitfieldRequest(p, room) : p \in ps} : m.type = "BitfieldRequest"
    BY DEF BitfieldRequest
  <2> QED BY <1>1, <1>3, <2>1 DEF ProvidersFound, client, others
<1>4. ASSUME NEW p, NEW r, PeerMoves(p, r) \/ PeerStopsSeeding(p, r) PROVE FALSE
  BY <1>4 DEF PeerMoves, PeerStopsSeeding, Reliable
<1> QED BY <1>2, <1>3, <1>4 DEF Environment

LEMMA NothingUnderWay ==
    ASSUME net' = EmptyBag, dl' = [f \in Files |-> Absent], peerBits' = NoPeerBits,
           peerRoom' \in [Peers -> Rooms]
    PROVE  AnswersInv'
<1>1. IsABag(EmptyBag) /\ BagToSet(EmptyBag) = {}
  BY BagFacts DEF IsABag, EmptyBag, SetToBag
<1>2. \A i : Tokens(EmptyBag, i) = {} /\ Waiting(dl', i) = {}
  BY <1>1 DEF Tokens, Waiting, Absent
<1>3. \A i \in Index : Answered(net', dl', i)
  BY <1>2, FS_EmptySet DEF Answered
<1>4. PeersHold'
  BY <1>1 DEF PeersHold, InNet, NoPeerBits, NewBits, BagToSet
<1> QED BY <1>1, <1>3, <1>4 DEF AnswersInv, Answered, Tokens, Waiting, BagToSet, IsABag

\* No answer is ever lost on the way to a download that waits: with one room, peers
\* that stay and answer, and a disk that takes every write, every chunk in flight has
\* a request or a response under way, whatever the order of answers and of the
\* user's pauses, moves and changes of room, and however many files share an index.
THEOREM AnswersCome ==
    ASSUME NamesDiffer, Reliable, OneRoom
    PROVE  Spec => []AnswerComes
<1>1. Init => AnswersInv
  <2> SUFFICES ASSUME Init PROVE AnswersInv
    OBVIOUS
  <2>1. IsABag(EmptyBag) /\ BagToSet(EmptyBag) = {}
    BY BagFacts DEF IsABag, EmptyBag, SetToBag
  <2>2. \A i : Tokens(net, i) = {} /\ Waiting(dl, i) = {}
    BY <2>1 DEF Init, Tokens, Waiting, Absent
  <2>3. \A i \in Index : Answered(net, dl, i)
    BY <2>2, FS_EmptySet DEF Answered
  <2>4. PeersHold
    BY <2>1 DEF Init, PeersHold, InNet, NoPeerBits, NewBits
  <2> QED BY <2>1, <2>3, <2>4 DEF Init, AnswersInv
<1>2. TypeOK /\ SoundInv /\ KnownIsAnnounced /\ AnswersInv /\ [Next]_vars
      => AnswersInv'
  <2> SUFFICES ASSUME TypeOK, SoundInv, KnownIsAnnounced, AnswersInv, [Next]_vars
               PROVE  AnswersInv'
    OBVIOUS
  <2>1. CASE BitfieldArrives
    <3>1. PICK m \in InNet("BitfieldResponse") : OnBitfieldResponse(m) \/ ResponseIgnored(m)
      BY <2>1 DEF BitfieldArrives
    <3>2. CASE ResponseIgnored(m)
      <4>1. m \in BagToSet(net) /\ net' = Receive(m) /\ UNCHANGED <<client, others>>
        BY <3>2 DEF ResponseIgnored, InNet
      <4>2. \A i : ~IsFor(m, i)
        BY DEF InNet, IsFor
      <4> QED BY <4>1, <4>2, IgnoredAnswers
    <3> QED BY <3>1, <3>2, BitfieldAnswers
  <2>2. CASE Crashes
    <3>1. Restarted /\ UNCHANGED others
      BY <2>2 DEF Crashes, Crash, CrashInStore
    <3> QED BY <3>1, NothingUnderWay DEF Restarted, others, AnswersInv, PeersHold
  <2>3. CASE UNCHANGED vars
    <3>1. UNCHANGED <<net, others, dl, peerBits>>
      BY <2>3 DEF vars, client
    <3> QED BY <3>1, QuietAnswers
  <2> QED BY <2>1, <2>2, <2>3, CommandAnswers, ChunkAnswers, PeersAnswer,
             EnvironmentAnswers DEF Next
<1>3. AnswersInv => AnswerComes
  BY TokensAre DEF AnswersInv, Answered, AnswerComes, Waiting
<1> QED BY <1>1, <1>2, <1>3, TypeCorrect, AlwaysSound, KnownIsRight, PTL DEF Spec
=============================================================================
