----------------------------- MODULE ChunkStore -----------------------------
(***************************************************************************)
(* What the download side promises about the disk, whatever the order of   *)
(* messages, pauses, crashes and write errors: chunks that were verified   *)
(* are added one at a time and never lost, and a file is reported complete *)
(* only once all of its chunks are there.                                  *)
(***************************************************************************)
EXTENDS Bitfield

CONSTANTS Files, ChunkCount

VARIABLES
    have,   \* the verified chunks of each file
    done    \* the files reported complete

Init == have = [f \in Files |-> {}] /\ done = {}

\* One more chunk; the download it completes may be reported at once, and a crash
\* right after the write forgets the reports there were.
StoreChunk(f, i) ==
    /\ have' = [have EXCEPT ![f] = @ \cup {i}]
    /\ done' \subseteq done \cup {f}
    /\ f \in done' => have'[f] = Chunks(ChunkCount[f])

\* Reports are forgotten: a download is removed or started again, or the program
\* restarts.
Forget == have' = have /\ done' \subseteq done

Next == Forget \/ \E f \in Files : \E i \in Chunks(ChunkCount[f]) : StoreChunk(f, i)

Spec == Init /\ [][Next]_<<have, done>>
=============================================================================
