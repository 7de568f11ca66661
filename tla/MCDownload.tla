----------------------------- MODULE MCDownload -----------------------------
(***************************************************************************)
(* Instances of Download for TLC.                                          *)
(***************************************************************************)
EXTENDS DownloadClaims

CONSTANTS p1, p2, f1, f2

\* Files of two chunks, or of two and one.
TwoChunks == [f \in Files |-> 2]
OneChunk  == [f \in Files |-> 1]
TwoAndOne == [f \in Files |-> IF f = f1 THEN 2 ELSE 1]

\* Each file under its own name, and seeded by every peer.
OwnName == [f \in Files |-> f]
OwnsAll == [p \in Peers |-> Files]
=============================================================================
