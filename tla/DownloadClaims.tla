--------------------------- MODULE DownloadClaims ---------------------------
(***************************************************************************)
(* What the documents and comments of the repository say of downloads and  *)
(* the code does not do.  A run finds a behaviour of Download that refutes *)
(* it; FlightLands of Download is refuted the same way when peers          *)
(* disconnect.                                                             *)
(***************************************************************************)
EXTENDS Download

HasSource(f) == \E i \in Missing(dl[f].bits, ChunkCount[f]) : Sources(f, i) # {}

\* A waiting download resumes by itself once a peer has a chunk it misses
\* (docs/12-tui.md "대기 상태"; comment on DownloadStatus::Waiting).
WaitingResumes ==
    \A f \in Files :
        dl[f].status = "Waiting" /\ HasSource(f)
        ~> dl[f].status # "Waiting" \/ ~HasSource(f)
=============================================================================
