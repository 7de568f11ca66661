------------------------------ MODULE MCAccount ------------------------------
(***************************************************************************)
(* An instance of Account for TLC: processes and passwords are alike.      *)
(***************************************************************************)
EXTENDS Account, TLC

\* Every property leaves out an account that processes raced for, and with one
\* account nothing remains to be checked once they have.
Unraced == \A i \in Ids : "raced" \notin spoilt[i]

Symmetry == Permutations(Passwords) \cup Permutations(Procs)
=============================================================================
