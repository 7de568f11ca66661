------------------------------ MODULE MCInvite ------------------------------
(***************************************************************************)
(* An instance of Invite for TLC: a host that has every room, and guests   *)
(* that have none.                                                         *)
(***************************************************************************)
EXTENDS Invite

CONSTANTS Host, h, a

HostKnowsAll == [n \in Nodes |-> IF n = Host THEN Rooms ELSE {}]
=============================================================================
