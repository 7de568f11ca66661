----------------------------- MODULE MCSeeding -----------------------------
(***************************************************************************)
(* Instances of Seeding for TLC: a chunk of two bytes, a second of two     *)
(* units of the clock, and words so short that a refill saturates.         *)
(***************************************************************************)
EXTENDS Seeding
CONSTANTS f1, f2, r1
=============================================================================
