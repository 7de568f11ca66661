------------------------------ MODULE MCTasks ------------------------------
(* Instances of Tasks for TLC: queues of one or two messages. *)
EXTENDS Tasks
=============================================================================
