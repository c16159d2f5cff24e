-------------------------- MODULE MCRequestQueues --------------------------
(* Instances of RequestQueues for TLC. *)
EXTENDS RequestQueues, TLC
=============================================================================
