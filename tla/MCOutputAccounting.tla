------------------------- MODULE MCOutputAccounting -------------------------
(* Instances of OutputAccounting for TLC. *)
EXTENDS OutputAccounting, TLC

Symmetry == Permutations(Req)
=============================================================================
