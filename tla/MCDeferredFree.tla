--------------------------- MODULE MCDeferredFree ---------------------------
(* Instances of DeferredFree for TLC. *)
EXTENDS DeferredFree, TLC

Consumer == {"consumer"}
Both     == {"consumer", "producer"}

Symmetry == Permutations(Req) \cup Permutations(Block)
=============================================================================
