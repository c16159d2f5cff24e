------------------------------- MODULE Totals -------------------------------
(***************************************************************************)
(* The sum of a sequence of numbers, as a recursive function: the form in  *)
(* which the prover can reason about it (InductionProofs).                 *)
(***************************************************************************)
EXTENDS Integers, Sequences

Total(s) ==
  LET upto[i \in 0 .. Len(s)] == IF i = 0 THEN 0 ELSE upto[i - 1] + s[i]
  IN  upto[Len(s)]
=============================================================================
