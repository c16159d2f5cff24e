------------------------------- MODULE MCLoads -------------------------------
(* An instance of KvLoadFailure for TLC: three requests that load within the *)
(* steps, under the recompute policy, with prompts cut into chunks of one    *)
(* token by long_prefill_token_threshold.                                    *)
EXTENDS KvLoadFailure
MCScenarios ==
  {[recompute |-> TRUE, groups |-> 1, blocks |-> 9, prompt |-> [a |-> 2, b |-> 3, c |-> 3], async |-> {},
    sync |-> {"a", "b", "c"}, threshold |-> 1, budget |-> 4, aborts |-> FALSE]}
=============================================================================
