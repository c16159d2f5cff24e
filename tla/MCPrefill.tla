------------------------------ MODULE MCPrefill ------------------------------
(* One prompt of 9 tokens and blocks of 4, of which every chunk may have all *)
(* tokens that are left; recurrent states in align mode together with a      *)
(* drafter that looks two tokens ahead.                                      *)
EXTENDS PrefillChunks

MCPrompts == {[prompt |-> 9, tokens |-> 9, junction |-> 0, checkpoints |-> FALSE,
               boundaries |-> {}, items |-> <<>>]}
MCSettings ==
  {[block |-> 4, hash |-> 2, drop |-> FALSE, partial |-> FALSE, fine |-> FALSE,
    internal |-> FALSE, retention |-> NoRetention, max_prefill |-> 9, lookahead |-> 2,
    whole_items |-> FALSE, mamba |-> TRUE, budget |-> 1, capacity |-> 1, max_tokens |-> 9]}
==============================================================================
