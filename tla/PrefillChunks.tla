---------------------------- MODULE PrefillChunks ----------------------------
(* A prompt computed chunk by chunk (scheduler.py): how many tokens the     *)
(* next chunk has, which encoder inputs are computed, loaded or released    *)
(* with it, under budgets and a cache that other requests use as well.      *)
(* The encoder cache manager and the connector are not in the repository;   *)
(* entries without a reference may be evicted at any time.                  *)
EXTENDS ChunkCuts

CONSTANTS
  Prompts,    \* requests
  Settings,   \* configurations; with [mamba, budget, capacity, max_tokens]
  MaxSteps    \* bound: chunks

VARIABLES
  r, o,        \* the request and the configuration
  computed,    \* num_computed_tokens
  held,        \* ids the request has a reference to
  cached,      \* ids in the encoder cache
  chunk,       \* the last chunk: [start, n, compute, load], and what was offered
  steps
vars == <<r, o, computed, held, cached, chunk, steps>>

Ids == {r.items[i].id : i \in DOMAIN r.items}
LengthOf(id) == r.items[CHOOSE i \in DOMAIN r.items : r.items[i].id = id].length
SizeOf(ids) == MapThenSumSet(LengthOf, ids)
NoChunk == [start |-> 0, n |-> 0, compute |-> {}, load |-> {}, tokens |-> 0, budget |-> 0, space |-> 0]

Init ==
  /\ r \in Prompts /\ o \in Settings
  /\ computed \in {FloorTo(k, o.block) : k \in 0..(r.tokens - 1)}   \* after a prefix-cache hit
  /\ held = {} /\ cached = {} /\ chunk = NoChunk /\ steps = 0

\* What is left of the three budgets when the request's turn comes.
Schedule(token_budget, budget, taken, remote, internal, reuse) ==
  /\ steps < MaxSteps /\ steps' = steps + 1 /\ computed < r.tokens
  /\ internal => Smaller(r.tokens, computed + token_budget) >= r.prompt
  /\ taken + SizeOf(held) <= o.capacity
  /\ \E split \in {LET wanted == Smaller(r.tokens - computed, token_budget)
                  IN  IF o.mamba THEN _mamba_block_aligned_split(r, o, computed, wanted, internal, reuse)
                      ELSE wanted},
        space \in {o.capacity - taken - SizeOf(held)} :
       \E e \in {_try_schedule_encoder_inputs(r, o, computed, split, budget, cached, held, remote, space)} :
         LET n == _reserve_prefill_lookahead(r, o, computed, e.n)
         IN  /\ chunk' = [start |-> computed, n |-> n, compute |-> e.compute, load |-> e.load,
                          tokens |-> token_budget, budget |-> budget, space |-> space]
             /\ computed' = computed + n
             /\ held' = held \cup {r.items[i].id : i \in e.again} \cup (IF n > 0 THEN e.ids ELSE {})
             /\ cached' = cached \cup (IF n > 0 THEN e.ids ELSE {})
  /\ UNCHANGED <<r, o>>

\* update_from_output(): items far enough behind are released.
_free_encoder_inputs ==
  LET passed == {i \in DOMAIN r.items :
                   /\ r.items[i].id \in held
                   /\ r.items[i].offset + r.items[i].length + o.lookahead <= computed}
  IN  /\ passed # {} /\ held' = held \ {r.items[i].id : i \in passed} /\ chunk' = NoChunk
      /\ UNCHANGED <<r, o, computed, cached, steps>>

_preempt_request ==
  /\ steps > 0 /\ computed > 0
  /\ computed' \in {0, FloorTo(computed, o.block)} /\ held' = {} /\ chunk' = NoChunk
  /\ UNCHANGED <<r, o, cached, steps>>

Evict(id) ==
  /\ id \in cached \ held
  /\ cached' = cached \ {id} /\ chunk' = NoChunk
  /\ UNCHANGED <<r, o, computed, held, steps>>

Next ==
  \/ \E tokens \in 1..o.max_tokens, remote \in {{}, Ids} :
       \E budget \in {0, o.budget}, taken \in {0, o.capacity \div 2} :
         \E internal \in {FALSE, o.internal},
            reuse \in {{}} \cup {{p} : p \in IF o.retention = 0 THEN 1..r.tokens ELSE {}} :
           /\ r.items = <<>> => budget = 0 /\ taken = 0
           /\ Schedule(tokens, budget, taken, remote, internal, reuse)
  \/ _free_encoder_inputs \/ _preempt_request
  \/ \E id \in Ids : Evict(id)

Spec == Init /\ [][Next]_vars
-----------------------------------------------------------------------------
\* Whatever was cut for other reasons, a chunk and the drafter behind it read
\* only encoder outputs that are in the cache with a reference of the request
\* or are computed or loaded with the chunk, within the compute budget and
\* the space there is.
InputsReady ==
  chunk.n > 0 =>
    /\ \A i \in InWindow(r, o, chunk.start, chunk.n) : r.items[i].id \in cached \cap held
    /\ SizeOf({r.items[i].id : i \in chunk.compute}) <= chunk.budget
    /\ SizeOf({r.items[i].id : i \in chunk.compute \cup chunk.load}) <= chunk.space

\* The drafter finds the tokens it looks ahead for, or the prompt is done.
LookaheadKept ==
  chunk.n > 0 /\ chunk.start + chunk.n < r.tokens =>
    r.tokens - (chunk.start + chunk.n) >= o.lookahead

\* A chunk is empty only for one of the reasons listed where it is found so
\* ("encoder budget is exhausted", "encoder cache is exhausted", "Insufficient
\* budget for a block-aligned chunk"): not when nothing was short, for then
\* the request would never be computed.
EmptyChunkIsExplained ==
  chunk.tokens > 0 /\ chunk.n = 0 =>
    \/ chunk.tokens < o.max_tokens
    \/ \E i \in DOMAIN r.items : r.items[i].length > Smaller(chunk.budget, chunk.space)
=============================================================================
