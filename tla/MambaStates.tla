----------------------------- MODULE MambaStates -----------------------------
(* Recurrent states of one request in "align" cache mode (mamba_utils.py).  *)
(* A state lives in blocks, one per column of the request's block table: a  *)
(* running slot, S columns behind it for the states after each draft, and   *)
(* full columns kept for the prefix cache. Before a step the running state  *)
(* moves to the column of the step's last token; after it the state at a    *)
(* block boundary that accepted drafts went past is saved in its column.    *)
(*   "scalar"  no drafts, copies described on the CPU                       *)
(*   "fused"   drafts, copies by the two fused kernels                      *)
(*   "v2"      the second model runner: decisions on the GPU as well        *)
(* The layers' kernels, the block manager and the callers are not in the    *)
(* repository. Chunks come from the scheduler (ChunkCuts).                  *)
EXTENDS ChunkCuts, SequencesExt

CONSTANTS
  Requests,   \* as in ChunkCuts
  Options,    \* as in ChunkCuts; with [mode, S, groups], the cache groups
  K,          \* tokens of history a convolution reads
  MaxTokens, MaxDepth   \* bounds: tokens known, steps

VARIABLES
  r, o,
  computed, tokens,  \* num_computed_tokens, num_tokens
  state_idx,         \* mamba_state_idx of the request, or NoEntry
  resumed,           \* listed in resumed_req_ids of the next step
  accepted,          \* num_accepted_tokens
  step,              \* [n: scheduled tokens, d: drafts of them, prefill]
  mem,               \* <<state, block>> |-> contents
  used,              \* columns that were running slots
  captured,          \* tokens of the boundary checkpoint, 0: none
  phase, depth       \* "schedule", "forward", "sample"
vars == <<r, o, computed, tokens, state_idx, resumed, accepted, step, mem, used, captured, phase, depth>>

cdiv(a, b) == (a + b - 1) \div b
NoEntry == -2
Wrong == -1
-----------------------------------------------------------------------------
(* Which tensors there are. A cache group lists its layers; a layer is the  *)
(* sequence of its states' kinds, empty without a recurrent state.          *)
_get_mamba_layer_specs(group) == SelectSeq(group, LAMBDA layer : layer # <<>>)
\* A group has such layers only or none, and one group at least has them.
Consistent(groups) ==
  /\ \A g \in DOMAIN groups : _get_mamba_layer_specs(groups[g]) \in {groups[g], <<>>}
  /\ \E g \in DOMAIN groups : groups[g] # <<>> /\ _get_mamba_layer_specs(groups[g]) = groups[g]
get_mamba_layer_groups(groups) ==
  SelectSeq([g \in DOMAIN groups |-> g], LAMBDA g : _get_mamba_layer_specs(groups[g]) # <<>>)

\* The flat list of states: [kind, table: index among the recurrent groups].
_populate_metadata(groups) ==
  LET ids == get_mamba_layer_groups(groups)
      States(i) == LET kinds == FlattenSeq(groups[ids[i]])
                   IN  [k \in DOMAIN kinds |-> [kind |-> kinds[k], table |-> i]]
  IN  FlattenSeq([i \in DOMAIN ids |-> States(i)])

\* The list is made once, when the runner starts.
WithMetadata(x) ==
  [f \in DOMAIN x \cup {"states"} |-> IF f = "states" THEN _populate_metadata(x.groups) ELSE x[f]]
States == o.states
StateIds == DOMAIN States
Tables == {States[s].table : s \in StateIds}
IsConv(s) == States[s].kind = "conv"

\* Physical blocks: 0 is the null block, then each group's own columns, then
\* a block of each group for a boundary checkpoint.
Columns == cdiv(MaxTokens, o.block) + o.S + 1
Table(g, c) == IF c \in 0..(Columns - 1) THEN 1 + (g - 1) * Columns + c ELSE 0
CheckpointBlock(g) == Cardinality(Tables) * Columns + g
Blocks == 0..CheckpointBlock(Cardinality(Tables))
Block(s, c) == Table(States[s].table, c)
-----------------------------------------------------------------------------
(* What a block holds. A recurrent state: how many tokens it summarises. A  *)
(* convolution: the tokens of a window of K + S, zero before the first.     *)
Width == K + o.S
Token(p) == Larger(p, 0)
Window(first, from) == [i \in 0..(Width - 1) |-> IF i < K + from THEN Token(first + i) ELSE Wrong]
WrongWindow == [i \in 0..(Width - 1) |-> Wrong]
Garbage(s) == IF IsConv(s) THEN WrongWindow ELSE Wrong

\* memmove of the window by "bias" tokens, token by token from low to high.
ShiftConv(blocks, s, src, dst, bias) ==
  LET Move(mid, k) == [mid EXCEPT ![s, dst][k - 1] = mid[s, src][k - 1 + bias]]
  IN  FoldLeft(Move, blocks, [k \in 1..(Width - bias) |-> k])
\* The bias selects the draft's column of a recurrent state.
CopyTemporal(blocks, s, src, dst) == [blocks EXCEPT ![s, dst] = blocks[s, src]]

\* dst[s]: the block written of state s.
_copy_mamba_state_block(blocks, src_col, dst, bias) ==
  LET Copy(done, s) ==
        IF IsConv(s) THEN ShiftConv(done, s, Block(s, src_col), dst[s], bias)
        ELSE CopyTemporal(done, s, Block(s, src_col + bias), dst[s])
  IN  FoldLeft(Copy, blocks, [s \in StateIds |-> s])
-----------------------------------------------------------------------------
Init ==
  /\ r \in Requests
  /\ o \in {WithMetadata(x) : x \in {y \in Options : Consistent(y.groups)}}
  /\ computed = 0 /\ tokens = r.tokens
  /\ state_idx = (IF o.mode = "v2" THEN -1 ELSE NoEntry) /\ resumed = FALSE
  /\ accepted = 1 /\ step = [n |-> 0, d |-> 0, prefill |-> FALSE]
  /\ mem = [x \in StateIds \X Blocks |-> Garbage(x[1])]
  /\ used = {} /\ captured = 0 /\ phase = "schedule" /\ depth = 0

(* Before the step.                                                         *)
cleanup_mamba_state_idx == IF resumed THEN NoEntry ELSE state_idx
Migrate(prev, curr) ==
  IF prev \notin {-1, curr}
  THEN /\ mem' = _copy_mamba_state_block(mem, prev, [s \in StateIds |-> Block(s, curr)], Larger(accepted - 1, 0))
       /\ accepted' = 1
  ELSE UNCHANGED <<mem, accepted>>

preprocess_mamba(n) ==
  LET entry == cleanup_mamba_state_idx
      prev == IF entry = NoEntry THEN (computed - 1) \div o.block ELSE entry
      curr == cdiv(computed + n, o.block) - 1
  IN  state_idx' = curr /\ Migrate(prev, curr)

preprocess_mamba_align_fused_kernel(n) ==
  LET curr == (computed + n + o.block - 1) \div o.block - 1
  IN  state_idx' = curr /\ Migrate(state_idx, curr)

\* The chunk may be shorter than the split says (encoder inputs, lookahead).
Schedule ==
  /\ phase = "schedule" /\ depth < MaxDepth
  /\ \E prefill \in {computed < Larger(r.prompt, tokens - 1)} :
       \E n \in IF prefill
                THEN 1.._mamba_block_aligned_split([r EXCEPT !.tokens = tokens], o, computed,
                          Smaller(tokens - computed, o.max_tokens), FALSE, {})
                ELSE 1..(1 + o.S) :
         /\ computed + n <= MaxTokens
         /\ step' = [n |-> n, d |-> IF prefill THEN 0 ELSE n - 1, prefill |-> prefill]
         /\ IF o.mode = "v2" THEN preprocess_mamba_align_fused_kernel(n) ELSE preprocess_mamba(n)
  /\ used' = used \cup {state_idx'}
  /\ resumed' = FALSE /\ captured' = 0 /\ phase' = "forward" /\ depth' = depth + 1
  /\ UNCHANGED <<r, o, computed, tokens>>

(* The layers read the column of the step's last token, offset by the       *)
(* tokens accepted before it, and write what each token leaves behind.      *)
compute_aligned_state_indices(s) ==
  [j \in 0..o.S |-> Block(s, Larger((computed + step.n - 1) \div o.block, 0) + j)]
ReadAt == IF step.prefill THEN 0 ELSE accepted - 1

Forward ==
  /\ phase = "forward" /\ phase' = "sample"
  /\ LET Written(s, b) ==
           LET at == compute_aligned_state_indices(s)
               hit == {j \in 0..o.S : at[j] = b}
               j == CHOOSE j \in hit : TRUE
           IN  IF IsConv(s)
               THEN IF b # at[0] THEN mem[s, b]
                    ELSE IF step.prefill THEN Window(computed + step.n - K + 1, 0)
                    ELSE Window(computed + 2 - K, step.d)
               ELSE IF hit = {} THEN mem[s, b]
               ELSE IF step.prefill THEN IF j = 0 THEN computed + step.n ELSE mem[s, b]
               ELSE IF j <= step.d THEN computed + 1 + j ELSE mem[s, b]
     IN  mem' = [x \in DOMAIN mem |-> Written(x[1], x[2])]
  /\ UNCHANGED <<r, o, computed, tokens, state_idx, resumed, accepted, step, used, captured, depth>>
-----------------------------------------------------------------------------
(* After the step, "a" tokens accepted (one sampled, the rest drafts). What *)
(* was computed from rejected drafts is worth nothing.                      *)
Reject(a) ==
  LET Keep(t) == IF t > computed + step.n - step.d + a - 1 THEN Wrong ELSE t
  IN  [x \in DOMAIN mem |->
         IF IsConv(x[1]) THEN [i \in DOMAIN mem[x] |-> Keep(mem[x][i])] ELSE Keep(mem[x])]

\* The decision of the fused kernel. running: tokens of the running slot.
Saved(blocks, running, new, a) ==
  LET aligned == FloorTo(new, o.block)
      bias == aligned - running
      dest == aligned \div o.block - 1
      same == state_idx = dest
  IN  IF aligned < running THEN [mem |-> blocks, accepted |-> a]
      ELSE [mem |-> IF same /\ bias = 0 THEN blocks
                    ELSE _copy_mamba_state_block(blocks, state_idx, [s \in StateIds |-> Block(s, dest)], bias),
            accepted |-> IF same THEN 1 ELSE a]

run_fused_postprocess(blocks, a) ==
  LET running == computed + step.n - step.d
  IN  Saved(blocks, running, running + a - 1, a)
SavedTooEarly(blocks, new, a) == Saved(blocks, new - a, new, a)

run_fused_postprocess_align(blocks, new, a) == Saved(blocks, new - a + 1, new, a)

\* An endpoint a boundary checkpoint was asked for.
checkpoint_request_boundaries(blocks, a) ==
  _copy_mamba_state_block(blocks, state_idx, [s \in StateIds |-> CheckpointBlock(States[s].table)], a - 1)

Sample ==
  /\ phase = "sample" /\ phase' = "schedule"
  /\ \E a \in 1..(1 + step.d), capture \in BOOLEAN :
       LET new == computed + step.n - step.d + a - 1
           blocks == IF capture THEN checkpoint_request_boundaries(Reject(a), a) ELSE Reject(a)
       IN  \E after \in {CASE o.mode = "scalar" -> [mem |-> blocks, accepted |-> 1]
                           [] o.mode = "fused" -> run_fused_postprocess(blocks, a)
                           [] o.mode = "v2" -> run_fused_postprocess_align(blocks, new, a)} :
           /\ mem' = after.mem /\ accepted' = after.accepted /\ computed' = new
           /\ tokens' = Larger(tokens, new + 1)
           /\ captured' = IF capture THEN new ELSE 0
  /\ UNCHANGED <<r, o, state_idx, resumed, step, used, depth>>

\* Preempted and resumed from a cached column or from nothing, in new blocks.
\* The first runner drops the entry at the next step; the second sets it now.
Preempt ==
  /\ phase = "schedule" /\ computed > 0 /\ depth < MaxDepth
  /\ \E full \in {-1} \cup {c \in used : (c + 1) * o.block <= Smaller(computed, tokens - 1)} :
       /\ computed' = (full + 1) * o.block
       /\ mem' = [x \in DOMAIN mem |->
                    IF full # -1 /\ x[2] = Block(x[1], full) THEN mem[x] ELSE Garbage(x[1])]
       /\ used' = {full} \ {-1}
       /\ IF o.mode = "v2" THEN state_idx' = full /\ resumed' = FALSE
          ELSE resumed' = TRUE /\ UNCHANGED state_idx
  /\ accepted' = 1 /\ captured' = 0 /\ depth' = depth + 1
  /\ UNCHANGED <<r, o, tokens, step, phase>>

Next == Schedule \/ Forward \/ Sample \/ Preempt
Spec == Init /\ [][Next]_vars
-----------------------------------------------------------------------------
(* Properties.                                                              *)
\* Block b holds, at "offset", state s after exactly t tokens.
Holds(s, b, offset, t) ==
  IF IsConv(s) THEN \A i \in 0..(K - 1) : mem[s, b][offset + i] = Token(t - K + 1 + i)
  ELSE mem[s, b] = t

\* A step starts from the state after the computed tokens, in every layer:
\* no rejected draft, no other column, no window that was shifted twice.
StartsFromComputed ==
  phase = "forward" /\ computed > 0 =>
    \A s \in StateIds :
      IF IsConv(s) THEN Holds(s, compute_aligned_state_indices(s)[0], ReadAt, computed)
      ELSE Holds(s, compute_aligned_state_indices(s)[ReadAt], 0, computed)

\* A full column that the running state went through holds the state at its
\* end: what the prefix cache will hand to another request.
CachedColumnsExact ==
  phase = "schedule" =>
    \A c \in used : (c + 1) * o.block <= computed =>
      \A s \in StateIds : Holds(s, Block(s, c), 0, (c + 1) * o.block)

\* A captured checkpoint is the state of the committed tokens.
CheckpointIsExact ==
  captured > 0 => \A s \in StateIds : Holds(s, CheckpointBlock(States[s].table), 0, captured)
=============================================================================
