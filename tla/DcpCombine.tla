------------------------------ MODULE DcpCombine ------------------------------
(* Combining the partial attention of the ranks that share a KV cache       *)
(* (dcp.py). Each rank attends all heads over its shard of the cache; the   *)
(* partial outputs are weighted by their log-sum-exp (LSE) and added up.    *)
(* Three ways: gather the LSEs, scale and reduce-scatter the heads ("rs")   *)
(* or all-reduce them ("ar"), or exchange outputs packed with their LSEs    *)
(* and combine on the receiver ("a2a"). An LSE is its exponential: 0 for    *)
(* minus infinity. The outputs of a rank without keys are arbitrary.        *)
EXTENDS Integers, Sequences, FiniteSets

CONSTANTS
  N,         \* ranks
  HeadsPerRank,
  Lses,      \* functions <<rank, head>> |-> LSE
  Batches    \* [rows, query_start_loc, seq_lens: the requests' keys on a rank]

VARIABLES
  how, lse, batch,   \* the call: "rs", "ar" or "a2a", and its arguments
  stage,     \* "partial", "masked", "exchanged", "combined"
  masked,    \* LSEs after the mask: <<rank, row, head>>
  received,  \* what a rank has after the exchange: <<rank, source, row, head>>
  out        \* <<rank, row, head of the rank>> |-> weighted partial outputs
vars == <<how, lse, batch, stage, masked, received, out>>

Ranks == 0..(N - 1)
H == N * HeadsPerRank
Heads == 0..(H - 1)
Rows == 0..(batch.rows - 1)
NaN == -1
PosInf == -2
SumOf(f) == LET S[k \in 0..N] == IF k = 0 THEN 0 ELSE S[k - 1] + f[k - 1] IN S[N]
Least(a, b) == IF a < b THEN a ELSE b

num_seqs == Len(batch.query_start_loc) - 1
num_rows == batch.query_start_loc[num_seqs + 1]
_validate_dcp_empty_shard_args == \A r \in Ranks : Len(batch.seq_lens[r]) = num_seqs

\* The request of a row: how many boundaries lie at or below it.
sequence_index(row) ==
  Least(Cardinality({i \in 1..num_seqs : batch.query_start_loc[i + 1] <= row}), num_seqs - 1)

PaddingKept(r, row) ==
  num_seqs = 0 \/ batch.seq_lens[r][sequence_index(row) + 1] = 0

\* Rows of requests without keys on the rank and rows of padding. Both the
\* eager pass and the packing kernel decide it; with no request at all every
\* row is padding.
mask_dcp_empty_shards_(r, row) ==
  num_seqs = 0 \/ row >= num_rows \/ batch.seq_lens[r][sequence_index(row) + 1] = 0
row_is_empty(r, row) ==
  row >= num_rows \/ batch.seq_lens[r][sequence_index(row) + 1] = 0

Init ==
  /\ how \in {"rs", "ar", "a2a"} /\ lse \in Lses /\ batch \in Batches
  /\ _validate_dcp_empty_shard_args
  /\ stage = "partial" /\ masked = <<>> /\ received = <<>> /\ out = <<>>

Go(from, to) == stage = from /\ stage' = to /\ UNCHANGED <<how, lse, batch>>

\* _cp_lse_common: mask the rank's LSEs, gather everybody's.
MaskLse ==
  /\ how # "a2a" /\ Go("partial", "masked")
  /\ masked' = [x \in Ranks \X Rows \X Heads |->
                  IF mask_dcp_empty_shards_(x[1], x[2]) THEN 0 ELSE lse[<<x[1], x[3]>>]]
  /\ UNCHANGED <<received, out>>
\* Each rank sees the LSE of every source, row and head.
_cp_lse_common ==
  /\ how # "a2a" /\ Go("masked", "exchanged")
  /\ received' = [x \in Ranks \X Ranks \X Rows \X Heads |->
                    [head |-> x[4], lse |-> masked[<<x[2], x[3], x[4]>>]]]
  /\ UNCHANGED <<masked, out>>

\* dcp_a2a_lse_reduce: the heads of rank "to" are packed for it.
_dcp_a2a_pack_send_kernel ==
  /\ how = "a2a" /\ Go("partial", "masked")
  /\ masked' = [x \in Ranks \X Ranks \X Rows \X (0..(HeadsPerRank - 1)) |->
       LET head == x[2] * HeadsPerRank + x[4]
       IN  [head |-> head,
            lse |-> IF row_is_empty(x[1], x[3]) THEN 0 ELSE lse[<<x[1], head>>]]]
  /\ UNCHANGED <<received, out>>
dcp_a2a_lse_reduce ==
  /\ how = "a2a" /\ Go("masked", "exchanged")
  /\ received' = [x \in Ranks \X Ranks \X Rows \X (0..(HeadsPerRank - 1)) |->
                    masked[<<x[2], x[1], x[3], x[4]>>]]
  /\ UNCHANGED <<masked, out>>

\* An LSE that is no number counts as minus infinity.
Clean(v) == IF v \in {NaN, PosInf} THEN 0 ELSE v
Weights(r, row, head) == [s \in Ranks |-> Clean(received[<<r, s, row, head>>].lse)]
Part(s, row, head, w, total) == [source |-> s, row |-> row, head |-> head, w |-> w, of |-> total]

\* Combined by the receiver; a partial output of weight 0 is left out.
_dcp_a2a_unpack_combine_kernel(r, row, h) ==
  LET w == Weights(r, row, h)
  IN  {Part(s, row, received[<<r, s, row, h>>].head, w[s], SumOf(w)) : s \in {s \in Ranks : w[s] # 0}}

\* The source scales its own output by its share of the gathered LSEs; its
\* own LSE is read again, before it was cleaned.
CorrectAttnCPOutKernel(s, row, head) ==
  LET total == SumOf(Weights(s, row, head))
      own == received[<<s, s, row, head>>].lse
  IN  IF total = 0 \/ own \in {0, NaN, PosInf} THEN {} ELSE {Part(s, row, head, own, total)}

\* reduce_scatter gives a rank its slice of the heads, all_reduce all of them.
cp_lse_ag_out_rs ==
  /\ how = "rs" /\ Go("exchanged", "combined")
  /\ out' = [x \in Ranks \X Rows \X (0..(HeadsPerRank - 1)) |->
               UNION {CorrectAttnCPOutKernel(s, x[2], x[1] * HeadsPerRank + x[3]) : s \in Ranks}]
  /\ UNCHANGED <<masked, received>>
cp_lse_ag_out_ar ==
  /\ how = "ar" /\ Go("exchanged", "combined")
  /\ out' = [x \in Ranks \X Rows \X Heads |->
               UNION {CorrectAttnCPOutKernel(s, x[2], x[3]) : s \in Ranks}]
  /\ UNCHANGED <<masked, received>>
_dcp_a2a_unpack_combine ==
  /\ how = "a2a" /\ Go("exchanged", "combined")
  /\ out' = [x \in Ranks \X Rows \X (0..(HeadsPerRank - 1)) |->
               _dcp_a2a_unpack_combine_kernel(x[1], x[2], x[3])]
  /\ UNCHANGED <<masked, received>>

Next ==
  \/ MaskLse \/ _cp_lse_common \/ cp_lse_ag_out_rs \/ cp_lse_ag_out_ar
  \/ _dcp_a2a_pack_send_kernel \/ dcp_a2a_lse_reduce \/ _dcp_a2a_unpack_combine
Spec == Init /\ [][Next]_vars
-----------------------------------------------------------------------------
\* The request whose query rows include "row", if any, and its keys on a rank.
OwnersOf(row) ==
  {i \in 1..num_seqs : batch.query_start_loc[i] <= row /\ row < batch.query_start_loc[i + 1]}
HasKeys(s, row) == \E i \in OwnersOf(row) : batch.seq_lens[s][i] > 0
Contributes(s, row, head) == HasKeys(s, row) /\ lse[<<s, head>>] > 0

\* Whichever way the ranks combine, each gets for each of its heads exactly
\* the outputs of the shards that hold keys of the row's request, weighted by
\* their share of the sum over those shards; garbage of empty shards, NaNs
\* and rows of padding contribute nothing.
CombineIsGlobalAttention ==
  stage = "combined" =>
    \A x \in DOMAIN out :
      LET head == IF how = "ar" THEN x[3] ELSE x[1] * HeadsPerRank + x[3]
          total == SumOf([s \in Ranks |-> IF Contributes(s, x[2], head) THEN lse[<<s, head>>] ELSE 0])
      IN  out[x] = {Part(s, x[2], head, lse[<<s, head>>], total) :
                      s \in {s \in Ranks : Contributes(s, x[2], head)}}
=============================================================================
