---------------------------- MODULE WeightShards ----------------------------
(* Loading one parameter of a tensor-parallel linear layer on one rank      *)
(* (vllm/model_executor/layers/linear.py). A layer is a list of groups of   *)
(* rows (q, k, v; gate, up; one group for a plain layer); the rank holds    *)
(* one slice of each, back to back. A parameter stores its axis in units:   *)
(* rows, packed words, storage words of the input, or quantisation blocks   *)
(* with one scale each. The checkpoint has fewer rows than the layer where  *)
(* the layer was padded to fit the number of ranks (the TP3 geometry).      *)
(* Allocation (create_weights), load_tensor_parallel_weight and the methods *)
(* of the parameter classes are not in the repository.                      *)
EXTENDS Integers, Sequences, SequencesExt

CONSTANTS
  Layers,   \* the layers to load, made by the class operators below
  Params    \* [kind, unit, v2]: how an axis is stored, and by which loader

VARIABLES
  layer, param, rank,
  axis,     \* the rank's parameter: <<group, unit of the checkpoint>> or a mark
  pending,  \* groups not loaded yet
  outcome   \* "loading", "loaded", or "rejected" once a loader raised

vars == <<layer, param, rank, axis, pending, outcome>>

Unset == <<0, 0>>   \* uninitialised memory
Zero  == <<0, 1>>   \* padding
Ceil(a, b) == (a + b - 1) \div b
Total(sizes) == FoldSeq(LAMBDA a, b : a + b, 0, sizes)
-----------------------------------------------------------------------------
(* The classes. A group: the checkpoint's rows, the rows the layer declares *)
(* the checkpoint to have, the rank's rows, how many consecutive ranks hold *)
(* the same slice, and whether loading may pad.                             *)
Group(loaded, local, sharers, padded) ==
  [loaded |-> loaded, declared |-> loaded, local |-> local,
   sharers |-> sharers, padded |-> padded]

_validate_loaded_axis_size(loaded, physical) == loaded \in 1..physical

ColumnParallelLinear(tp, output, loaded) ==
  [cls |-> "column", tp |-> tp, group_size |-> 1,
   ok |-> _validate_loaded_axis_size(loaded, output) /\ output % tp = 0,
   groups |-> <<Group(loaded, output \div tp, 1, loaded # output)>>]

\* Sharded over groups of ranks that decode one context together.
DCPGroupColumnParallelLinear(world, group_size, output, loaded) ==
  LET L == ColumnParallelLinear(world \div group_size, output, loaded)
  IN  [L EXCEPT !.group_size = group_size]

MergedColumnParallelLinear(tp, outputs, loaded) ==
  [cls |-> "merged", tp |-> tp, group_size |-> 1,
   ok |-> \A i \in DOMAIN outputs :
            _validate_loaded_axis_size(loaded[i], outputs[i]) /\ outputs[i] % tp = 0,
   groups |-> [i \in DOMAIN outputs |->
                 Group(loaded[i], outputs[i] \div tp, 1, loaded[i] # outputs[i])]]

num_kv_heads(tp, kv) == IF tp >= kv THEN 1 ELSE kv \div tp
num_kv_head_replicas(tp, kv) == IF tp >= kv THEN tp \div kv ELSE 1
HeadsDivide(tp, heads, kv) ==
  heads % tp = 0 /\ (IF tp >= kv THEN tp % kv = 0 ELSE kv % tp = 0)

QKVParallelLinear(tp, heads, kv, size, v_size, loaded_heads, loaded_kv) ==
  LET replicas == num_kv_head_replicas(tp, kv)
      KV(width) == Group(loaded_kv * width, num_kv_heads(tp, kv) * width,
                         replicas, loaded_kv # kv)
  IN  [cls |-> "qkv", tp |-> tp, group_size |-> 1,
       ok |-> /\ _validate_loaded_axis_size(loaded_heads, heads)
              /\ _validate_loaded_axis_size(loaded_kv, kv)
              /\ HeadsDivide(tp, heads, kv),
       groups |-> <<Group(loaded_heads * size, (heads \div tp) * size, 1,
                          loaded_heads # heads), KV(size), KV(v_size)>>]

\* q, k, v, index_q and one index_k head that every rank holds.
MinimaxM3QKVParallelLinearWithIndexer(tp, heads, kv, size, index_size) ==
  LET L == QKVParallelLinear(tp, heads, kv, size, size, heads, kv)
  IN  [L EXCEPT !.cls = "indexer",
                !.groups = @ \o <<@[2], Group(index_size, index_size, tp, FALSE)>>]

\* The two latent groups are replicated, by declaring them tp times as wide.
KimiK3MergedQKVGateLinear(tp, q_latent, kv_latent, gate) ==
  LET L == MergedColumnParallelLinear(tp, <<q_latent * tp, kv_latent * tp, gate>>,
                                      <<q_latent * tp, kv_latent * tp, gate>>)
      Latent(size) == [Group(size, size, tp, FALSE) EXCEPT !.declared = size * tp]
  IN  [L EXCEPT !.cls = "kimi", !.groups[1] = Latent(q_latent),
                !.groups[2] = Latent(kv_latent)]

RowParallelLinear(tp, input, loaded) ==
  [ColumnParallelLinear(tp, input, loaded) EXCEPT !.cls = "row"]
-----------------------------------------------------------------------------
(* Sizes of the parameter's axis.                                           *)
Groups == DOMAIN layer.groups
G(g) == layer.groups[g]
Locals(L) == [i \in DOMAIN L.groups |-> L.groups[i].local]

adjust_block_scale_shard(size) == Ceil(size, param.unit)
InUnits(size) ==
  IF param.kind = "block" THEN adjust_block_scale_shard(size) ELSE size \div param.unit

\* The checkpoint's tensor of group g, and several groups fused on disk.
Checkpoint(g) == [j \in 1..InUnits(G(g).loaded) |-> <<g, j - 1>>]
Fused(ids) == FlattenSeq([i \in DOMAIN ids |-> Checkpoint(ids[i])])

\* Local offset of a group: behind the rows of the groups before it.
_get_shard_offset_mapping(g) == Total(SubSeq(Locals(layer), 1, g - 1))

_validate_packed_loaded_size(loaded) ==
  param.kind = "packed" => loaded % param.unit = 0

\* Whether a padded axis can be cut at the rank's boundaries ...
_validate_padded_axis_layout(loaded, physical, size, offset) ==
  LET Aligned(boundaries) == \A b \in boundaries : b % param.unit = 0
      inner == {b \in {offset, offset + size} : 0 < b /\ b < physical}
  IN  CASE param.kind = "block" ->
             Aligned(inner \cup {s \in {size} : s < physical})
        [] param.kind \in {"packed", "storage"} ->
             Aligned({loaded, offset, offset + size})
        [] OTHER -> TRUE
\* ... and the size its checkpoint tensor must have. A packed parameter that
\* is none of the packed classes (v1) is given its unpacked size.
expected_loaded_size(loaded) ==
  IF param.kind = "packed" /\ ~param.v2 THEN loaded ELSE InUnits(loaded)

\* What the loaders hand to load_tensor_parallel_weight: "size" units of t
\* from "start" go to the units behind "at".
Fits(t, start, size, padded, loaded) ==
  IF padded THEN Len(t) = expected_loaded_size(loaded) ELSE start + size <= Len(t)
load_tensor_parallel_weight(t, start, size) ==
  [j \in 1..size |-> IF start + j <= Len(t) THEN t[start + j] ELSE Zero]
-----------------------------------------------------------------------------
(* The loaders, for one group: where its slice lies in the checkpoint and   *)
(* in the parameter, and whether the loader accepts it.                     *)
Plan(at, size, start, ok) == [at |-> at, size |-> size, start |-> start, ok |-> ok]

\* ColumnParallelLinear: the slice is the whole axis. Only v1 looks at the
\* packed size of a layer that is not padded.
ColumnShard(t) ==
  LET g == G(1)
      size == Len(axis)
      start == rank * size
  IN  Plan(0, size, start,
        /\ ~param.v2 => _validate_packed_loaded_size(g.declared)
        /\ g.padded => _validate_padded_axis_layout(g.declared, g.local * layer.tp,
                                                    g.local, rank * g.local)
        /\ Fits(t, start, size, g.padded, g.declared))

RowShard(t) == ColumnShard(t)   \* along the input axis

\* A group of several, held by the rank as slice "shard_rank".
GroupShard(g, t, shard_rank) ==
  LET offset == _get_shard_offset_mapping(g)
      size == InUnits(G(g).local)
      start == shard_rank * size
  IN  Plan(InUnits(offset), size, start,
        /\ G(g).padded => _validate_padded_axis_layout(G(g).declared,
                            Total(Locals(layer)), G(g).local, offset)
        /\ Fits(t, start, size, G(g).padded, G(g).declared))

MergedShard(g, t)   == GroupShard(g, t, rank)
MergedShardV2(g, t) == GroupShard(g, t, rank)

ReplicaByRemainder(g) == IF g = 1 THEN rank ELSE rank % G(2).sharers

replica(g) == IF g = 1 THEN rank ELSE rank \div G(2).sharers
QkvShard(g, t)   == GroupShard(g, t, replica(g))
QkvShardV2(g, t) == GroupShard(g, t, replica(g))

\* v1 takes slice 0 of index_k; v2 divides the rank by a replica count of tp.
\* v1 is for parameters stored in rows: it converts blocks but no packed words.
UnpackedUnits(size) == IF param.kind = "block" THEN adjust_block_scale_shard(size) ELSE size
IndexerShard(g, t) ==
  LET at == UnpackedUnits(_get_shard_offset_mapping(g))
      size == UnpackedUnits(G(g).local)
      start == (IF g = 5 THEN 0 ELSE replica(g)) * size
  IN  Plan(at, size, start, at + size <= Len(axis) /\ start + size <= Len(t))
IndexerShardV2(g, t) == GroupShard(g, t, IF g = 5 THEN rank \div layer.tp ELSE replica(g))

\* tp_rank is 0 while a latent group is loaded.
_load_with_replicated_latents(g, t) == GroupShard(g, t, IF g < 3 THEN 0 ELSE rank)

ShardPlan(g, t) ==
  CASE layer.cls = "column"  -> ColumnShard(t)
    [] layer.cls = "row"     -> RowShard(t)
    [] layer.cls = "merged"  -> IF param.v2 THEN MergedShardV2(g, t) ELSE MergedShard(g, t)
    [] layer.cls = "qkv"     -> IF param.v2 THEN QkvShardV2(g, t) ELSE QkvShard(g, t)
    [] layer.cls = "indexer" -> IF param.v2 THEN IndexerShardV2(g, t) ELSE IndexerShard(g, t)
    [] layer.cls = "kimi"    -> _load_with_replicated_latents(g, t)
-----------------------------------------------------------------------------
(* Groups fused on disk: the tensor is cut by the declared sizes, and every *)
(* cut is loaded like a tensor of its own.                                  *)
Declared(ids) == [i \in DOMAIN ids |-> G(ids[i]).declared]
RowsBefore(ids, i) == Total(SubSeq(Declared(ids), 1, i - 1))
Cut(ids, i) == InUnits(Declared(ids)[i])

LayoutsValid(ids, t) ==
  LET padded == \E i \in DOMAIN ids : G(ids[i]).padded
  IN  /\ \A i \in DOMAIN ids : _validate_packed_loaded_size(Declared(ids)[i])
      /\ padded =>
           /\ \A i \in DOMAIN ids : _validate_padded_axis_layout(Declared(ids)[i],
                Total(Locals(layer)), G(ids[i]).local, _get_shard_offset_mapping(ids[i]))
           /\ Len(t) = Total([i \in DOMAIN ids |-> Cut(ids, i)])

\* First unit of the i-th cut; merged v2 adds up the sizes in units.
MergedCuts(ids, i) == InUnits(RowsBefore(ids, i))
MergedCutsV2(ids, i) ==
  IF param.kind = "block" THEN Total([k \in 1..(i - 1) |-> Cut(ids, k)])
  ELSE InUnits(RowsBefore(ids, i))
QkvCuts(ids, i)   == InUnits(RowsBefore(ids, i))
QkvCutsV2(ids, i) == InUnits(RowsBefore(ids, i))
CutAt(ids, i) ==
  CASE layer.cls = "qkv" -> IF param.v2 THEN QkvCutsV2(ids, i) ELSE QkvCuts(ids, i)
    [] OTHER -> IF param.v2 THEN MergedCutsV2(ids, i) ELSE MergedCuts(ids, i)

\* Shard ids a caller may pass: one group, or a run of neighbours.
validate_shard_id(ids) ==
  CASE layer.cls = "qkv" -> ids = <<1, 2, 3>>
    [] layer.cls \in {"merged", "kimi"} -> \A i \in 2..Len(ids) : ids[i] = ids[i - 1] + 1
    [] OTHER -> FALSE
-----------------------------------------------------------------------------
\* The third of three groups with part-filled last blocks is looked for one
\* block too early by all loaders but merged v2; no converter fuses such.
Concatenable(ids) ==
  param.kind = "block" => \A i \in 3..Len(ids) : RowsBefore(ids, i) % param.unit = 0

Put(plans, tensors) ==   \* writes of the groups in DOMAIN plans
  [k \in DOMAIN axis |->
     LET here == {g \in DOMAIN plans : k \in (plans[g].at + 1)..(plans[g].at + plans[g].size)}
     IN  IF here = {} THEN axis[k]
         ELSE LET g == CHOOSE g \in here : \A h \in here : h <= g
              IN  load_tensor_parallel_weight(tensors[g], plans[g].start,
                    plans[g].size)[k - plans[g].at]]

Finish(groups, ok, stored) ==
  /\ outcome' = IF ~ok THEN "rejected" ELSE IF groups = pending THEN "loaded" ELSE "loading"
  /\ axis' = IF ok THEN stored ELSE axis
  /\ pending' = IF ok THEN pending \ groups ELSE pending
  /\ UNCHANGED <<layer, param, rank>>

Load(g) ==
  /\ outcome = "loading"
  /\ LET t == Checkpoint(g)
         plan == ShardPlan(g, t)
     IN  Finish({g}, plan.ok, Put([h \in {g} |-> plan], [h \in {g} |-> t]))

LoadFused(ids) ==
  /\ outcome = "loading" /\ Len(ids) > 0 /\ validate_shard_id(ids) /\ Concatenable(ids)
  /\ LET t == Fused(ids)
         fits == \A i \in DOMAIN ids : CutAt(ids, i) + Cut(ids, i) <= Len(t)
         Index(g) == CHOOSE i \in DOMAIN ids : ids[i] = g
         Part(g) == SubSeq(t, CutAt(ids, Index(g)) + 1, CutAt(ids, Index(g)) + Cut(ids, Index(g)))
         parts == [g \in Range(ids) |-> Part(g)]
         plans == [g \in Range(ids) |-> ShardPlan(g, parts[g])]
     IN  Finish(Range(ids), LayoutsValid(ids, t) /\ fits /\ \A g \in Range(ids) : plans[g].ok,
                Put(plans, parts))

\* create_weights refuses a stored unit that would straddle the slices of a
\* layer that is not padded, and a checkpoint has whole packed words.
Quantizable(L, p) ==
  /\ p.kind = "storage" => L.cls = "row"
  /\ \A i \in DOMAIN L.groups :
       LET g == L.groups[i]
       IN  /\ ~g.padded => g.local % p.unit = 0 /\ g.loaded % p.unit = 0
           /\ p.kind \in {"packed", "storage"} => g.loaded % p.unit = 0

Init ==
  /\ layer \in {L \in Layers : L.ok}
  /\ param \in {p \in Params : Quantizable(layer, p)}
  /\ rank \in 0..(layer.tp - 1)
  /\ axis = [k \in 1..InUnits(Total(Locals(layer))) |-> Unset]
  /\ pending = Groups
  /\ outcome = "loading"

Next ==
  \/ \E g \in pending : Load(g)
  \/ \E first \in pending, last \in pending : first <= last /\ first..last \subseteq pending
       /\ LoadFused([i \in 1..(last - first + 1) |-> first + i - 1])

Spec == Init /\ [][Next]_vars
-----------------------------------------------------------------------------
\* The view of a rank in a group that decodes one context: its own heads.
_local_view(place) ==
  LET n == Len(axis) \div layer.group_size
  IN  SubSeq(axis, place * n + 1, place * n + n)
-----------------------------------------------------------------------------
(* Properties.                                                              *)
TypeOK ==
  /\ rank \in 0..(layer.tp - 1) /\ pending \subseteq Groups
  /\ outcome \in {"loading", "loaded", "rejected"}
  /\ \A k \in DOMAIN axis : axis[k] \in {Unset, Zero} \cup (Groups \X Nat)

\* The unit with row "row" of the whole group g; the last may be part filled.
UnitOf(g, row) ==
  IF row - (row % param.unit) < G(g).loaded THEN <<g, row \div param.unit>> ELSE Zero

\* Whatever the order and the packaging of the checkpoint, a parameter that
\* was loaded without an error holds, at every local row, the unit of the
\* checkpoint with that row of the layer, and zeros past the checkpoint's
\* rows; a unit never mixes rows of two slices.
ShardsReassemble ==
  outcome = "loaded" =>
    \A g \in Groups : \A j \in 0..(G(g).local - 1) :
      LET local == Total(SubSeq(Locals(layer), 1, g - 1)) + j
          row == (rank \div G(g).sharers) * G(g).local + j
      IN  /\ axis[local \div param.unit + 1] = UnitOf(g, row)
          /\ local % param.unit = row % param.unit

\* A rank of a decode-context group that cuts its own heads out of the
\* group's gets what a plain layer would have given it.
LocalViewIsShard ==
  outcome = "loaded" /\ layer.cls = "column" /\ param.unit = 1 =>
    \A place \in 0..(layer.group_size - 1) :
      LET world == rank * layer.group_size + place
          n == G(1).local \div layer.group_size
      IN  _local_view(place) = [j \in 1..n |-> UnitOf(1, world * n + j - 1)]

\* A layer whose slices end at unit boundaries is never refused, padded or
\* not, fused on disk or not: but for packed parameters of the v1 loaders,
\* of which a padded layer and the one with an indexer refuse all, and for
\* latents fused on disk, which would be cut by their inflated sizes.
AlignedIsAccepted ==
  outcome = "rejected" /\ layer.cls # "kimi" =>
    \E g \in Groups : \/ G(g).local % param.unit # 0
                      \/ (G(g).padded \/ layer.cls = "indexer") /\ param.kind = "packed" /\ ~param.v2
=============================================================================
