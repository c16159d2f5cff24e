---------------------------- MODULE EngramRowCache ----------------------------
(* The host's cache of rows in front of a reader of a table on disk: direct- *)
(* mapped, filled by the misses of a batch at once. Rows that collide, rows  *)
(* named twice in a batch, and rows of other shards are looked up together.  *)
EXTENDS Integers, Sequences, FiniteSets, FiniteSetsExt

CONSTANTS Capacity,              \* rows
          shard_start, shard_end,
          IdBatches,             \* sequences of row numbers, -1 for none
          HasScales              \* whether the reader reads scales as well

VARIABLES tags, weight, scale,   \* _RowCache
          out, out_scale,        \* weight_host, scale_host
          ids, ready             \* of the last batch, and whether it was read
vars == <<tags, weight, scale, out, out_scale, ids, ready>>

NoTag == -1
Unset == 0 \* np.empty
WeightOf(id) == id + 10
ScaleOf(id) == id + 20
Slots == 0..(Capacity - 1)
\* A multiplication modulo 2^64, then modulo the capacity: numbers below zero
\* are numbers from the top.
slots(id) == (IF id < 0 THEN 7 + id ELSE 3 * id) % Capacity
Valid(id) == shard_start <= id /\ id < shard_end

Init ==
  /\ tags = [i \in Slots |-> NoTag] /\ weight = [i \in Slots |-> Unset] /\ scale = [i \in Slots |-> Unset]
  /\ out = <<>> /\ out_scale = <<>> /\ ids = <<>> /\ ready = FALSE

\* array[fill_slots] = values: of several values for one slot the last stays.
FirstAssigned(array, batch, fill, values) ==
  [i \in Slots |-> LET at == {p \in fill : slots(batch[p]) = i}
                   IN  IF at = {} THEN array[i] ELSE values[Min(at)]]
LastAssigned(array, batch, fill, values) ==
  [i \in Slots |-> LET at == {p \in fill : slots(batch[p]) = i}
                   IN  IF at = {} THEN array[i] ELSE values[Max(at)]]
FirstTags(batch, fill) == FirstAssigned(tags, batch, fill, batch)
SetTags(batch, fill) == LastAssigned(tags, batch, fill, batch)
\* ple_reader_run: rows of the shard; for numbers outside of it, nothing.
ple_reader_run(batch) ==
  [weight |-> [p \in DOMAIN batch |-> IF Valid(batch[p]) THEN WeightOf(batch[p]) ELSE Unset],
   scale  |-> [p \in DOMAIN batch |-> IF Valid(batch[p]) THEN ScaleOf(batch[p]) ELSE Unset]]

\* A failing read raises before the cache is written to.
_cached_read_staged(batch) ==
  LET hit == {p \in DOMAIN batch : Valid(batch[p]) /\ tags[slots(batch[p])] = batch[p]}
      rest == DOMAIN batch \ hit
      fill == {p \in rest : Valid(batch[p])}
      side == ple_reader_run(batch)
  IN  /\ ids' = batch
      /\ \/ /\ out' = [p \in DOMAIN batch |-> IF p \in hit THEN weight[slots(batch[p])] ELSE side.weight[p]]
            /\ out_scale' = [p \in DOMAIN batch |-> IF ~HasScales THEN Unset
                              ELSE IF p \in hit THEN scale[slots(batch[p])] ELSE side.scale[p]]
            /\ tags' = SetTags(batch, fill)
            /\ weight' = LastAssigned(weight, batch, fill, side.weight)
            /\ scale' = IF HasScales THEN LastAssigned(scale, batch, fill, side.scale) ELSE scale
            /\ ready' = TRUE
         \/ /\ rest # {} /\ ready' = FALSE /\ out' = <<>> /\ out_scale' = <<>>
            /\ UNCHANGED <<tags, weight, scale>>
Next == \E batch \in IdBatches : _cached_read_staged(batch)
Spec == Init /\ [][Next]_vars
-----------------------------------------------------------------------------
\* Whatever collided before, a batch that was read holds the rows it names.
ReadIsExact ==
  ready => \A p \in DOMAIN ids : Valid(ids[p]) =>
             out[p] = WeightOf(ids[p]) /\ (HasScales => out_scale[p] = ScaleOf(ids[p]))
\* A tag, the weight and the scale of a slot belong to one row of the shard.
SlotIsOneRow ==
  \A i \in Slots : tags[i] # NoTag =>
    Valid(tags[i]) /\ weight[i] = WeightOf(tags[i]) /\ (HasScales => scale[i] = ScaleOf(tags[i]))
=============================================================================
