--------------------------- MODULE ExpertPromotion ---------------------------
(* Where the experts of MoE layers live. While the model is built, the walk  *)
(* over its layers moves parameters to the host: those of chosen layers into *)
(* allocations of mixed residency, which may fail halfway, others as long as *)
(* a byte budget lasts. Once armed, each layer takes its share of the device *)
(* memory that is left, in the forward pass that comes by first. A promotion *)
(* is one action here; VmmAllocation and ExpertBanks have its steps.         *)
EXTENDS Integers, Sequences, FiniteSets, FiniteSetsExt, SequencesExt, Folds

CONSTANTS Layers,    \* ordinals of the MoE layers, 1..n
          Experts,   \* experts per layer
          Params,    \* sequence of [weight: BOOLEAN, row: bytes of an expert], in _PARAM_ORDER
          Gran,      \* bytes of a page
          Envs,      \* settings: see Env in the MC module
          Frees      \* device memory that is free when the walk is over

VARIABLES env, place,   \* place[l][i]: Device, Host, or an allocation
          offloaded,    \* cpu_offload_bytes
          ordinal,      \* next layer of the walk; beyond the last: serving
          mode,         \* mode[l]: how the layer is promoted, see _attach_expert_banks
          pending,      \* _PENDING_INPLACE_LAYERS or _PENDING_DEFERRED_BANKS
          promoted,     \* _deferred_bank_promoted
          armed,        \* the arm file exists
          free, atFirst \* device memory, now and before the first promotion
vars == <<env, place, offloaded, ordinal, mode, pending, promoted, armed, free, atFirst>>

cdiv(a, b) == (a + b - 1) \div b
SumOf(f, S) == MapThenFoldSet(+, 0, LAMBDA i : f[i], LAMBDA s : CHOOSE i \in s : TRUE, S)
Indices == DOMAIN Params
Bytes(i) == Experts * Params[i].row
Weights == {i \in Indices : Params[i].weight}
-----------------------------------------------------------------------------
(* An allocation: pages of its hot prefix, of its cold rest, or its chunks.  *)
region_plan(i) ==
  LET pages == cdiv(Bytes(i), Gran)
  IN  [pages |-> pages, hot |-> Min({pages, cdiv(pages * (env.quarters - env.cold), env.quarters)})]
Chunks(pages, step) == [k \in 1..cdiv(pages, step) |-> Min({step, pages - (k - 1) * step})]
Allocation(i) ==
  LET plan == region_plan(i)
      step == Max({1, cdiv(env.chunk_experts * Params[i].row, Gran)})
      chunked == env.chunk_experts > 0 /\ plan.hot = 0 /\ Params[i].weight
  IN  [where |-> "vmm", chunks |-> IF chunked THEN Chunks(plan.pages, step) ELSE <<>>, next |-> 1,
       hot |-> plan.hot, cold |-> IF chunked THEN 0 ELSE plan.pages - plan.hot]
Device == [where |-> "device"]
Host == [where |-> "host"]
HasOwner(p) == p.where = "vmm"
HotPages(a) == a.hot + SumOf(a.chunks, 1..(a.next - 1))

Init ==
  /\ env \in Envs
  /\ place = [l \in Layers |-> [i \in Indices |-> Device]] /\ offloaded = 0 /\ ordinal = 1
  /\ mode = [l \in Layers |-> "none"] /\ pending = {} /\ promoted = {} /\ armed = FALSE
  /\ free = 0 /\ atFirst = 0

\* maybe_vmm_wrap_layer: the parameters in order, up to one the driver fails on.
maybe_vmm_wrap_layer(l, done) ==
  [i \in Indices |-> IF i <= done THEN Allocation(i) ELSE Device]
Wrapped(l) == env.vmm /\ l \in env.range
\* _maybe_offload_to_cpu: parameters in order while the budget is not used up.
\* One that was put into an allocation before the conversion failed goes too.
_maybe_offload_to_cpu(p, before) ==
  LET Step(acc, i) ==
        IF acc.bytes >= env.budget \/ acc.place[i] = Host THEN acc
        ELSE [bytes |-> acc.bytes + Bytes(i), place |-> [acc.place EXCEPT ![i] = Host]]
  IN  FoldLeft(Step, [bytes |-> before, place |-> p], [i \in Indices |-> i])
\* wrap_modules, one layer; then process_weights_after_loading once all are in.
wrap_modules ==
  /\ ordinal \in Layers
  /\ \E done \in IF Wrapped(ordinal) THEN 0..Len(Params) ELSE {0} :
       LET p == maybe_vmm_wrap_layer(ordinal, done)
           converted == Wrapped(ordinal) /\ done = Len(Params)
           result == IF converted \/ ordinal \notin env.range THEN [bytes |-> offloaded, place |-> p]
                     ELSE _maybe_offload_to_cpu(p, offloaded)
       IN  place' = [place EXCEPT ![ordinal] = result.place] /\ offloaded' = result.bytes
  /\ ordinal' = ordinal + 1
  /\ UNCHANGED <<env, mode, pending, promoted, armed, free, atFirst>>

\* How the settings have a layer promoted; "rejected" ends the start.
_attach_expert_banks(l) ==
  LET owned == \A i \in Weights : HasOwner(place[l][i])
  IN  IF env.deferred
      THEN IF ~env.codec \/ env.startup THEN "rejected"
           ELSE IF ~owned THEN "none"
           \* DeferredWeightBanks wants all-cold canonical storage.
           ELSE IF \E i \in Weights : HotPages(place[l][i]) # 0 THEN "rejected" ELSE "banks"
      ELSE IF env.inplace THEN IF owned THEN "inplace" ELSE "none"
      ELSE IF ~env.startup THEN "none"
      ELSE IF env.codec THEN "rejected" ELSE "startup"
process_weights_after_loading ==
  /\ ordinal = Cardinality(Layers) + 1 /\ ordinal' = ordinal + 1
  /\ mode' = [l \in Layers |-> _attach_expert_banks(l)]
  /\ \A l \in Layers : mode'[l] # "rejected"
  /\ pending' = {l \in Layers : mode'[l] \in {"banks", "inplace"}}
  /\ free' \in Frees /\ atFirst' = free'
  /\ UNCHANGED <<env, place, offloaded, promoted, armed>>
Arm == ~armed /\ armed' = TRUE /\ UNCHANGED <<env, place, offloaded, ordinal, mode, pending, promoted, free, atFirst>>
-----------------------------------------------------------------------------
Larger(a, b) == Max({a, b})
\* The budget of a layer, computed while it still counts as pending.
WholeBudget(split) == Larger(0, free - env.reserve)
Share(split) == WholeBudget(split) \div (IF split THEN Larger(1, Cardinality(pending)) ELSE 1)

\* Whole regions in order, each within what the ones before it left.
PromoteWhole(l, budget) ==
  LET Step(acc, i) ==
        LET a == acc.regions[i]
        IN  IF a.cold = 0 \/ Larger(0, budget - acc.pages) < a.cold THEN acc
            ELSE [pages |-> acc.pages + a.cold,
                  regions |-> [acc.regions EXCEPT ![i] = [a EXCEPT !.hot = @ + a.cold, !.cold = 0]]]
  IN  FoldLeft(Step, [pages |-> 0, regions |-> place[l]], SetToSortSeq(Weights, <))
\* Chunks in turn while one of the owners' next chunks still fits.
Fits(acc, i, budget) ==
  LET a == acc.regions[i] IN a.next <= Len(a.chunks) /\ acc.pages + a.chunks[a.next] <= budget
PromoteChunks(l, budget) ==
  LET TakeChunk(acc, i) ==
        IF ~Fits(acc, i, budget) THEN acc
        ELSE [pages |-> acc.pages + acc.regions[i].chunks[acc.regions[i].next],
              regions |-> [acc.regions EXCEPT ![i].next = @ + 1]]
      Turn(acc, k) == FoldLeft(TakeChunk, acc, SetToSortSeq(Weights, <))
      turns == Max({Len(place[l][i].chunks) : i \in Weights})
  IN  FoldLeft(Turn, [pages |-> 0, regions |-> place[l]], [k \in 1..turns |-> k])
Chunked(l) == \A i \in Weights : place[l][i].chunks # <<>>

Promote(l, result) ==
  /\ pending' = pending \ {l} /\ promoted' = promoted \cup {l}
  /\ place' = [place EXCEPT ![l] = result.regions] /\ free' = free - result.pages
  /\ UNCHANGED <<env, offloaded, ordinal, mode, armed, atFirst>>
\* A forward pass of the layer outside of graph capture; captures skip it.
_promote_inplace(l) ==
  /\ ordinal > Cardinality(Layers) + 1 /\ armed /\ mode[l] = "inplace" /\ l \notin promoted
  /\ Promote(l, IF Chunked(l) THEN PromoteChunks(l, Share(TRUE))
                ELSE PromoteWhole(l, Share(FALSE)))
\* In banks without in-place regions the slabs hold whole experts.
ExpertPages == cdiv(SumOf([i \in Weights |-> Params[i].row], Weights), Gran)
_promote_deferred_banks(l) ==
  /\ ordinal > Cardinality(Layers) + 1 /\ armed /\ mode[l] = "banks" /\ l \notin promoted
  /\ LET budget == Share(env.even_split)
     IN  IF env.inplace THEN Promote(l, PromoteWhole(l, budget))
         ELSE Promote(l, [pages |-> ExpertPages * Min({Experts, budget \div ExpertPages}), regions |-> place[l]])

Next == wrap_modules \/ process_weights_after_loading \/ Arm
        \/ \E l \in Layers : _promote_inplace(l) \/ _promote_deferred_banks(l)
Spec == Init /\ [][Next]_vars
-----------------------------------------------------------------------------
\* Promotions leave the reserve untouched, however many layers take part and
\* in whatever order their forward passes come by.
ReserveKept == free >= Min({atFirst, env.reserve})
\* With equal shares no layer is left behind by those that came before it: a
\* promoted layer has all its chunks on the device, or the next chunk of each
\* operand would have gone beyond an equal part of the memory there was.
NoLayerStarved ==
  \A l \in promoted :
    (mode[l] = "inplace" /\ Chunked(l)) =>
      LET part == Larger(0, atFirst - env.reserve) \div Cardinality({k \in Layers : mode[k] = "inplace"})
          mine == SumOf([i \in Weights |-> HotPages(place[l][i])], Weights)
      IN  \A i \in Weights :
            LET a == place[l][i] IN a.next <= Len(a.chunks) => mine + a.chunks[a.next] > part
\* cpu_offload_bytes is what was moved, and the budget is exceeded by less
\* than one parameter; no layer is promoted of which only a part converted.
OffloadIsCounted ==
  LET moved == {x \in Layers \X Indices : place[x[1]][x[2]] = Host}
  IN  /\ offloaded = SumOf([x \in moved |-> Bytes(x[2])], moved)
      /\ moved # {} => \E x \in moved : offloaded - Bytes(x[2]) < env.budget
OnlyOwnedArePromoted ==
  \A l \in pending \cup promoted : \A i \in Weights : HasOwner(place[l][i])
=============================================================================
