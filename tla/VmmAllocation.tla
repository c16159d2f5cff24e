---------------------------- MODULE VmmAllocation ----------------------------
(* A weight tensor of mixed residency (MixedResidencyAllocation): one range  *)
(* of addresses whose hot regions are backed by device memory and whose cold *)
(* ones by host memory. Cold regions are promoted, and evicted, under the    *)
(* same addresses while nothing is launched. Every call of the driver may    *)
(* fail; an action is one call, and the error takes the path of the code's   *)
(* exception handlers.                                                       *)
EXTENDS Integers, Sequences, FiniteSets, Functions

CONSTANTS Layouts,      \* of the allocations made: regions, hot, chunked
          KeepHost,     \* DS41_VMM_KEEP_PROMOTED_HOST
          MaxFailures,  \* driver calls that fail without a reason of their own
          MaxLeaks      \* handles of failed promotions that wait for free()

VARIABLES layout,    \* of the allocation at hand
          drv,       \* the driver's memory: see Driver
          own,       \* what the object records: see Owner
          pc,        \* the call that comes next, "rest" between operations
          reg,       \* locals of the operation: region, hot, temp
          failures
vars == <<layout, drv, own, pc, reg, failures>>

Regions == 1..layout.regions
NoHandle == 0
\* The first unused number: handles and temporary addresses are opaque.
FreshFor(used, above) == CHOOSE n \in (above + 1)..(above + Cardinality(used) + 1) :
                           n \notin used /\ \A k \in (above + 1)..(n - 1) : k \in used
\* f with x at a.
With(f, a, x) == [b \in DOMAIN f \cup {a} |-> IF b = a THEN x ELSE f[b]]
NoLocals == [region |-> 1, hot |-> NoHandle, temp |-> 0]
-----------------------------------------------------------------------------
(* The driver. map: which handle backs an address; access: addresses the     *)
(* device may touch; live: handles not released; va: reserved ranges, 0 the  *)
(* canonical one; data: the region whose weights a handle holds (0: none).   *)
Create(h, where) ==
  [drv EXCEPT !.live = @ \cup {h}, !.device = IF where = "device" THEN @ \cup {h} ELSE @ \ {h},
              !.data = With(@, h, 0)]
Reserve(a) == [drv EXCEPT !.va = @ \cup {a}]
MapAt(a, h) == [drv EXCEPT !.map = With(@, a, h)]
SetAccess(as) == [drv EXCEPT !.access = @ \cup as]
Memcpy(to, from) == [drv EXCEPT !.data[drv.map[to]] = drv.data[drv.map[from]]]
UnmapAt(a) == [drv EXCEPT !.map = Restrict(@, DOMAIN @ \ {a}), !.access = @ \ {a}]
Release(h) == [drv EXCEPT !.live = @ \ {h}, !.device = @ \ {h},
                          !.data = Restrict(@, DOMAIN @ \ {h})]
AddressFree(a) == [drv EXCEPT !.va = @ \ {a}]
Readable(a) == a \in DOMAIN drv.map \cap drv.access

\* lib.check: the call at pc "here" succeeds, with its effect on the driver
\* and the bookkeeping behind it, or raises; one that cannot work must raise.
Check(here, can, driver, owner, then, raised) ==
  /\ pc = here
  /\ \/ can /\ drv' = driver /\ own' = owner /\ pc' = then /\ UNCHANGED failures
     \/ (can => failures < MaxFailures) /\ pc' = raised
        /\ failures' = failures + (IF can THEN 1 ELSE 0) /\ UNCHANGED <<drv, own>>
  /\ reg' = (IF pc' = "rest" THEN NoLocals ELSE reg) /\ UNCHANGED layout
Go(here, cond, then) ==
  /\ pc = here /\ cond /\ pc' = then /\ reg' = (IF then = "rest" THEN NoLocals ELSE reg)
  /\ UNCHANGED <<layout, drv, own, failures>>
Quiesce(here, then, raised) == Check(here, TRUE, drv, own, then, raised)
Access(here, a, then, raised) == Check(here, a \in DOMAIN drv.map, SetAccess({a}), own, then, raised)
\* _map up to its cuMemMap: the mapping is recorded before access is set.
_map(here, a, h, then, raised) ==
  Check(here, a \notin DOMAIN drv.map /\ h \in drv.live, MapAt(a, h),
        [own EXCEPT !.mappings = With(@, a, h)], then, raised)
_unmap(here, a, then, raised) ==
  Check(here, a \in DOMAIN drv.map /\ a \in DOMAIN own.mappings, UnmapAt(a),
        [own EXCEPT !.mappings = Restrict(@, DOMAIN @ \ {a})], then, raised)
-----------------------------------------------------------------------------
(* __init__: one handle for the hot regions, one for the cold rest or one    *)
(* for each chunk; created first, then reserved, then mapped in order. Here  *)
(* every region has a handle of its own, of its own number.                  *)
NewDriver == [live |-> {}, map |-> [a \in {} |-> 0], access |-> {}, va |-> {},
              data |-> [h \in {} |-> 0], device |-> {}]
NewOwner == [handles |-> {}, mappings |-> [a \in {} |-> 0], promoted |-> NoHandle,
             chunk |-> 0, hot |-> 0, freed |-> FALSE]
Init ==
  /\ layout \in Layouts
  /\ drv = NewDriver
  /\ own = [NewOwner EXCEPT !.hot = layout.hot]
  /\ pc = "create" /\ reg = NoLocals /\ failures = 0
\* The loops of __init__, one region at a time.
Loop(here, can, driver, owner, then) ==
  /\ pc = here
  /\ \/ can /\ drv' = driver /\ own' = owner /\ UNCHANGED failures
        /\ IF reg.region < layout.regions
           THEN pc' = here /\ reg' = [reg EXCEPT !.region = @ + 1]
           ELSE pc' = then /\ reg' = [reg EXCEPT !.region = 1]
     \/ (can => failures < MaxFailures) /\ pc' = "raised" \* nobody holds what was created
        /\ failures' = failures + (IF can THEN 1 ELSE 0) /\ UNCHANGED <<drv, own, reg>>
  /\ UNCHANGED layout
Construct ==
  \/ Loop("create", TRUE, Create(reg.region, IF reg.region <= layout.hot THEN "device" ELSE "host"),
          own, "reserve")
  \/ Check("reserve", TRUE, Reserve(0), own, "map", "raised")
  \/ Loop("map", TRUE, MapAt(reg.region, reg.region),
          [own EXCEPT !.handles = @ \cup {reg.region}, !.mappings = With(@, reg.region, reg.region)], "access")
  \/ Check("access", TRUE, SetAccess(Regions), own, "fill", "raised")
  \* maybe_vmm_wrap_layer copies the parameter into the view.
  \/ Check("fill", TRUE, [drv EXCEPT !.data = [h \in Regions |-> h]], own, "rest", "raised")

(* promote_up_to: the cold rest as a whole, copied over a temporary address; *)
(* the host's handle is kept. Only a layout without chunks has _cold_mapping.*)
Cold == layout.regions
StartPromotion(region, first) ==
  /\ pc = "rest" /\ ~own.freed /\ pc' = first /\ Cardinality(drv.live) <= layout.regions + MaxLeaks
  /\ reg' = [region |-> region,
             hot |-> FreshFor(drv.live, layout.regions),
             temp |-> FreshFor(drv.va \cup DOMAIN drv.map, layout.regions)]
  /\ UNCHANGED <<layout, drv, own, failures>>
CreateHot(here, then) ==
  Check(here, TRUE, Create(reg.hot, "device"), [own EXCEPT !.handles = @ \cup {reg.hot}], then, "rest")
Copy(here, then, raised) ==
  Check(here, Readable(reg.temp) /\ Readable(reg.region), Memcpy(reg.temp, reg.region), own, then, raised)
StayUnmapped == "p_finally"
FallbackToCold == "p_fallback"
promote_up_to ==
  \/ ~layout.chunked /\ layout.hot < Cold /\ own.promoted = NoHandle /\ StartPromotion(Cold, "p_sync")
  \/ Quiesce("p_sync", "p_create", "rest")
  \/ CreateHot("p_create", "p_reserve")
  \/ Check("p_reserve", TRUE, Reserve(reg.temp), own, "p_temp", "p_unused")
  \/ _map("p_temp", reg.temp, reg.hot, "p_temp_access", "p_finally")
  \/ Access("p_temp_access", reg.temp, "p_copy", "p_finally")
  \/ Copy("p_copy", "p_copied", "p_finally")
  \/ Quiesce("p_copied", "p_unmap", "p_finally")
  \/ _unmap("p_unmap", reg.region, "p_map", "p_finally")
  \/ _map("p_map", reg.region, reg.hot, "p_access", FallbackToCold)
  \/ Access("p_access", reg.region, "p_done", FallbackToCold)
  \/ /\ pc = "p_done" /\ pc' = "p_finally"
     /\ own' = [own EXCEPT !.promoted = reg.hot, !.hot = @ + 1]
     /\ UNCHANGED <<layout, drv, reg, failures>>
  \/ Go("p_fallback", reg.region \notin DOMAIN own.mappings, "p_back")
  \/ reg.region \in DOMAIN own.mappings /\ _unmap("p_fallback", reg.region, "p_back", "p_finally")
  \/ _map("p_back", reg.region, reg.region, "p_back_access", "p_finally")
  \/ Access("p_back_access", reg.region, "p_finally", "p_finally")
  \/ Go("p_finally", reg.temp \notin DOMAIN own.mappings, "p_va")
  \/ reg.temp \in DOMAIN own.mappings /\ _unmap("p_finally", reg.temp, "p_va", "rest")
  \/ Check("p_va", TRUE, AddressFree(reg.temp), own, "p_unused", "rest")
  \/ Go("p_unused", reg.hot \in Range(own.mappings), "rest")
  \/ reg.hot \notin Range(own.mappings) /\
     Check("p_unused", TRUE, Release(reg.hot), [own EXCEPT !.handles = @ \ {reg.hot}], "rest", "rest")

(* promote_chunk: the next chunk. Behind the unmapping of its address there  *)
(* is no way back to the host's handle, which is released at the end.        *)
promote_chunk ==
  \/ layout.chunked /\ own.chunk < layout.regions /\ StartPromotion(own.chunk + 1, "c_sync")
  \/ Quiesce("c_sync", "c_create", "rest")
  \/ CreateHot("c_create", "c_reserve")
  \/ Check("c_reserve", TRUE, Reserve(reg.temp), own, "c_temp", "rest")
  \/ _map("c_temp", reg.temp, reg.hot, "c_temp_access", "c_raised")
  \/ Access("c_temp_access", reg.temp, "c_copy", "c_raised")
  \/ Copy("c_copy", "c_copied", "c_raised")
  \/ Quiesce("c_copied", "c_temp_unmap", "c_raised")
  \/ _unmap("c_temp_unmap", reg.temp, "c_unmap", "c_raised")
  \/ _unmap("c_unmap", reg.region, "c_map", "c_raised")
  \/ _map("c_map", reg.region, reg.hot, "c_access", "c_raised")
  \/ Access("c_access", reg.region, "c_va", "c_raised")
  \/ Check("c_va", TRUE, AddressFree(reg.temp), own, IF KeepHost THEN "c_done" ELSE "c_release", "rest")
  \/ Go("c_raised", reg.temp \notin DOMAIN own.mappings, "c_raised_va")
  \/ reg.temp \in DOMAIN own.mappings /\ _unmap("c_raised", reg.temp, "c_raised_va", "rest")
  \/ Check("c_raised_va", TRUE, AddressFree(reg.temp), own, "rest", "rest")
  \* _cold_chunks names the handle made for the chunk, not what backs it now.
  \/ Check("c_release", reg.region \in drv.live, Release(reg.region),
           [own EXCEPT !.handles = @ \ {reg.region}], "c_done", "rest")
  \/ /\ pc = "c_done" /\ pc' = "rest" /\ own' = [own EXCEPT !.chunk = @ + 1, !.hot = @ + 1]
     /\ reg' = NoLocals /\ UNCHANGED <<layout, drv, failures>>

(* evict_promoted: back to the host's handle, which still holds the weights. *)
evict_promoted ==
  \/ /\ pc = "rest" /\ ~own.freed /\ own.promoted # NoHandle /\ pc' = "e_sync"
     /\ reg' = [region |-> Cold, hot |-> own.promoted, temp |-> 0]
     /\ UNCHANGED <<layout, drv, own, failures>>
  \/ Quiesce("e_sync", "e_unmap", "rest")
  \/ _unmap("e_unmap", Cold, "e_map", "rest")
  \/ _map("e_map", Cold, reg.region, "e_access", "e_fallback")
  \/ Access("e_access", Cold, "e_done", "e_fallback")
  \/ Go("e_fallback", Cold \notin DOMAIN own.mappings, "e_back")
  \/ Cold \in DOMAIN own.mappings /\ _unmap("e_fallback", Cold, "e_back", "rest")
  \/ _map("e_back", Cold, reg.hot, "e_back_access", "rest")
  \/ Access("e_back_access", Cold, "rest", "rest")
  \/ /\ pc = "e_done" /\ pc' = "e_release" /\ own' = [own EXCEPT !.promoted = NoHandle, !.hot = @ - 1]
     /\ UNCHANGED <<layout, drv, reg, failures>>
  \/ Check("e_release", TRUE, Release(reg.hot), [own EXCEPT !.handles = @ \ {reg.hot}], "rest", "rest")

(* free: resumes where an earlier attempt failed.                            *)
free ==
  \/ Go("rest", ~own.freed, "f_unmap")
  \/ \E a \in DOMAIN own.mappings : (\A b \in DOMAIN own.mappings : a <= b) /\ _unmap("f_unmap", a, "f_unmap", "f_failed")
  \/ Go("f_unmap", own.mappings = <<>>, "f_release")
  \/ \E h \in own.handles :
       (\A k \in own.handles : h <= k) /\
       Check("f_release", h \in drv.live, Release(h), [own EXCEPT !.handles = @ \ {h}], "f_release", "f_failed")
  \/ own.handles = {} /\
     Check("f_release", DOMAIN drv.map \cap Regions = {}, AddressFree(0), [own EXCEPT !.freed = TRUE], "rest", "f_failed")
  \/ Go("f_failed", TRUE, "f_unmap")

Next == Construct \/ promote_up_to \/ promote_chunk \/ evict_promoted \/ free
Spec == Init /\ [][Next]_vars
-----------------------------------------------------------------------------
Holds(i) == Readable(i) /\ drv.data[drv.map[i]] = i
\* Between operations every canonical region can be read and holds its own
\* weights, whichever single driver call failed before; only a chunk whose
\* promotion failed may have lost its mapping, since promote_chunk has no
\* way back.
WeightsStayReadable ==
  pc = "rest" /\ ~own.freed /\ failures <= 1 =>
    \A i \in Regions : Holds(i) \/ (failures = 1 /\ layout.chunked /\ i = own.chunk + 1)
\* Until it is freed, each region's weights exist in some memory, and what
\* is released is not what backs a canonical address, however many calls fail.
WeightsSurvive ==
  pc \notin {"create", "reserve", "map", "access", "fill", "raised", "f_unmap", "f_release", "f_failed"} /\ ~own.freed =>
    \A i \in Regions : \E h \in drv.live : drv.data[h] = i
\* Without failures hot_bytes is what the device backs.
HotIsCounted ==
  pc = "rest" /\ ~own.freed /\ failures = 0 =>
    own.hot = Cardinality({i \in Regions : drv.map[i] \in drv.device})
\* free() leaves no handle, no mapping and no reservation of the range.
FreeReturnsAll ==
  own.freed => drv.live = {} /\ drv.map = <<>> /\ 0 \notin drv.va
=============================================================================
