----------------------------- MODULE ExpertBanks -----------------------------
(* Pointer tables of one MoE layer: for each operand, where the kernels find *)
(* an expert's weights, on the host or in a slab of device memory. Banks are *)
(* built hot at start-up (build_expert_banks) or start all cold and get a    *)
(* cache that is replaced while nothing is launched (DeferredWeightBanks).   *)
(* Copies and synchronisations may fail; an interrupted copy has written any *)
(* part of its table. Routes are counted, written to a file and choose the   *)
(* experts of the next start.                                                *)
EXTENDS Integers, Sequences, FiniteSets, FiniteSetsExt, SequencesExt

CONSTANTS E,            \* experts, numbered from 0
          ExpertBytes,  \* of one expert, all operands together
          Budgets,      \* byte budgets promotions are tried with
          MaxCount,     \* routes counted per expert
          MaxFailures   \* failures between two starts

VARIABLES target,     \* per operand: the device's table
          own,        \* the fields of DeferredWeightBanks, as record
          new,        \* what a replacement prepared: hot, slab
          pc,         \* where the replacement is; "rest" outside of one
          counts, enabled,   \* route_counts, route_enabled
          file,       \* the last snapshot of the routes, or NoFile
          failures
vars == <<target, own, new, pc, counts, enabled, file, failures>>

Experts == 0..(E - 1)
Banks == {"w13", "down"}
NoFile == <<>>
NoRoutes == [e \in Experts |-> 0]
-----------------------------------------------------------------------------
(* Who is hot. A histogram is a function of the experts; what a file leaves  *)
(* out counts as zero.                                                       *)
load_route_histogram(raw) == IF raw = NoFile THEN NoRoutes ELSE raw
HotterFirst(h) == SetToSortSeq(Experts, LAMBDA d, e : h[d] > h[e] \/ (h[d] = h[e] /\ d < e))
\* preferred_order, for promote_up_to.
preferred_order(raw) == HotterFirst(load_route_histogram(raw))
Prefix(order, budget) == Range(SubSeq(order, 1, Min({E, budget \div ExpertBytes})))
\* The start-up selection: the whole of it, the order by number without counts.
select_hot_experts(raw, budget) ==
  LET h == load_route_histogram(raw)
      capacity == budget \div ExpertBytes
      measured == \E e \in Experts : h[e] > 0
      ranked == IF measured THEN HotterFirst(h) ELSE [i \in 1..E |-> i - 1]
  IN  IF capacity >= E THEN Experts ELSE Range(SubSeq(ranked, 1, capacity))
-----------------------------------------------------------------------------
(* Addresses: slab 0 is the host's storage, where expert e has slot e; in a  *)
(* slab the hot experts are packed in order of their numbers.                *)
Address(slab, slot) == [slab |-> slab, slot |-> slot]
Slot(hot, e) == Cardinality({d \in hot : d < e})
\* What a slab made for "hot" holds at a slot.
ExpertAt(hot, slot) == CHOOSE e \in hot : Slot(hot, e) = slot
Table(hot, slab) == [e \in Experts |-> IF e \in hot THEN Address(slab, Slot(hot, e)) ELSE Address(0, e)]
build_expert_banks(hot) == [b \in Banks |-> Table(hot, 1)]

NoSlab == 0
Nothing == [hot |-> {}, slab |-> NoSlab]
\* hot_slabs, hot_ids of what is published; _committed_tables are its tables.
Fresh(slab, hot) == [slab |-> slab, hot |-> hot, failed |-> NoSlab, failed_hot |-> {}, publication_failed |-> FALSE]
Committed == Table(own.hot, own.slab)
\* Slabs somebody refers to, with the experts they were made for.
Alive == {[slab |-> own.slab, hot |-> own.hot], new, [slab |-> own.failed, hot |-> own.failed_hot]}
FreeSlab == CHOOSE s \in 1..3 : s \notin {a.slab : a \in Alive}
Cold == [b \in Banks |-> Table({}, NoSlab)]

\* Start-up: banks attached hot, or deferred banks all cold. The counters of
\* an instrumented layer start at zero and are not enabled.
Start(raw) ==
  \/ \E budget \in Budgets :
       LET hot == select_hot_experts(raw, budget) IN
       target' = build_expert_banks(hot) /\ own' = Fresh(1, hot) /\ pc' = "startup"
  \/ target' = Cold /\ own' = Fresh(NoSlab, {}) /\ pc' = "rest"
Init ==
  /\ target = Cold /\ own = Fresh(NoSlab, {}) /\ pc = "rest" /\ new = Nothing
  /\ counts = NoRoutes /\ enabled = FALSE /\ file = NoFile /\ failures = 0
Restart ==
  /\ pc \in {"rest", "startup"} /\ Start(file)
  /\ new' = Nothing /\ counts' = NoRoutes /\ enabled' = FALSE /\ failures' = 0 /\ UNCHANGED file
-----------------------------------------------------------------------------
Fails(then) == failures < MaxFailures /\ failures' = failures + 1 /\ pc' = then
routes == <<counts, enabled, file>>

\* _replace_hot up to its first synchronisation; a slab that cannot be
\* allocated or filled raises before anything is published.
replace_hot(hot) ==
  /\ pc = "rest" /\ ~own.publication_failed /\ hot # own.hot
  /\ \/ /\ new' = [hot |-> hot, slab |-> IF hot = {} THEN NoSlab ELSE FreeSlab]
        /\ pc' = "publish" /\ UNCHANGED <<target, own, failures>>
     \/ Fails("rest") /\ UNCHANGED <<target, own, new>>
  /\ UNCHANGED routes
promote_up_to(budget) == replace_hot(Prefix(preferred_order(file), budget))
evict_all == replace_hot({})

\* target.copy_(table): all of it, or, when it fails, any part of it.
CopyInto(b, table) == target' = [target EXCEPT ![b] = table]
CopyPart(b, table) ==
  \E part \in SUBSET Experts :
    target' = [target EXCEPT ![b] = [e \in Experts |-> IF e \in part THEN table[e] ELSE @[e]]]
DropCandidate == [own EXCEPT !.publication_failed = TRUE]
RetainBacking == [DropCandidate EXCEPT !.failed = new.slab, !.failed_hot = new.hot]
Publish(here, b, then) ==
  /\ pc = here
  /\ \/ CopyInto(b, Table(new.hot, new.slab)) /\ pc' = then /\ UNCHANGED <<own, new, failures>>
     \/ CopyPart(b, Table(new.hot, new.slab)) /\ Fails("roll") /\ own' = RetainBacking /\ new' = Nothing
  /\ UNCHANGED routes
\* The synchronisation behind the copies, then the fields, committed at last.
Commit ==
  /\ pc = "sync"
  /\ \/ pc' = "rest" /\ own' = Fresh(new.slab, new.hot) /\ UNCHANGED failures
     \/ Fails("roll") /\ own' = RetainBacking
  /\ new' = Nothing /\ UNCHANGED <<target, counts, enabled, file>>
\* The rollback: a failure in it is final, and everything stays referenced.
RollBack(here, b, then) ==
  /\ pc = here
  /\ \/ CopyInto(b, Committed) /\ pc' = then /\ UNCHANGED failures
     \/ CopyPart(b, Committed) /\ Fails("rest")
  /\ UNCHANGED <<own, new>> /\ UNCHANGED routes
RolledBack ==
  /\ pc = "rolled"
  /\ \/ pc' = "rest" /\ own' = Fresh(own.slab, own.hot) /\ UNCHANGED failures
     \/ Fails("rest") /\ UNCHANGED own
  /\ UNCHANGED <<target, new>> /\ UNCHANGED routes
_replace_hot ==
  \/ Publish("publish", "w13", "publish down") \/ Publish("publish down", "down", "sync") \/ Commit
  \/ RollBack("roll", "w13", "roll down") \/ RollBack("roll down", "down", "rolled") \/ RolledBack

\* A launch: routes are counted only when enabled; replacement excludes it.
record_routes(e) ==
  /\ pc = "rest" /\ enabled /\ counts[e] < MaxCount
  /\ counts' = [counts EXCEPT ![e] = @ + 1]
  /\ UNCHANGED <<target, own, new, pc, enabled, file, failures>>
\* Called behind the promotion of an armed layer.
enable_routes ==
  /\ pc = "rest" /\ ~enabled /\ enabled' = TRUE
  /\ UNCHANGED <<target, own, new, pc, counts, file, failures>>
\* The background thread: _route_lock keeps it out of a replacement.
dump_routes ==
  /\ pc = "rest" /\ enabled /\ file' = counts
  /\ UNCHANGED <<target, own, new, pc, counts, enabled, failures>>

Next ==
  \/ \E budget \in Budgets : promote_up_to(budget)
  \/ evict_all \/ _replace_hot
  \/ \E e \in Experts : record_routes(e)
  \/ enable_routes \/ dump_routes \/ Restart
Spec == Init /\ [][Next]_vars
-----------------------------------------------------------------------------
Resolves(a, e) ==
  IF a.slab = NoSlab THEN a.slot = e
  ELSE \E s \in Alive : s.slab = a.slab /\ a.slot < Cardinality(s.hot) /\ ExpertAt(s.hot, a.slot) = e
\* Every entry of every table leads to the weights of its expert, in memory
\* somebody still refers to: while tables of two generations are mixed by an
\* interrupted publication or rollback, and after one that never completed.
PointersResolve == \A b \in Banks, e \in Experts : Resolves(target[b][e], e)
\* Outside of a replacement that failed for good, both operands agree with
\* the hot experts on record.
TablesAreCommitted ==
  pc \in {"rest", "startup"} /\ ~own.publication_failed => \A b \in Banks : target[b] = Committed
\* Both ways to choose hot experts choose the same ones, and none that is
\* left cold was routed to more often than one that is hot.
HottestAreHot ==
  \A budget \in Budgets :
    LET hot == Prefix(preferred_order(file), budget)
        h == load_route_histogram(file)
    IN  /\ hot = select_hot_experts(file, budget)
        /\ \A d \in hot, e \in Experts \ hot : h[d] > h[e] \/ (h[d] = h[e] /\ d < e)
        /\ Cardinality(hot) * ExpertBytes <= budget
=============================================================================
