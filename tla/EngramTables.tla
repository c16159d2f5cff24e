----------------------------- MODULE EngramTables -----------------------------
(* Engram tables of several layers, cut into shards of rows, one per rank.   *)
(* Before or in a forward pass every rank looks up its rows of the hashed    *)
(* n-grams; the forward sums them over the ranks. Tables are all on the      *)
(* device, all in host memory, or on disk but for some layers that are in    *)
(* host memory; of these a lazy one is filled only when the experts have     *)
(* been promoted, which a rank notices by a file, and one rank at a time.    *)
(* Ranks run ahead of the device: a collective completes once all joined it. *)
EXTENDS Integers, Sequences, FiniteSets, FiniteSetsExt

CONSTANTS Settings,   \* see the MC module; lazy layers only without ram_in_graph
          Batches,    \* [dummy, ids]: the row each token hashes to, Dead for none
          MaxSteps

VARIABLES s,       \* the settings
          armed,   \* B12X_DEFERRED_BANK_ARM_FILE exists
          host,    \* _host_mem_available, in rows
          rank,    \* of each rank: see NewRank
          table,   \* table[l][r]: rows of the shard
          staged,  \* staged[l][r]: staged_rows
          steps,   \* batches issued by the engine
          sent     \* sent[k][r]: what rank r contributes to step k
vars == <<s, armed, host, rank, table, staged, steps, sent>>

Dead == -1
Zero == 0
Garbage == -1      \* mapped, not yet filled
Unmapped == -2
Row(g) == g + 1    \* what the checkpoint holds for global row g
Ranks == 0..(s.tp - 1)
Layers == DOMAIN s.layers
OfKind(kinds) == {l \in Layers : s.layers[l] \in kinds}
Tokens == 1..s.max_tokens
-----------------------------------------------------------------------------
(* Shards of equal size, the last ones padded or empty.                      *)
FloorRows == s.rows \div s.tp
shard_rows == (s.rows + s.tp - 1) \div s.tp
shard_start(r) == r * shard_rows
Count(r) == Max({0, Min({shard_rows, s.rows - shard_start(r)})})
\* _load_table: rows behind the table are zero.
_load_table(r) == [i \in 0..(shard_rows - 1) |-> IF i < Count(r) THEN Row(shard_start(r) + i) ELSE Zero]
\* A lazy table has its first chunk of host memory.
_init_lazy_ram == [i \in 0..(shard_rows - 1) |-> IF i < s.chunk THEN Garbage ELSE Unmapped]

NewRank == [pc |-> "idle", at |-> 1, pending |-> TRUE, filled |-> {}, promoted |-> FALSE,
            turn |-> 0, entered |-> 0,
            prepared |-> {}, tokens |-> [l \in Layers |-> 0], rows |-> [l \in Layers |-> 0]]
Blank == [t \in Tokens |-> Zero]
Init ==
  /\ s \in Settings
  /\ armed = FALSE /\ host = s.host
  /\ rank = [r \in Ranks |-> NewRank]
  /\ table = [l \in Layers |-> [r \in Ranks |->
       IF s.layers[l] = "lazy" THEN _init_lazy_ram ELSE _load_table(r)]]
  /\ staged = [l \in Layers |-> [r \in Ranks |-> Blank]]
  /\ steps = <<>> /\ sent = <<>>

Batch(r) == steps[rank[r].at]
N(r) == Len(Batch(r).ids)
Completed == {k \in DOMAIN steps : \A r \in Ranks : rank[r].at > k}
Arm == ~armed /\ OfKind({"lazy"}) # {} /\ armed' = TRUE /\ UNCHANGED <<s, host, rank, table, staged, steps, sent>>
\* The engine sends a step before the results of the last one are back.
Issue ==
  /\ Len(steps) < MaxSteps /\ Len(steps) < Cardinality(Completed) + 2
  /\ \E b \in Batches : (b.dummy => s.disk) /\ steps' = Append(steps, b)
  /\ sent' = Append(sent, [r \in Ranks |-> <<>>])
  /\ UNCHANGED <<s, armed, host, rank, table, staged>>
-----------------------------------------------------------------------------
\* A model with tables on disk has rows looked up ahead of the forward pass,
\* but for layers in host memory under DS41_ENGRAM_RAM_IN_GRAPH=1.
Ahead == s.disk
InGraph(l) == s.layers[l] # "disk" /\ (s.disk => s.ram_in_graph)
Begin(r) ==
  /\ rank[r].pc = "idle" /\ rank[r].at <= Len(steps)
  /\ IF Batch(r).dummy
     THEN \* prepare_dummy_output
          /\ staged' = [l \in Layers |-> [staged[l] EXCEPT ![r] = Blank]]
          /\ rank' = [rank EXCEPT ![r].pc = "forward", ![r].prepared = Layers,
                                  ![r].tokens = [l \in Layers |-> N(r)]]
     ELSE /\ rank' = [rank EXCEPT ![r].pc = IF ~Ahead THEN "forward"
                                            ELSE IF rank[r].pending THEN "arm" ELSE "prepare"]
          /\ UNCHANGED staged
  /\ UNCHANGED <<s, armed, host, table, steps, sent>>

lazy_pending(r) == OfKind({"lazy"}) \ rank[r].filled
\* _fill_lazy_engram up to the check of the file.
_fill_lazy_engram(r) ==
  /\ rank[r].pc = "arm"
  /\ rank' = [rank EXCEPT ![r].pc = IF lazy_pending(r) # {} /\ armed THEN "promote" ELSE "prepare",
                          ![r].pending = lazy_pending(r) # {}]
  /\ UNCHANGED <<s, armed, host, table, staged, steps, sent>>
\* Promotion frees the experts' host memory; it and torch.cuda.synchronize
\* wait for everything the rank has launched.
promote_pending_inplace(r) ==
  /\ rank[r].pc = "promote"
  /\ 1..(rank[r].at - 1) \subseteq Completed
  /\ host' = host + (IF rank[r].promoted THEN 0 ELSE s.parked)
  /\ rank' = [rank EXCEPT ![r].pc = "turn", ![r].turn = 0, ![r].promoted = TRUE]
  /\ UNCHANGED <<s, armed, table, staged, steps, sent>>
\* LazyHostTable.map_all, then the rows, up to row n if the rest cannot be
\* mapped or read.
fill_lazy(r, n) ==
  [i \in 0..(shard_rows - 1) |->
     IF i < n THEN _load_table(r)[i] ELSE IF i >= Count(r) /\ n > 0 THEN Zero ELSE Garbage]
Need(r) == Cardinality(lazy_pending(r)) * shard_rows
CheckMargin(r) == host >= Need(r) + s.margin
Turn(r) ==
  /\ rank[r].pc = "turn"
  /\ \/ /\ rank[r].turn # r
        /\ rank' = [rank EXCEPT ![r].pc = "barrier", ![r].entered = @ + 1]
        /\ UNCHANGED <<host, table>>
     \/ /\ rank[r].turn = r /\ CheckMargin(r)
        /\ rank' = [rank EXCEPT ![r].pc = "barrier", ![r].entered = @ + 1, ![r].filled = OfKind({"lazy"})]
        /\ table' = [l \in Layers |-> IF l \in lazy_pending(r)
                                      THEN [table[l] EXCEPT ![r] = fill_lazy(r, shard_rows)] ELSE table[l]]
        /\ host' = host - Cardinality(lazy_pending(r)) * (shard_rows - Min({s.chunk, shard_rows}))
     \* A short read, or no memory for it: the exception ends the worker.
     \/ /\ rank[r].turn = r /\ CheckMargin(r) /\ Count(r) > 0
        /\ \E l \in lazy_pending(r), n \in 0..(Count(r) - 1) :
             table' = [table EXCEPT ![l][r] = fill_lazy(r, n)]
        /\ host' = host - (shard_rows - Min({s.chunk, shard_rows}))
        /\ rank' = [rank EXCEPT ![r].pc = "dead"]
     \/ /\ rank[r].turn = r /\ ~CheckMargin(r)
        /\ rank' = [rank EXCEPT ![r].pc = "dead"] /\ UNCHANGED <<host, table>>
  /\ UNCHANGED <<s, armed, staged, steps, sent>>
barrier(r) ==
  /\ rank[r].pc = "barrier"
  /\ \A q \in Ranks : rank[q].entered >= rank[r].entered
  /\ rank' = [rank EXCEPT ![r].turn = @ + 1,
                          ![r].pc = IF rank[r].turn + 1 = s.tp THEN "prepare" ELSE "turn",
                          ![r].pending = rank[r].turn + 1 < s.tp]
  /\ UNCHANGED <<s, armed, host, table, staged, steps, sent>>
-----------------------------------------------------------------------------
Lookup(l, r, h) ==
  IF h \notin shard_start(r)..(shard_start(r) + shard_rows - 1) THEN Zero
  ELSE IF s.layers[l] = "disk" THEN Row(h) ELSE table[l][r][h - shard_start(r)]
Over(old, new) == [t \in Tokens |-> IF t \in DOMAIN new THEN new[t] ELSE old[t]]
\* stage_disk: rows of the last batch behind this one are cleared.
stage_disk(l, r, found) ==
  [t \in Tokens |-> IF t <= Len(found) THEN found[t]
                    ELSE IF t <= rank[r].rows[l] THEN Zero ELSE staged[l][r][t]]
\* prepare_disk_engram behind _fill_lazy_engram: a lazy table that is not
\* filled contributes zeros; tables in memory first, those on disk in one go.
Prepared(l, r) ==
  LET found == [t \in 1..N(r) |-> Lookup(l, r, Batch(r).ids[t])]
  IN  IF InGraph(l) THEN staged[l][r]
      ELSE IF s.layers[l] = "disk" THEN stage_disk(l, r, found)
      ELSE IF l \in lazy_pending(r) THEN Over(staged[l][r], [t \in 1..N(r) |-> Zero])
      ELSE Over(staged[l][r], found)
prepare_disk_engram(r) ==
  /\ rank[r].pc = "prepare"
  /\ \/ /\ staged' = [l \in Layers |-> [staged[l] EXCEPT ![r] = Prepared(l, r)]]
        /\ rank' = [rank EXCEPT ![r].pc = "forward", ![r].prepared = Layers,  \* finish_disk
                                ![r].tokens = [l \in Layers |-> N(r)], ![r].rows = [l \in Layers |-> N(r)]]
     \* A read fails: invalidate_disk_output(clear=True) for all layers.
     \/ /\ OfKind({"disk"}) # {}
        /\ staged' = [l \in Layers |-> [staged[l] EXCEPT ![r] = Blank]]
        /\ rank' = [rank EXCEPT ![r].pc = "dead", ![r].prepared = {}, ![r].tokens = [l \in Layers |-> 0]]
  /\ UNCHANGED <<s, armed, host, table, steps, sent>>
\* The model's forward up to its launch, with the lookups in it; rows on disk
\* must have been prepared, for as many tokens.
forward(r) ==
  /\ rank[r].pc = "forward"
  /\ \A l \in OfKind({"disk"}) : l \in rank[r].prepared /\ rank[r].tokens[l] >= N(r)
  /\ LET Rows(l) ==
           IF ~InGraph(l) THEN staged[l][r]
           ELSE Over(staged[l][r], [t \in 1..N(r) |-> Lookup(l, r, Batch(r).ids[t])])
     IN  /\ staged' = [l \in Layers |-> [staged[l] EXCEPT ![r] = Rows(l)]]
         /\ sent' = [sent EXCEPT ![rank[r].at][r] = [l \in Layers |-> [t \in 1..N(r) |-> staged'[l][r][t]]]]
  /\ rank' = [rank EXCEPT ![r].pc = "idle", ![r].at = @ + 1]
  /\ UNCHANGED <<s, armed, host, table, steps>>

Next ==
  \/ Arm \/ Issue
  \/ \E r \in Ranks :
       \/ Begin(r) \/ _fill_lazy_engram(r) \/ promote_pending_inplace(r) \/ Turn(r) \/ barrier(r)
       \/ prepare_disk_engram(r) \/ forward(r)
Spec == Init /\ [][Next]_vars
-----------------------------------------------------------------------------
Total(k, l, t) == MapThenFoldSet(+, 0, LAMBDA r : sent[k][r][l][t], LAMBDA q : CHOOSE r \in q : TRUE, Ranks)
\* Summed over the ranks, a step has for each token the table's row: exactly
\* one rank contributes it, from filled memory. Only a lazy table may leave
\* out its rows, and then for the whole step.
RowsAreGlobal ==
  \A k \in Completed, l \in Layers :
    LET ids == steps[k].ids
        Whole == \A t \in DOMAIN ids : Total(k, l, t) = (IF ids[t] = Dead THEN Zero ELSE Row(ids[t]))
        None  == \A t \in DOMAIN ids : Total(k, l, t) = Zero
    IN  IF steps[k].dummy THEN None ELSE Whole \/ (s.layers[l] = "lazy" /\ None)
\* Rows on disk: nothing of an earlier batch is left behind the prepared ones.
TailIsClear ==
  \A r \in Ranks : \A l \in OfKind({"disk"}) \cap rank[r].prepared :
    \A t \in Tokens : t > rank[r].tokens[l] => staged[l][r][t] = Zero
\* Filling leaves the margin of host memory, since ranks fill one at a time.
MarginKept == (\E r \in Ranks : rank[r].filled # {}) => host >= s.margin
\* Arming ends in filled tables: no rank waits in the barrier of a fill for
\* one that itself waits for the first to join a step it has launched.
FillCompletes ==
  ~\E r, q \in Ranks : rank[r].pc = "barrier" /\ rank[q].pc = "promote" /\ rank[q].at > rank[r].at
=============================================================================
