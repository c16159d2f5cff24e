------------------------------ MODULE ChunkCuts ------------------------------
(* How schedule() cuts the next chunk of a prompt (scheduler.py): so that   *)
(* it ends where a recurrent state may be cached, so that it stops short of *)
(* an encoder input that does not fit, and so that enough of the prompt is  *)
(* left for the drafter to look ahead. Three cuts, in this order.           *)
(*   r  the request: [prompt, tokens, junction, checkpoints, boundaries,    *)
(*      items], an item being [offset, length, id]                          *)
(*   o  the configuration: [block, hash, drop, partial, fine, internal,     *)
(*      retention, max_prefill, lookahead, whole_items]                     *)
EXTENDS Integers, Sequences, FiniteSets, FiniteSetsExt

Larger(a, b) == IF a > b THEN a ELSE b
Smaller(a, b) == IF a < b THEN a ELSE b
FloorTo(n, unit) == (n \div unit) * unit
NoRetention == -1

\* Also a resumed request replays its output as a prefill.
prefill_end(r) == Larger(r.prompt, r.tokens - 1)
last_cache_position(r, o, internal) ==
  IF internal THEN 0
  ELSE Larger(FloorTo(r.tokens, o.block) - (IF o.drop THEN o.block ELSE 0), 0)

\* A chunk that does not end the prefill ends at a block boundary, unless
\* blocks are too wide for one chunk.
aligned_end(r, o, start, end, internal) ==
  LET aligned == FloorTo(end, o.block)
  IN  IF /\ end < prefill_end(r) /\ ~internal
         /\ aligned > start \/ o.block <= o.max_prefill
      THEN aligned ELSE end

tail_boundary(r, o, internal) ==
  IF ~o.partial \/ internal THEN 0
  ELSE Larger(FloorTo(r.prompt, o.hash) - (IF o.drop THEN o.hash ELSE 0), 0)
junction_stop(r, o, start) ==
  IF o.fine /\ r.junction <= r.prompt THEN r.junction
  ELSE start + FloorTo(r.junction - start, o.block)

\* Positions no chunk may run past. "reuse" are the replay positions the
\* managers report without retention.
stops(r, o, start, end, internal, reuse) ==
  LET tail == tail_boundary(r, o, internal)
      last == last_cache_position(r, o, internal)
  IN  {last}
      \cup (IF start % o.block # 0 /\ ~internal THEN {FloorTo(start, o.block) + o.block} ELSE {})
      \cup (IF o.retention > 0 THEN {FloorTo(start, o.retention) + o.retention} ELSE {})
      \cup (IF last < tail /\ tail < r.prompt THEN {tail} ELSE {})
      \cup (IF start < r.junction /\ r.junction < end THEN {junction_stop(r, o, start)} ELSE {})
      \cup (IF o.retention = 0 THEN reuse ELSE {})

\* "internal": the worker checkpoints the state inside of the chunk.
_mamba_block_aligned_split(r, o, start, n, internal, reuse) ==
  LET Cut(positions, end) ==
        LET inside == {s \in positions : start < s /\ s < end}
        IN  IF inside = {} THEN Larger(end - start, 0) ELSE Min(inside) - start
      end == aligned_end(r, o, start, start + n, internal)
  IN  IF r.checkpoints THEN Cut(r.boundaries, start + n)
      ELSE IF start >= prefill_end(r) THEN n
      ELSE Cut(stops(r, o, start, end, internal, reuse), end)

NothingReserved(r, o, start, n) == n

\* Never end within "lookahead" of the end of the prefill.
_reserve_prefill_lookahead(r, o, start, n) ==
  LET remaining == r.tokens - start - n
  IN  IF 0 < remaining /\ remaining < o.lookahead
      THEN Larger(n - (o.lookahead - remaining), 0) ELSE n
-----------------------------------------------------------------------------
(* Encoder inputs. An item is looked at if its range overlaps the chunk and *)
(* the tokens the drafter reads behind it.                                  *)
InWindow(r, o, start, n) ==
  {i \in DOMAIN r.items :
     /\ r.items[i].offset < start + n + o.lookahead
     /\ start < r.items[i].offset + r.items[i].length}

\* One item after the other: "n" tokens, the items to compute, to load or found
\* in the cache, and the budget left. cached, held: ids in the encoder cache,
\* those with a reference; remote: ids a connector has; space: what can be
\* allocated, less what becomes referenced on the way.
Encoder(n, budget) == [n |-> n, compute |-> {}, load |-> {}, again |-> {}, ids |-> {},
                       budget |-> budget, embeds |-> 0, stopped |-> FALSE]
can_allocate(item, e, space) == item.length <= e.budget /\ item.length + e.embeds <= space
TakeItem(r, o, start, i, e, cached, held, remote, space) ==
  LET item == r.items[i]
      before == Larger(0, item.offset - (start + o.lookahead))
      Take(how) == [e EXCEPT ![how] = @ \cup {i}, !.ids = @ \cup {item.id}, !.embeds = @ + item.length]
  IN  IF e.stopped \/ item.id \in e.ids THEN e
      ELSE IF item.id \in cached
      THEN [e EXCEPT !.again = @ \cup {i},
                     !.embeds = @ + (IF item.id \in held THEN 0 ELSE item.length)]
      ELSE IF o.whole_items /\ start < item.offset /\ start + e.n < item.offset + item.length
      THEN [e EXCEPT !.n = before, !.stopped = TRUE]
      ELSE IF ~can_allocate(item, e, space)
      THEN [e EXCEPT !.n = before, !.stopped = TRUE]
      ELSE IF item.id \in remote THEN Take("load")
      ELSE [Take("compute") EXCEPT !.budget = @ - item.length]

_try_schedule_encoder_inputs(r, o, start, n, budget, cached, held, remote, space) ==
  LET window == IF n = 0 THEN {} ELSE InWindow(r, o, start, n)
      Items[k \in 0..Len(r.items)] ==
        IF k = 0 THEN Encoder(n, budget)
        ELSE IF k \in window THEN TakeItem(r, o, start, k, Items[k - 1], cached, held, remote, space)
        ELSE Items[k - 1]
  IN  Items[Len(r.items)]
=============================================================================
