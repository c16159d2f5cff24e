---------------------------- MODULE KvLoadFailure ----------------------------
(* Blocks that a KV connector failed to load (scheduler.py): what schedule() *)
(* gives out, what a step then computes from, and how update_from_output()   *)
(* takes back the tokens that count as computed, or fails the requests.      *)
(*                                                                           *)
(* All prompts are beginnings of one text, so that a position of the text    *)
(* has one right content and whatever is cached of it may be shared. A       *)
(* token stands for a block of tokens, so a prompt has two at least. A       *)
(* request is to sample one token. No step is scheduled before the result of *)
(* the last is in, which is how steps with synchronous loads are run. The    *)
(* pool is never short of blocks.                                            *)
EXTENDS Integers, SequencesExt, FiniteSetsExt

CONSTANT
  Scenarios   \* records: recompute (the failure policy), groups (of the KV cache),
              \* blocks (of the pool), prompt (length by request), async (who may load
              \* beside the steps), sync (who may load within one), threshold and budget
              \* (tokens of a request, and of a step), aborts (whether clients abort)

VARIABLES
  s,
  phase,
  status,               \* "waiting", "remote", "running", "finished", "error"
  running, skipped,     \* queues; skipped holds those that load
  computed,             \* num_computed_tokens
  pool,                 \* blocks: of a request, for each cache group; hash:
                        \* its group and position, or <<>>, of a block; right:
                        \* the blocks whose content is that of their position
  receiving,            \* of a request that loads: the blocks not reported as failed
  transfers,            \* the requests whose transfer has not ended
  finished_recving, failed_recving,
  step,                 \* num_scheduled_tokens, blocks loaded within the step, the result
  output                \* of a request: "none", or whether it came of the right blocks
vars == <<s, phase, status, running, skipped, computed, pool, receiving, transfers,
          finished_recving, failed_recving, step, output>>

Block == 1..s.blocks
Req == DOMAIN s.prompt
Groups == 1..s.groups
Nothing == [n |-> [r \in Req |-> 0], loads |-> {}, invalid |-> {}, failed |-> {},
            finished |-> {}, good |-> {}]
Smaller(a, b) == IF a < b THEN a ELSE b
BlocksOf(r) == UNION {ToSet(pool.blocks[r][g]) : g \in Groups}
Length(r) == Len(pool.blocks[r][1])

-----------------------------------------------------------------------------
(* The block pool and its prefix cache, as the scheduler uses them.          *)
Cached(p, g, i) == {b \in Block : p.hash[b] = <<g, i>>}
Hit(p, most) ==
  Max({n \in 0..most : \A g \in Groups, i \in 1..n : Cached(p, g, i) # {}})
Free(p) == Block \ UNION {ToSet(p.blocks[r][g]) : r \in Req, g \in Groups}
\* The i-th of a set of blocks, those that are not cached first.
Fresh(p, S, i) ==
  LET Before(a, b) == IF (p.hash[a] = <<>>) # (p.hash[b] = <<>>) THEN p.hash[a] = <<>> ELSE a < b
  IN CHOOSE b \in S : Cardinality({a \in S : Before(a, b)}) = i - 1
\* Blocks for a request's first total tokens, the first hit of them from the cache.
allocate_slots(p, r, hit, total) ==
  LET held == Len(p.blocks[r][1])
      first == IF hit > held THEN hit ELSE held
      more == IF total > first THEN total - first ELSE 0
      reused == {Min(Cached(p, g, i)) : g \in Groups, i \in 1..hit}
      fresh == [i \in 1..(s.groups * more) |-> Fresh(p, Free(p) \ reused, i)]
      At(g, i) == IF i <= held THEN p.blocks[r][g][i] ELSE IF i <= hit THEN Min(Cached(p, g, i))
                  ELSE fresh[(g - 1) * more + i - first]
  IN [blocks |-> [p.blocks EXCEPT ![r] = [g \in Groups |-> [i \in 1..(first + more) |-> At(g, i)]]],
      hash |-> [b \in Block |-> IF b \in ToSet(fresh) THEN <<>> ELSE p.hash[b]],
      right |-> p.right \ ToSet(fresh)]
cache_blocks(p, r, n) ==
  [p EXCEPT !.hash = [b \in Block |->
     IF p.hash[b] = <<>> /\ \E g \in Groups, i \in 1..n : p.blocks[r][g][i] = b
     THEN CHOOSE slot \in Groups \X (1..n) : p.blocks[r][slot[1]][slot[2]] = b ELSE p.hash[b]]]
\* What a block holds that nobody holds or finds does not matter.
Released(p, R) ==
  [p EXCEPT !.blocks = [r \in Req |-> IF r \in R THEN [g \in Groups |-> <<>>] ELSE @[r]],
            !.right = {b \in @ : p.hash[b] # <<>> \/ \E r \in Req \ R, g \in Groups : b \in ToSet(p.blocks[r][g])}]

-----------------------------------------------------------------------------
Init ==
  /\ s \in Scenarios
  /\ phase = "idle" /\ status = [r \in Req |-> "waiting"] /\ running = <<>> /\ skipped = <<>>
  /\ computed = [r \in Req |-> 0] 
  /\ pool = [blocks |-> [r \in Req |-> [g \in Groups |-> <<>>]], hash |-> [b \in Block |-> <<>>], right |-> {}]
  /\ receiving = [r \in Req |-> {}] /\ transfers = {}
  /\ finished_recving = {} /\ failed_recving = {}
  /\ step = Nothing /\ output = [r \in Req |-> "none"]

\* What a request is given of a budget that has left tokens.
Chunk(r, from, left) ==
  LET wanted == s.prompt[r] - from
  IN Smaller(left, IF 0 < s.threshold /\ s.threshold < wanted THEN s.threshold ELSE wanted)
Given == MapThenSumSet(LAMBDA r : step.n[r], Req)
\* Blocks are cached when they are given out, before their content is there.
Schedule(p, r, hit, from, n) == cache_blocks(allocate_slots(p, r, hit, from + n), r, from + n)

BeginSchedule ==
  LET Serve(acc, r) ==
        LET n == Chunk(r, computed[r], acc.left)
        IN IF n = 0 THEN acc
           ELSE [pool |-> Schedule(acc.pool, r, 0, computed[r], n), left |-> acc.left - n,
                 n |-> [acc.n EXCEPT ![r] = n]]
      pass == FoldLeft(Serve, [pool |-> pool, left |-> s.budget, n |-> Nothing.n], running)
  IN /\ phase = "idle" /\ phase' = "waiting pass"
     /\ pool' = pass.pool /\ step' = [Nothing EXCEPT !.n = pass.n]
     /\ computed' = [r \in Req |-> computed[r] + pass.n[r]]
     /\ UNCHANGED <<s, status, running, skipped, receiving, transfers, finished_recving,
                    failed_recving, output>>

_update_waiting_for_remote_kv(r) ==
  IF r \in failed_recving
  THEN /\ pool' = IF computed[r] > 0 THEN cache_blocks(pool, r, computed[r]) ELSE Released(pool, {r})
       /\ UNCHANGED computed
  ELSE /\ pool' = cache_blocks(pool, r, computed[r])
       /\ computed' = [computed EXCEPT ![r] = IF @ = s.prompt[r] THEN @ - 1 ELSE @]
_try_promote_blocked_waiting_request(r) ==
  /\ phase = "waiting pass" /\ status[r] = "remote" /\ r \in finished_recving
  /\ _update_waiting_for_remote_kv(r)
  /\ status' = [status EXCEPT ![r] = "waiting"] /\ skipped' = Remove(skipped, r)
  /\ finished_recving' = finished_recving \ {r} /\ failed_recving' = failed_recving \ {r}
  /\ UNCHANGED <<s, phase, running, receiving, transfers, step, output>>

\* A request is admitted to the step, with external tokens behind the hit that
\* the step itself loads. Which requests have arrived, and in which order, is open.
Admit(r, external) ==
  LET left == s.budget - Given
      hit == IF computed[r] = 0 THEN Hit(pool, s.prompt[r] - 1) ELSE 0
      from == IF computed[r] = 0 THEN hit + external ELSE computed[r]
      n == Chunk(r, from, left)
      after == Schedule(pool, r, hit, from, n)
  IN /\ phase = "waiting pass" /\ status[r] = "waiting" /\ left > 0
     /\ external > 0 => r \in s.sync /\ computed[r] = 0
     /\ from < s.prompt[r]
     /\ pool' = after /\ running' = Append(running, r) /\ status' = [status EXCEPT ![r] = "running"]
     /\ computed' = [computed EXCEPT ![r] = from + n]
     /\ step' = [step EXCEPT !.n[r] = n,
                             !.loads = @ \cup {after.blocks[r][g][i] : g \in Groups, i \in (hit + 1)..(hit + external)}]
     /\ UNCHANGED <<s, phase, skipped, receiving, transfers, finished_recving, failed_recving, output>>
\* Or it gets blocks only, for a load beside the steps; they are not cached yet.
AdmitAsync(r, external) ==
  LET hit == Hit(pool, s.prompt[r] - 1)
      after == allocate_slots(pool, r, hit, hit + external)
  IN /\ phase = "waiting pass" /\ status[r] = "waiting" /\ computed[r] = 0 /\ Given < s.budget
     /\ r \in s.async /\ external > 0 /\ hit + external <= s.prompt[r]
     /\ pool' = after /\ status' = [status EXCEPT ![r] = "remote"] /\ skipped' = <<r>> \o skipped
     /\ computed' = [computed EXCEPT ![r] = hit + external]
     /\ receiving' = [receiving EXCEPT ![r] =
          {after.blocks[r][g][i] : g \in Groups, i \in (hit + 1)..(hit + external)}]
     /\ transfers' = transfers \cup {r}
     /\ UNCHANGED <<s, phase, running, finished_recving, failed_recving, step, output>>

-----------------------------------------------------------------------------
(* The workers: loads of the step first, of which some fail, then layer by   *)
(* layer all tokens, each of which is right if all before it are. What a     *)
(* transfer writes is right only where its request still holds the block.    *)
Computed(content) ==
  LET At(c, i) ==
        LET writers == {r \in Req : computed[r] - step.n[r] < i /\ i <= computed[r] /\ status[r] = "running"}
            Good(r) == \A g \in Groups, j \in 1..(i - 1) : pool.blocks[r][g][j] \in c
            Written(R) == {pool.blocks[r][g][i] : g \in Groups, r \in R}
        IN (c \ Written(writers)) \cup Written({r \in writers : Good(r)})
  IN FoldLeft(At, content, [i \in 1..Max({s.prompt[r] : r \in Req}) |-> i])
Execute(invalid, failed, finished) ==
  LET landed == [r \in finished |-> IF r \in failed THEN {} ELSE receiving[r] \ invalid]
      content == ((pool.right \cup (step.loads \ invalid)) \ UNION {landed[r] : r \in finished})
                 \cup UNION {landed[r] \cap BlocksOf(r) : r \in finished}
      after == Computed(content)
  IN /\ phase = "waiting pass" /\ phase' = "ran"
     /\ invalid \subseteq step.loads \cup UNION {receiving[r] : r \in transfers}
     /\ failed \subseteq transfers /\ finished \subseteq transfers
     /\ pool' = [pool EXCEPT !.right = after]
     /\ receiving' = [r \in Req |-> IF r \in failed THEN {} ELSE receiving[r] \ invalid]
     /\ transfers' = transfers \ finished
     /\ step' = [step EXCEPT !.invalid = invalid, !.failed = failed, !.finished = finished,
                   !.good = {r \in Req : \A g \in Groups, i \in 1..computed[r] :
                                           i <= Length(r) /\ pool.blocks[r][g][i] \in after}]
     /\ UNCHANGED <<s, status, running, skipped, computed, finished_recving,
                    failed_recving, output>>

-----------------------------------------------------------------------------
(* update_from_output. A scan goes over requests in the order of their       *)
(* queue; its record has their computed tokens, who is affected, the blocks  *)
(* marked for recomputation and those to evict.                              *)
\* A hybrid model's request is recomputed in full.
AffectedInFull(acc, r) ==
  LET lost == BlocksOf(r) \cap step.invalid
  IN IF lost = {} THEN acc
     ELSE [computed |-> [acc.computed EXCEPT ![r] = 0], affected |-> acc.affected \cup {r},
           marked |-> acc.marked \cup lost, evict |-> acc.evict \cup BlocksOf(r)]
\* Mutated form: the tokens before the last invalid block count, not those before the first.
AffectedTooLittle(acc, r) ==
  LET held == acc.computed[r] - step.n[r]
      lost == {i \in 1..Smaller(held, Length(r)) : pool.blocks[r][1][i] \in step.invalid}
  IN IF lost = {} THEN acc
     ELSE [acc EXCEPT !.computed[r] = Max(lost) - 1, !.affected = @ \cup {r}, !.marked = @ \cup step.invalid]
\* Else up to its first invalid block that no request before it is to recompute.
Affected(acc, r) ==
  LET held == acc.computed[r] - step.n[r]
      lost == {i \in 1..Smaller(held, Length(r)) : pool.blocks[r][1][i] \in step.invalid}
      own == {i \in lost : pool.blocks[r][1][i] \notin acc.marked}
  IN IF lost = {} THEN acc
     ELSE [computed |-> [acc.computed EXCEPT ![r] = IF own # {} THEN Min(own) - 1 ELSE held],
           affected |-> acc.affected \cup {r},
           marked |-> acc.marked \cup {pool.blocks[r][1][i] : i \in own},
           evict |-> acc.evict \cup IF own = {} THEN {} ELSE {pool.blocks[r][1][i] : i \in Min(own)..Length(r)}]
_update_requests_with_invalid_blocks(requests, tokens) ==
  FoldLeft(LAMBDA acc, r : IF s.groups > 1 THEN AffectedInFull(acc, r) ELSE Affected(acc, r),
           [computed |-> tokens, affected |-> {}, marked |-> {}, evict |-> {}], requests)

\* Loads beside the steps whose connector names the request, not the blocks.
_handle_failed_recving == {r \in step.failed : status[r] = "remote"}
\* Mutated form: nothing is evicted under the fail policy.
NothingEvicted(tokens) ==
  LET async == _update_requests_with_invalid_blocks(skipped, tokens)
      sync == _update_requests_with_invalid_blocks(running, async.computed)
  IN [computed |-> sync.computed, async |-> async.affected, sync |-> sync.affected, evict |-> {}]
_handle_invalid_blocks(tokens) ==
  LET async == _update_requests_with_invalid_blocks(skipped, tokens)
      sync == _update_requests_with_invalid_blocks(running, async.computed)
  IN [computed |-> sync.computed, async |-> async.affected, sync |-> sync.affected,
      evict |-> IF s.recompute THEN {} ELSE sync.evict]

\* Requests that end: their blocks go back, unless a transfer still writes to them.
\* Mutated form: a transfer does not keep the blocks.
NoneKept(R, received) == {}
Kept(R, received) == {r \in R : status[r] = "remote" /\ r \notin received}
update_from_output ==
  \E whole \in {_handle_failed_recving} :
  \E tokens \in {[r \in Req |-> IF s.recompute /\ r \in whole THEN 0 ELSE computed[r]]} :
  \E invalid \in {_handle_invalid_blocks(tokens)} :
  LET affected == invalid.sync \cup invalid.async \cup whole
      sampled == {r \in Req : step.n[r] > 0 /\ status[r] = "running" /\ r \notin invalid.sync
                              /\ tokens[r] = s.prompt[r]}
      errors == IF s.recompute THEN {} ELSE affected
      \* The completions are looked at last, by the status the requests have then.
      came == {r \in step.finished : status[r] = "remote" /\ r \notin errors}
      over == {r \in step.finished : status[r] = "error" \/ r \in errors}
      freed == (sampled \cup errors \cup over) \ (Kept(errors, finished_recving) \ over)
  IN /\ phase = "ran" /\ phase' = "idle" /\ step' = Nothing
     /\ computed' = invalid.computed
     /\ pool' = [Released(pool, freed) EXCEPT !.hash =
                   [b \in Block |-> IF b \in invalid.evict THEN <<>> ELSE pool.hash[b]]]
     /\ output' = [r \in Req |-> IF r \notin sampled THEN output[r]
                                 ELSE IF r \in step.good THEN "right" ELSE "wrong"]
     /\ status' = [r \in Req |-> IF r \in sampled THEN "finished" ELSE IF r \in errors THEN "error" ELSE status[r]]
     /\ running' = SelectSeq(running, LAMBDA r : r \notin sampled \cup errors)
     /\ skipped' = SelectSeq(skipped, LAMBDA r : r \notin errors)
     /\ failed_recving' = (failed_recving \cup IF s.recompute THEN whole \cup invalid.async ELSE {}) \ errors
     /\ finished_recving' = (finished_recving \ errors) \cup came
     /\ UNCHANGED <<s, receiving, transfers>>

\* A client aborts: between the steps, or while one runs.
finish_requests(r) ==
  /\ s.aborts /\ phase \in {"idle", "ran"} /\ status[r] \in {"waiting", "remote", "running"}
  /\ status' = [status EXCEPT ![r] = "error"]
  /\ running' = Remove(running, r) /\ skipped' = Remove(skipped, r)
  /\ finished_recving' = finished_recving \ {r} /\ failed_recving' = failed_recving \ {r}
  /\ pool' = Released(pool, {r} \ Kept({r}, finished_recving))
  /\ UNCHANGED <<s, phase, computed, receiving, transfers, step, output>>

Next ==
  \/ BeginSchedule \/ update_from_output
  \/ \E r \in Req : \/ _try_promote_blocked_waiting_request(r) \/ finish_requests(r)
                    \/ \E n \in 0..s.prompt[r] : Admit(r, n) \/ AdmitAsync(r, n)
  \/ \E invalid \in SUBSET (step.loads \cup UNION {receiving[r] : r \in transfers}),
        failed \in SUBSET transfers, finished \in SUBSET transfers : Execute(invalid, failed, finished)
Spec == Init /\ [][Next]_vars
-----------------------------------------------------------------------------
\* A request samples from the right contents, whatever was lost on the way to
\* it or to those it shares blocks with.
OutputsAreExact == \A r \in Req : output[r] # "wrong"
\* What is noted of a load belongs to a request that waits for it, such a
\* request is not forgotten, and in the end nobody holds blocks.
LoadsComeToAnEnd ==
  /\ (failed_recving \cup finished_recving) \subseteq {r \in Req : status[r] = "remote"}
  /\ phase = "idle" =>
       /\ {r \in Req : status[r] = "remote"} \subseteq (transfers \cup finished_recving)
       /\ \A r \in Req : status[r] \in {"finished", "error"} /\ r \notin transfers => BlocksOf(r) = {}
=============================================================================
