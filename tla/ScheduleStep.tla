----------------------------- MODULE ScheduleStep -----------------------------
(***************************************************************************)
(* One call of schedule() after another (scheduler.py), pass by pass.      *)
(*                                                                         *)
(* A step goes over the running requests once, then over the waiting ones, *)
(* and, with a compute-share controller, prefill interleaving or a         *)
(* boundary checkpoint, over the running ones again for what is left.  All *)
(* passes draw on three budgets; a pass that finds no blocks evicts        *)
(* requests and takes back what they were given.                           *)
(*                                                                         *)
(* The waiting queues are a set here: RequestQueues has their order.       *)
(***************************************************************************)
EXTENDS Integers, Sequences, FiniteSets, SequencesExt

CONSTANTS
  Req,
  Rank,            \* SchedulingPolicy.PRIORITY: (priority, arrival_time), 1 first
  ByPriority,      \* policy is PRIORITY, else FCFS
  Adapter,         \* lora_int_id of a request, 0 without LoRA
  MaxLoras,        \* lora_config.max_loras
  ComputeShare,    \* compute_share_controller is set
  InterleavePrefill, \* max_parallel_prefills > 1
  Throttle,        \* prefill_schedule_interval > 1
  Checkpoints,     \* boundary checkpoints are in use
  Overlap,         \* max_concurrent_batches > 1
  Limits,          \* encoder inputs, alignments or a connector may refuse or cut
  MaxRunning,      \* max_num_running_reqs
  TokenCap,        \* max_num_scheduled_tokens
  InputCap,        \* max_num_batched_tokens
  DraftSlots,      \* draft_slots
  DraftInput,      \* separate_draft_input_tokens
  MaxPrompt,       \* bound on the uncached tokens of an admitted request
  MaxDrafts        \* num_spec_tokens

ASSUME StepAssumption ==
  /\ IsFiniteSet(Req)
  /\ Rank \in [Req -> Nat] /\ Adapter \in [Req -> Nat]
  /\ \A q, r \in Req : Rank[q] = Rank[r] => q = r
  /\ {ByPriority, ComputeShare, InterleavePrefill, Throttle, Checkpoints, Overlap,
      Limits} \subseteq BOOLEAN
  /\ ComputeShare => ~Throttle
  /\ {MaxRunning, TokenCap, InputCap, MaxPrompt, MaxLoras} \subseteq Nat \ {0}
  /\ {DraftSlots, DraftInput, MaxDrafts} \subseteq Nat
  /\ TokenCap <= InputCap /\ DraftSlots < InputCap /\ DraftInput <= InputCap

VARIABLES
  phase,           \* the part of schedule() under way
  running, waiting,
  left,            \* num_tokens - num_computed_tokens of a running request
  drafts,          \* its spec_token_ids, counted
  prefill,         \* is_prefill_chunk
  step,            \* what schedule() fixes before the first pass
  defer_prefills,
  req_index,       \* of the pass under way
  num_new_tokens,  \* for running[req_index], 0 until they are known
  num_scheduled_tokens,
  new,             \* scheduled by the waiting pass, new or resumed
  boundary,        \* boundary_logits_only of the requests of new
  preempted,       \* preempted_reqs
  skipped,         \* step_skipped_waiting
  scheduled_loras,
  token_budget, input_budget, draft_input_budget,
  visited,         \* history: passed by req_index in this pass
  considered,      \* history: whose own limits a pass looked at in this step
  out_of_blocks    \* history: a pass of this step ended for lack of blocks

reqVars    == <<running, waiting, left, drafts, prefill>>
budgetVars == <<token_budget, input_budget, draft_input_budget>>
passVars   == <<req_index, num_new_tokens, visited>>
stepVars   == <<step, defer_prefills, num_scheduled_tokens, new, boundary, preempted,
                skipped, scheduled_loras, considered, out_of_blocks>>
vars == <<phase, reqVars, budgetVars, passVars, stepVars>>

(* The passes over running after the waiting pass, in their order. *)
LaterPasses == <<"reserve", "interleave", "fallback", "leftover">>
RunningPasses == {"initial"} \cup Range(LaterPasses)

Scheduled == {r \in Req : num_scheduled_tokens[r] > 0}
scheduled_running == Scheduled \ new
AdaptersOf(S) == {Adapter[r] : r \in S} \ {0}
Least(S) == CHOOSE x \in S : \A y \in S : x <= y

NoStep == [cap |-> 0, turn |-> "none", legacy |-> FALSE, interleave |-> FALSE,
           reserve |-> FALSE, paused |-> "no", eligible |-> {}, at_start |-> {}]

TypeOK ==
  /\ phase \in RunningPasses \cup {"idle", "loras", "waiting", "done"}
  /\ running \in Seq(Req) /\ waiting \subseteq Req
  /\ left \in [Req -> 0 .. MaxPrompt] /\ drafts \in [Req -> 0 .. MaxDrafts]
  /\ prefill \in [Req -> BOOLEAN]
  /\ step \in [cap : {0, TokenCap, InputCap}, turn : {"none", "decode", "prefill"},
               legacy : BOOLEAN, interleave : BOOLEAN, reserve : BOOLEAN,
               paused : {"no", "new", "all"}, eligible : SUBSET Req,
               at_start : SUBSET Req]
  /\ {defer_prefills, out_of_blocks} \subseteq BOOLEAN
  /\ req_index \in 1 .. Len(running) + 1
  /\ num_new_tokens \in 0 .. InputCap
  /\ num_scheduled_tokens \in [Req -> 0 .. InputCap]
  /\ \A S \in {new, boundary, preempted, skipped, visited, considered} : S \subseteq Req
  /\ scheduled_loras \subseteq AdaptersOf(Req)
  /\ \A b \in {token_budget, input_budget, draft_input_budget} : b \in Int

ClearStep ==
  /\ step' = NoStep /\ defer_prefills' = FALSE
  /\ num_scheduled_tokens' = [r \in Req |-> 0]
  /\ new' = {} /\ boundary' = {} /\ preempted' = {} /\ skipped' = {}
  /\ scheduled_loras' = {} /\ considered' = {} /\ out_of_blocks' = FALSE
  /\ token_budget' = 0 /\ input_budget' = 0 /\ draft_input_budget' = 0
  /\ req_index' = 1 /\ num_new_tokens' = 0 /\ visited' = {}

Init ==
  /\ phase = "idle"
  /\ running = <<>> /\ waiting = {}
  /\ left = [r \in Req |-> 0] /\ drafts = [r \in Req |-> 0]
  /\ prefill = [r \in Req |-> FALSE]
  /\ step = NoStep /\ defer_prefills = FALSE
  /\ num_scheduled_tokens = [r \in Req |-> 0]
  /\ new = {} /\ boundary = {} /\ preempted = {} /\ skipped = {}
  /\ scheduled_loras = {} /\ considered = {} /\ out_of_blocks = FALSE
  /\ token_budget = 0 /\ input_budget = 0 /\ draft_input_budget = 0
  /\ req_index = 1 /\ num_new_tokens = 0 /\ visited = {}

-----------------------------------------------------------------------------
(* Between two calls. *)

add_request(r) ==
  /\ phase = "idle"
  /\ r \notin waiting \cup Range(running)
  /\ waiting' = waiting \cup {r}
  /\ UNCHANGED <<phase, running, left, drafts, prefill, budgetVars, passVars, stepVars>>

(* The output of a request whose known tokens are computed: a sampled      *)
(* token with new drafts, or its end.                                      *)
update_from_output(r) ==
  /\ phase = "idle"
  /\ r \in Range(running) /\ left[r] = 0
  /\ \/ \E k \in {0, MaxDrafts} :
          /\ left' = [left EXCEPT ![r] = 1]
          /\ drafts' = [drafts EXCEPT ![r] = k]
          /\ UNCHANGED running
     \/ /\ \E i \in DOMAIN running : running[i] = r /\ running' = RemoveAt(running, i)
        /\ UNCHANGED <<left, drafts>>
  /\ UNCHANGED <<phase, waiting, prefill, budgetVars, passVars, stepVars>>

-----------------------------------------------------------------------------
(* What schedule() decides before its first pass *)

(* Whether a decode can really be served shows only in a pass: this may    *)
(* count one whose last token is still in flight.                          *)
_request_is_runnable_decode(r, eligible) == ~prefill[r] /\ r \in eligible

has_possible_prefill == waiting # {} \/ \E r \in Range(running) : prefill[r]

needs_decode_count == Throttle \/ (has_possible_prefill /\ (ComputeShare \/ InterleavePrefill))

has_prefill_candidate(s) ==
  /\ s.paused # "all"
  /\ \/ \E r \in Range(running) : prefill[r] /\ r \in s.eligible
     \/ s.paused = "no" /\ waiting # {}

(* The controller chooses a class only when both compete. *)
turns(s, has_eligible_decode) ==
  IF ComputeShare /\ has_eligible_decode /\ has_prefill_candidate(s)
  THEN {"decode", "prefill"} ELSE {"none"}

_has_waiting_boundary_logits(s) ==
  Checkpoints /\ s.paused = "no" /\ waiting # {} /\ Len(running) < MaxRunning

Controls ==
  {s \in [cap : {TokenCap, InputCap}, turn : {"none", "decode", "prefill"},
          legacy : BOOLEAN, interleave : BOOLEAN, reserve : BOOLEAN,
          paused : {"no", "new", "all"},
          eligible : IF Overlap THEN SUBSET Range(running) ELSE {Range(running)},
          at_start : {Range(running)}] :
     LET decode == \E r \in Range(running) : _request_is_runnable_decode(r, s.eligible)
     IN  /\ s.cap = TokenCap \/ (~decode /\ needs_decode_count /\ s.paused # "all")
         /\ s.turn \in turns(s, decode)
         /\ s.legacy => Throttle /\ decode
         /\ s.interleave = (InterleavePrefill /\ has_possible_prefill)
         /\ s.reserve => _has_waiting_boundary_logits(s)}

(* Unless steps overlap, the output of the last step has been taken. *)
BeginSchedule ==
  /\ phase = "idle"
  /\ Overlap \/ \A r \in Range(running) : left[r] > 0
  /\ \E s \in Controls :
       /\ step' = s
       /\ defer_prefills' = (s.legacy \/ s.turn = "decode")
       /\ token_budget' = IF s.paused = "all" THEN 0 ELSE s.cap
       /\ phase' = IF s.reserve THEN "loras" ELSE "initial"
  /\ input_budget' = InputCap /\ draft_input_budget' = InputCap
  /\ UNCHANGED <<reqVars, passVars, num_scheduled_tokens, new, boundary, preempted,
                 skipped, scheduled_loras, considered, out_of_blocks>>

-----------------------------------------------------------------------------
(* schedule_running_requests *)

service_class ==
  CASE phase \in {"initial", "reserve"} -> IF step.turn = "prefill" THEN "prefill" ELSE "any"
    [] phase \in {"interleave", "fallback"} -> "prefill"
    [] phase = "leftover" -> "decode"

AlwaysAllowed == TRUE

(* Passes over what is left must not evict, and keep to max_loras. *)
allow_preemption == phase \notin {"interleave", "leftover"}
enforce_lora_limit == phase = "leftover"

LoraFull(r) ==
  /\ Adapter[r] # 0
  /\ Cardinality(scheduled_loras) = MaxLoras
  /\ Adapter[r] \notin scheduled_loras

(* Requests the pass goes over without looking at their limits. *)
NotInPass(r) ==
  \/ r \in Scheduled
  \/ (ComputeShare \/ step.interleave) /\ r \notin step.at_start
  \/ service_class # "any" /\ service_class # (IF prefill[r] THEN "prefill" ELSE "decode")
  \/ enforce_lora_limit /\ LoraFull(r)

InputsExhausted == input_budget <= DraftSlots \/ draft_input_budget < DraftInput

(* running[req_index], when the pass is at a request and not yet           *)
(* allocating blocks for it.                                               *)
At(r) ==
  /\ phase \in RunningPasses
  /\ num_new_tokens = 0 /\ token_budget > 0
  /\ req_index <= Len(running) /\ running[req_index] = r

Advance ==
  /\ req_index' = req_index + 1
  /\ num_new_tokens' = 0
  /\ visited' = visited \cup {running[req_index]}

GoOver(r) ==
  /\ At(r) /\ NotInPass(r)
  /\ Advance
  /\ UNCHANGED <<phase, reqVars, budgetVars, stepVars>>

Deferred(r) == defer_prefills /\ prefill[r]

(* Why r may get no tokens in this pass: its output is in flight, it is    *)
(* not yet eligible, prefills are deferred, the interleave controller did  *)
(* not select it, or a limit leaves it none.                               *)
NothingFor(r) ==
  \/ left[r] = 0 \/ r \notin step.eligible \/ Deferred(r)
  \/ step.interleave /\ prefill[r]
  \/ Limits

Refuse(r) ==
  /\ At(r) /\ ~NotInPass(r) /\ ~InputsExhausted
  /\ NothingFor(r)
  /\ considered' = IF Deferred(r) THEN considered ELSE considered \cup {r}
  /\ Advance
  /\ UNCHANGED <<phase, reqVars, budgetVars, step, defer_prefills, num_scheduled_tokens,
                 new, boundary, preempted, skipped, scheduled_loras, out_of_blocks>>

(* The numbers of tokens a request may get when most are possible. *)
Shares(most) == IF Limits \/ step.interleave THEN 1 .. most ELSE {most} \ {0}

(* It is to get n tokens, at most those it has and the budgets allow. *)
Consider(r, n) ==
  /\ At(r) /\ ~NotInPass(r) /\ ~InputsExhausted
  /\ r \in step.eligible /\ ~Deferred(r)
  /\ n \in Shares(Least({left[r] + drafts[r], token_budget, input_budget - DraftSlots}))
  /\ num_new_tokens' = n
  /\ considered' = considered \cup {r}
  /\ UNCHANGED <<phase, reqVars, budgetVars, req_index, visited, step, defer_prefills,
                 num_scheduled_tokens, new, boundary, preempted, skipped, scheduled_loras,
                 out_of_blocks>>

(* n tokens go to a request, and back from one that is evicted. *)
Spend(n) ==
  /\ token_budget' = token_budget - n
  /\ input_budget' = input_budget - (n + DraftSlots)
  /\ draft_input_budget' = draft_input_budget - DraftInput

RefundTokensOnly(n) ==
  /\ token_budget' = token_budget + n
  /\ input_budget' = input_budget + n
  /\ UNCHANGED draft_input_budget

Refund(n) ==
  /\ token_budget' = token_budget + n
  /\ input_budget' = input_budget + (n + DraftSlots)
  /\ draft_input_budget' = draft_input_budget + DraftInput

(* allocate_slots succeeds. *)
Serve ==
  /\ num_new_tokens > 0
  /\ LET r == running[req_index]
     IN  /\ num_scheduled_tokens' = [num_scheduled_tokens EXCEPT ![r] = num_new_tokens]
         /\ Spend(num_new_tokens)
         /\ scheduled_loras' = IF enforce_lora_limit
                               THEN scheduled_loras \cup AdaptersOf({r})
                               ELSE scheduled_loras
         /\ drafts' = [drafts EXCEPT ![r] = 0]
  /\ Advance
  /\ UNCHANGED <<phase, running, waiting, left, prefill, step, defer_prefills, new,
                 boundary, preempted, skipped, considered, out_of_blocks>>

-----------------------------------------------------------------------------
(* The way through the passes *)

(* The condition under which a later pass takes place; deferring says      *)
(* whether prefills are deferred after the pass before.                    *)
Wanted(pass, deferring) ==
  CASE pass = "reserve"    -> step.reserve /\ Scheduled = {}
    [] pass = "interleave" -> step.interleave /\ ~deferring /\ token_budget > 0
    [] pass = "fallback"   -> step.turn = "decode" /\ Scheduled = {} /\ ~step.legacy
    [] pass = "leftover"   -> step.turn = "prefill" /\ token_budget > 0

FollowingPass(deferring) ==
  LET wanted == {i \in DOMAIN LaterPasses :
                   /\ phase \in Range(LaterPasses) => \E k \in 1 .. i - 1 : LaterPasses[k] = phase
                   /\ Wanted(LaterPasses[i], deferring)}
  IN  IF wanted = {} THEN "done" ELSE LaterPasses[Least(wanted)]

AsBefore(pass, deferring) == deferring

DeferringIn(pass, deferring) == deferring /\ pass # "fallback"

GoOn(to, deferring) ==
  /\ phase' = to
  /\ defer_prefills' = DeferringIn(to, deferring)
  /\ req_index' = 1 /\ num_new_tokens' = 0 /\ visited' = {}

EndRunning == GoOn(IF phase = "initial" THEN "loras" ELSE FollowingPass(defer_prefills),
                   defer_prefills)

(* The pass is through, or a budget is used up. *)
EndPass ==
  /\ phase \in RunningPasses /\ num_new_tokens = 0
  /\ \A r \in Range(running) : At(r) => ~NotInPass(r) /\ InputsExhausted
  /\ EndRunning
  /\ UNCHANGED <<reqVars, budgetVars, step, num_scheduled_tokens, new, boundary, preempted,
                 skipped, scheduled_loras, considered, out_of_blocks>>

(* No blocks and nobody to evict: blocks about to be freed by the          *)
(* connector, a victim that is in flight, or a pass that must not evict.   *)
GiveUp ==
  /\ num_new_tokens > 0
  /\ allow_preemption => Overlap \/ Limits
  /\ out_of_blocks' = TRUE
  /\ EndRunning
  /\ UNCHANGED <<reqVars, budgetVars, step, num_scheduled_tokens, new, boundary, preempted,
                 skipped, scheduled_loras, considered>>

LastRunning == Len(running)

Victim ==
  IF ByPriority
  THEN CHOOSE i \in DOMAIN running : \A k \in DOMAIN running : Rank[running[k]] <= Rank[running[i]]
  ELSE LastRunning

(* What was given to a victim in this step is taken back; only the branch  *)
(* for PRIORITY does so.                                                   *)
TakeBack(v) ==
  IF ByPriority /\ v \in scheduled_running
  THEN /\ num_scheduled_tokens' = [num_scheduled_tokens EXCEPT ![v] = 0]
       /\ Refund(num_scheduled_tokens[v])
  ELSE UNCHANGED <<num_scheduled_tokens, budgetVars>>

CursorStays(i) == req_index

CursorAfter(i) == IF i < req_index THEN req_index - 1 ELSE req_index

(* allocate_slots fails and a running request is preempted; the pass ends  *)
(* when it was the one blocks are sought for.                              *)
Evict ==
  /\ num_new_tokens > 0 /\ allow_preemption
  /\ LET v == running[Victim]
     IN  /\ running' = RemoveAt(running, Victim)
         /\ waiting' = waiting \cup {v}
         /\ left' = [left EXCEPT ![v] = 0] /\ drafts' = [drafts EXCEPT ![v] = 0]
         /\ preempted' = preempted \cup {v}
         /\ TakeBack(v)
  /\ IF Victim = req_index
     THEN EndRunning /\ out_of_blocks' = TRUE
     ELSE /\ req_index' = CursorAfter(Victim)
          /\ UNCHANGED <<phase, defer_prefills, num_new_tokens, visited, out_of_blocks>>
  /\ UNCHANGED <<prefill, step, new, boundary, skipped, scheduled_loras, considered>>

(* The adapters the first pass uses; "assert len(scheduled_loras) <= ...". *)
RecordLoras ==
  /\ phase = "loras"
  /\ Cardinality(AdaptersOf(scheduled_running)) <= MaxLoras
  /\ scheduled_loras' = AdaptersOf(scheduled_running)
  /\ IF preempted = {} /\ step.paused = "no"
     THEN GoOn("waiting", defer_prefills) ELSE GoOn(FollowingPass(defer_prefills), defer_prefills)
  /\ UNCHANGED <<reqVars, budgetVars, step, num_scheduled_tokens, new, boundary, preempted,
                 skipped, considered, out_of_blocks>>

-----------------------------------------------------------------------------
(* The pass over the waiting requests *)

Room ==
  /\ phase = "waiting"
  /\ boundary = {} /\ token_budget > 0 /\ ~InputsExhausted
  /\ Len(running) < MaxRunning

(* Blocked, stale output in flight, a full set of adapters, transfers to   *)
(* wait for, a load begun: put off to a later step.                        *)
SkipWaiting(r) ==
  /\ Room /\ r \in waiting \ skipped
  /\ skipped' = skipped \cup {r}
  /\ UNCHANGED <<phase, reqVars, budgetVars, passVars, step, defer_prefills,
                 num_scheduled_tokens, new, boundary, preempted, scheduled_loras,
                 considered, out_of_blocks>>

(* Whether prefills stay deferred after a request with need uncached       *)
(* tokens: not when the decodes proved not to be runnable.                 *)
StillDeferred(need) ==
  IF need > 1 /\ step.turn = "decode" /\ Scheduled = {} THEN step.legacy
  ELSE defer_prefills

MayAdmit(r) == Room /\ r \in waiting \ skipped /\ ~LoraFull(r)

Enter(r, need, n) ==
  /\ running' = Append(running, r)
  /\ waiting' = waiting \ {r}
  /\ new' = new \cup {r}
  /\ left' = [left EXCEPT ![r] = need]
  /\ num_scheduled_tokens' = [num_scheduled_tokens EXCEPT ![r] = n]
  /\ scheduled_loras' = scheduled_loras \cup AdaptersOf({r})
  /\ UNCHANGED <<phase, drafts, prefill, passVars, step, preempted, skipped, considered,
                 out_of_blocks>>

(* A request with need uncached tokens gets n; one that has only one may   *)
(* be padded to the size of a speculative decode.                          *)
Admit(r, need, n) ==
  /\ MayAdmit(r)
  /\ need > 1 => ~StillDeferred(need)
  /\ \E padded \in {0, IF need = 1 THEN MaxDrafts ELSE 0} :
       n \in Shares(Least({token_budget, input_budget - DraftSlots, need + padded}))
  /\ Enter(r, need, n)
  /\ Spend(n)
  /\ defer_prefills' = StillDeferred(need)
  /\ UNCHANGED boundary

(* Boundary logits do not join work that is already scheduled. *)
MayAdmitBoundary(r) == MayAdmit(r) /\ Scheduled = {}

(* Everything is cached: one token of saved logits, and nothing else in    *)
(* this step.                                                              *)
AdmitBoundary(r) ==
  /\ Checkpoints
  /\ MayAdmitBoundary(r)
  /\ Enter(r, 0, 1)
  /\ boundary' = {r}
  /\ token_budget' = 0
  /\ input_budget' = input_budget - (1 + DraftSlots)
  /\ draft_input_budget' = draft_input_budget - DraftInput
  /\ UNCHANGED defer_prefills

(* No candidate is left or nothing more fits, or a candidate of need       *)
(* tokens cannot be admitted and the pass breaks off.                      *)
EndWaiting(need) ==
  /\ phase = "waiting"
  /\ need > 0 => Room /\ waiting \ skipped # {}
  /\ need = 0 => ~Room \/ waiting \subseteq skipped
  /\ \E deferring \in {defer_prefills, StillDeferred(need)} :
       GoOn(FollowingPass(deferring), deferring)
  /\ skipped' = {}
  /\ UNCHANGED <<reqVars, budgetVars, step, num_scheduled_tokens, new, boundary, preempted,
                 scheduled_loras, considered, out_of_blocks>>

(* The end of schedule() with _update_after_schedule. *)
_update_after_schedule ==
  /\ phase = "done"
  /\ phase' = "idle"
  /\ left' = [r \in Req |-> IF num_scheduled_tokens[r] > left[r] THEN 0
                            ELSE left[r] - num_scheduled_tokens[r]]
  /\ prefill' = [r \in Req |-> IF r \in Scheduled THEN left'[r] > 0 ELSE prefill[r]]
  /\ ClearStep
  /\ UNCHANGED <<running, waiting, drafts>>

Next ==
  \/ BeginSchedule \/ Serve \/ Evict \/ GiveUp \/ EndPass \/ RecordLoras \/ _update_after_schedule
  \/ \E r \in Req :
       \/ add_request(r) \/ update_from_output(r)
       \/ GoOver(r) \/ Refuse(r) \/ SkipWaiting(r) \/ AdmitBoundary(r)
       \/ \E n \in 1 .. InputCap :
            \/ Consider(r, n)
            \/ \E need \in 1 .. MaxPrompt : Admit(r, need, n)
  \/ \E need \in 0 .. MaxPrompt : EndWaiting(need)

Spec == Init /\ [][Next]_vars

-----------------------------------------------------------------------------
(* Properties *)

TokensOf(S) == SumFunctionOnSet(num_scheduled_tokens, S)

(* Through any order of serving and evicting, what is left of the three    *)
(* budgets is what was there less what the scheduled requests have, and    *)
(* never negative (the assertions at the end of schedule()).               *)
BudgetsBalance ==
  phase # "idle" =>
    /\ token_budget >= 0 /\ input_budget >= 0 /\ draft_input_budget >= 0
    /\ input_budget = InputCap - TokensOf(Req) - DraftSlots * Cardinality(Scheduled)
    /\ draft_input_budget = InputCap - DraftInput * Cardinality(Scheduled)
    /\ boundary = {} /\ step.paused # "all" => token_budget = step.cap - TokensOf(Req)

(* A step computes nothing for a request it preempted: whatever order the  *)
(* passes take, scheduled requests are running ones.                       *)
EvictedIsUnscheduled ==
  /\ Scheduled \subseteq Range(running)
  /\ preempted \subseteq waiting /\ preempted \cap Scheduled = {}

(* The cursor of a pass goes past no request it did not look at, although  *)
(* evictions move the requests behind it ("preventing the silent omission  *)
(* of the subsequent request").                                            *)
NobodyPassedOver ==
  phase \in RunningPasses =>
    \A i \in DOMAIN running : i < req_index => running[i] \in visited

(* Under PRIORITY no request is computed in a step that preempted a more   *)
(* important one.                                                          *)
EvictionFollowsPriority ==
  \A v \in preempted : \A r \in Scheduled : Rank[r] < Rank[v]

(* "The boundary-logits step must be the only scheduled work." *)
BoundaryIsAlone == boundary # {} => Scheduled = boundary

(* A step without work is not the choice of the policy: unless memory, a   *)
(* pause or the prefill cadence stood in the way, each running request was *)
(* asked and had nothing to compute ("Running requests must still make     *)
(* progress", "before returning an empty step").                           *)
EmptyStepIsForced ==
  phase = "done" /\ Scheduled = {} /\ ~out_of_blocks /\ ~step.legacy /\ step.paused # "all"
    => step.at_start \subseteq considered

(* Passes over what is left take nothing away that was given before        *)
(* ("Leftover service must not evict work selected and admitted earlier"). *)
LeftoverKeepsService ==
  phase \in {"interleave", "leftover"} =>
    \A r \in Scheduled : num_scheduled_tokens'[r] = num_scheduled_tokens[r]

(* The assertion of schedule(): what the first pass serves needs no more   *)
(* adapters than max_loras.                                                *)
AdaptersFit ==
  phase = "loras" => Cardinality(AdaptersOf(scheduled_running)) <= MaxLoras
===============================================================================
