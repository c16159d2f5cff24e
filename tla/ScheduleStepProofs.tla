------------------------- MODULE ScheduleStepProofs -------------------------
(***************************************************************************)
(* What schedule() keeps for any requests, budgets, policy and controls:   *)
(* the types of its state, who may be scheduled beside whom, what is left  *)
(* of the three budgets, and that a step without work asked everyone.      *)
(***************************************************************************)
EXTENDS ScheduleStep, InductionProofs

-----------------------------------------------------------------------------
(* The invariant *)

StepTypes == [cap : {0, TokenCap, InputCap}, turn : {"none", "decode", "prefill"},
              legacy : BOOLEAN, interleave : BOOLEAN, reserve : BOOLEAN,
              paused : {"no", "new", "all"}, eligible : SUBSET Req, at_start : SUBSET Req]

RequestsTyped ==
  /\ running \in Seq(Req) /\ waiting \subseteq Req
  /\ left \in [Req -> 0 .. MaxPrompt] /\ drafts \in [Req -> 0 .. MaxDrafts]
  /\ prefill \in [Req -> BOOLEAN]

ControlsTyped ==
  /\ phase \in RunningPasses \cup {"idle", "loras", "waiting", "done"}
  /\ step \in StepTypes
  /\ defer_prefills \in BOOLEAN /\ out_of_blocks \in BOOLEAN
  /\ skipped \subseteq Req /\ visited \subseteq Req /\ considered \subseteq Req
  /\ scheduled_loras \subseteq AdaptersOf(Req)

SharesTyped ==
  /\ req_index \in 1 .. Len(running) + 1
  /\ num_new_tokens \in 0 .. InputCap
  /\ num_scheduled_tokens \in [Req -> 0 .. InputCap]
  /\ token_budget \in Int /\ input_budget \in Int /\ draft_input_budget \in Int

(* Who is scheduled runs, who is preempted waits, and nobody does both. *)
Listed ==
  /\ IsInjective(running) /\ Range(running) \cap waiting = {}
  /\ Scheduled \subseteq Range(running)
  /\ new \subseteq Scheduled
  /\ preempted \subseteq waiting
  /\ boundary \subseteq Scheduled

(* What each part of schedule() finds.  A pass that may evict starts with  *)
(* nothing scheduled, so the requests behind its cursor hold no tokens:    *)
(* the last of running, the victim under FCFS, is one of them.             *)
PassFits ==
  /\ phase \notin RunningPasses => req_index = 1 /\ num_new_tokens = 0
  /\ num_new_tokens > 0 => req_index <= Len(running) /\ running[req_index] \notin Scheduled
  /\ phase \in {"idle", "initial", "loras", "reserve", "fallback"} => new = {}
  /\ phase \in {"initial", "reserve", "fallback"} =>
       \A i \in DOMAIN running : running[i] \in Scheduled => i < req_index
  /\ phase = "idle" => Scheduled = {} /\ preempted = {}
  /\ phase = "waiting" => preempted = {}
  /\ boundary # {} => phase \in {"waiting", "done"} /\ token_budget = 0 /\ Scheduled = boundary

(* The passes move the cursor over everyone. *)
Passed == \A i \in DOMAIN running : i < req_index => running[i] \in visited

(* Nobody left is less important than a victim. *)
Ranked == ByPriority => \A v \in preempted : \A r \in Range(running) : Rank[r] < Rank[v]

StepInv ==
  /\ RequestsTyped /\ ControlsTyped /\ SharesTyped
  /\ Listed /\ PassFits /\ Passed /\ Ranked

-----------------------------------------------------------------------------
(* Budgets *)

Budget == IF step.paused = "all" THEN 0 ELSE step.cap

Balanced ==
  /\ phase # "idle" =>
       /\ token_budget >= 0 /\ input_budget >= 0 /\ draft_input_budget >= 0
       /\ input_budget = InputCap - TokensOf(Req) - DraftSlots * Cardinality(Scheduled)
       /\ draft_input_budget = InputCap - DraftInput * Cardinality(Scheduled)
       /\ boundary = {} => token_budget = Budget - TokensOf(Req)
       /\ step.cap \in {TokenCap, InputCap}
       /\ step.paused = "all" => token_budget = 0 /\ num_new_tokens = 0
  /\ num_new_tokens > 0 =>
       /\ num_new_tokens <= token_budget /\ num_new_tokens + DraftSlots <= input_budget
       /\ DraftInput <= draft_input_budget

-----------------------------------------------------------------------------
(* A step without work *)

(* Nothing has been scheduled or refused for lack of blocks. *)
Quiet ==
  /\ phase # "idle" /\ Scheduled = {} /\ num_new_tokens = 0
  /\ ~out_of_blocks /\ ~step.legacy /\ step.paused # "all"

ClassOf(r) == IF prefill[r] THEN "prefill" ELSE "decode"

(* The first running pass asks the class whose turn it is, or all of them. *)
FirstAsked == \A r \in step.at_start : step.turn \in {"none", ClassOf(r)} => r \in considered

(* What the pass under way says of the step. *)
Directed ==
  /\ phase = "idle" => scheduled_loras = {} /\ visited = {}
  /\ phase = "initial" => ~step.reserve
  /\ phase = "reserve" => step.reserve
  /\ phase = "fallback" => step.turn = "decode" /\ ~defer_prefills
  /\ phase = "leftover" => step.turn = "prefill"
  /\ phase # "idle" /\ ~step.legacy /\ step.turn # "decode" => ~defer_prefills

(* Whom the passes so far have asked. *)
Heard ==
  /\ step.at_start \subseteq Range(running) /\ scheduled_loras = {}
  /\ phase \in {"loras", "waiting"} => step.reserve \/ FirstAsked
  /\ phase \in {"interleave", "fallback", "leftover", "done"} => FirstAsked
  /\ phase \in RunningPasses =>
       \A r \in visited \cap step.at_start :
         r \in considered \/ service_class \notin {"any", ClassOf(r)} \/ Deferred(r)
  /\ phase = "done" => step.at_start \subseteq considered

Asked == Directed /\ (Quiet => Heard)

-----------------------------------------------------------------------------
(* The way from pass to pass *)

(* The passes by their places.                                             *)
LEMMA FourPasses ==
  /\ DOMAIN LaterPasses = 1 .. 4
  /\ LaterPasses[1] = "reserve" /\ LaterPasses[2] = "interleave"
  /\ LaterPasses[3] = "fallback" /\ LaterPasses[4] = "leftover"
  /\ Range(LaterPasses) = {"reserve", "interleave", "fallback", "leftover"}
  /\ RunningPasses = {"initial", "reserve", "interleave", "fallback", "leftover"}
<1>1. /\ DOMAIN LaterPasses = 1 .. 4
      /\ LaterPasses[1] = "reserve" /\ LaterPasses[2] = "interleave"
      /\ LaterPasses[3] = "fallback" /\ LaterPasses[4] = "leftover"
  BY DEF LaterPasses
<1>2. \A i \in 1 .. 4 : i = 1 \/ i = 2 \/ i = 3 \/ i = 4
  OBVIOUS
<1>3. 1 \in 1 .. 4 /\ 2 \in 1 .. 4 /\ 3 \in 1 .. 4 /\ 4 \in 1 .. 4
  OBVIOUS
<1>. HIDE DEF LaterPasses
<1>4. \A x : (x \in Range(LaterPasses)) <=> (x \in {"reserve", "interleave", "fallback", "leftover"})
  BY <1>1, <1>2, <1>3 DEF Range
<1>5. Range(LaterPasses) = {"reserve", "interleave", "fallback", "leftover"}
  BY <1>4
<1>6. QED
  BY <1>1, <1>5 DEF RunningPasses

(* A set of places among four has a least one. *)
LEMMA LeastPlace ==
  ASSUME NEW S \in SUBSET (1 .. 4), S # {}
  PROVE  Least(S) \in S /\ \A y \in S : Least(S) <= y
<1>0. \A y \in S : y = 1 \/ y = 2 \/ y = 3 \/ y = 4
  OBVIOUS
<1>1. \E x \in S : \A y \in S : x <= y
  <2>1. CASE 1 \in S
    <3>1. \A y \in S : 1 <= y
      BY <1>0
    <3>2. QED
      BY <2>1, <3>1
  <2>2. CASE 1 \notin S /\ 2 \in S
    <3>1. \A y \in S : 2 <= y
      BY <1>0, <2>2
    <3>2. QED
      BY <2>2, <3>1
  <2>3. CASE 1 \notin S /\ 2 \notin S /\ 3 \in S
    <3>1. \A y \in S : 3 <= y
      BY <1>0, <2>3
    <3>2. QED
      BY <2>3, <3>1
  <2>4. CASE 1 \notin S /\ 2 \notin S /\ 3 \notin S
    <3>1. \A y \in S : y = 4
      BY <1>0, <2>4
    <3>2. \A y \in S : 4 <= y
      BY <3>1
    <3>3. \E y : y \in S
      OBVIOUS
    <3>4. 4 \in S
      BY <3>1, <3>3
    <3>5. QED
      BY <3>2, <3>4
  <2>5. QED
    BY <2>1, <2>2, <2>3, <2>4
<1>2. QED
  BY <1>1 DEF Least

(* The first pass that is wanted, of those that follow the one under way. *)
LEMMA PassThatFollows ==
  ASSUME NEW deferring, NEW to, to = FollowingPass(deferring),
         phase \in {"initial", "loras", "waiting", "reserve", "interleave", "fallback", "leftover"}
  PROVE  LET later(pass) ==
               Wanted(pass, deferring) /\
               CASE phase = "reserve"    -> pass # "reserve"
                 [] phase = "interleave" -> pass \in {"fallback", "leftover"}
                 [] phase = "fallback"   -> pass = "leftover"
                 [] phase = "leftover"   -> FALSE
                 [] OTHER                -> TRUE
         IN  \/ to = "reserve" /\ later("reserve")
             \/ to = "interleave" /\ later("interleave") /\ ~later("reserve")
             \/ to = "fallback" /\ later("fallback") /\ ~later("reserve") /\ ~later("interleave")
             \/ /\ to = "leftover" /\ later("leftover")
                /\ ~later("reserve") /\ ~later("interleave") /\ ~later("fallback")
             \/ /\ to = "done"
                /\ ~later("reserve") /\ ~later("interleave") /\ ~later("fallback") /\ ~later("leftover")
<1>. DEFINE after(i) == phase \in Range(LaterPasses) => \E k \in 1 .. i - 1 : LaterPasses[k] = phase
            wanted == {i \in DOMAIN LaterPasses : after(i) /\ Wanted(LaterPasses[i], deferring)}
            allowed(pass) == CASE phase = "reserve"    -> pass # "reserve"
                               [] phase = "interleave" -> pass \in {"fallback", "leftover"}
                               [] phase = "fallback"   -> pass = "leftover"
                               [] phase = "leftover"   -> FALSE
                               [] OTHER                -> TRUE
            later(pass) == Wanted(pass, deferring) /\ allowed(pass)
<1>0. 1 .. 0 = {} /\ 1 .. 1 = {1} /\ 1 .. 2 = {1, 2} /\ 1 .. 3 = {1, 2, 3}
      /\ 1 - 1 = 0 /\ 2 - 1 = 1 /\ 3 - 1 = 2 /\ 4 - 1 = 3
  OBVIOUS
<1>1. /\ after(1) <=> allowed("reserve")
      /\ after(2) <=> allowed("interleave")
      /\ after(3) <=> allowed("fallback")
      /\ after(4) <=> allowed("leftover")
  BY <1>0, FourPasses
<1>. HIDE DEF after, allowed
<1>2. /\ (1 \in wanted) <=> later("reserve")
      /\ (2 \in wanted) <=> later("interleave")
      /\ (3 \in wanted) <=> later("fallback")
      /\ (4 \in wanted) <=> later("leftover")
  BY <1>1, FourPasses
<1>3. to = IF wanted = {} THEN "done" ELSE LaterPasses[Least(wanted)]
  BY DEF FollowingPass, after
<1>4. wanted \in SUBSET (1 .. 4)
  BY FourPasses
<1>. HIDE DEF wanted, later
<1>5. \/ to = "reserve" /\ later("reserve")
      \/ to = "interleave" /\ later("interleave") /\ ~later("reserve")
      \/ to = "fallback" /\ later("fallback") /\ ~later("reserve") /\ ~later("interleave")
      \/ /\ to = "leftover" /\ later("leftover")
         /\ ~later("reserve") /\ ~later("interleave") /\ ~later("fallback")
      \/ /\ to = "done"
         /\ ~later("reserve") /\ ~later("interleave") /\ ~later("fallback") /\ ~later("leftover")
  <2>1. CASE wanted = {}
    BY <1>2, <1>3, <2>1
  <2>2. CASE wanted # {}
    <3>1. PICK k : k = Least(wanted)
      OBVIOUS
    <3>2. k \in wanted /\ \A y \in wanted : k <= y
      BY <1>4, <2>2, <3>1, LeastPlace
    <3>3. k \in 1 .. 4 /\ to = LaterPasses[k]
      BY <1>3, <1>4, <2>2, <3>1, <3>2
    <3>4. k = 1 \/ k = 2 \/ k = 3 \/ k = 4
      BY <3>3
    <3>5. CASE k = 1
      BY <1>2, <3>2, <3>3, <3>5, FourPasses
    <3>6. CASE k = 2
      <4>1. 1 \notin wanted
        BY <3>2, <3>6
      <4>2. QED
        BY <1>2, <3>2, <3>3, <3>6, <4>1, FourPasses
    <3>7. CASE k = 3
      <4>1. 1 \notin wanted /\ 2 \notin wanted
        BY <3>2, <3>7
      <4>2. QED
        BY <1>2, <3>2, <3>3, <3>7, <4>1, FourPasses
    <3>8. CASE k = 4
      <4>1. 1 \notin wanted /\ 2 \notin wanted /\ 3 \notin wanted
        BY <3>2, <3>8
      <4>2. QED
        BY <1>2, <3>2, <3>3, <3>8, <4>1, FourPasses
    <3>9. QED
      BY <3>4, <3>5, <3>6, <3>7, <3>8
  <2>3. QED
    BY <2>1, <2>2
<1>6. QED
  BY <1>5 DEF later, allowed

-----------------------------------------------------------------------------
(* The actions, group by group *)

(* The invariant holds before the first call.                              *)
LEMMA StepInvInit == StepAssumption /\ Init => StepInv
<1>. SUFFICES ASSUME StepAssumption, Init PROVE StepInv
  OBVIOUS
<1>1. /\ running = <<>> /\ waiting = {} /\ phase = "idle" /\ req_index = 1 /\ num_new_tokens = 0
      /\ new = {} /\ preempted = {} /\ boundary = {} /\ skipped = {} /\ visited = {} /\ considered = {}
      /\ scheduled_loras = {} /\ out_of_blocks = FALSE /\ defer_prefills = FALSE /\ step = NoStep
      /\ token_budget = 0 /\ input_budget = 0 /\ draft_input_budget = 0
      /\ num_scheduled_tokens = [r \in Req |-> 0] /\ left = [r \in Req |-> 0]
      /\ drafts = [r \in Req |-> 0] /\ prefill = [r \in Req |-> FALSE]
  BY DEF Init
<1>2. /\ InputCap \in Nat /\ MaxPrompt \in Nat /\ MaxDrafts \in Nat
  BY DEF StepAssumption
<1>3. Scheduled = {}
  BY <1>1 DEF Scheduled
<1>4. DOMAIN running = {}
  BY <1>1
<1>5. Range(running) = {} /\ IsInjective(running)
  BY <1>4 DEF Range, IsInjective
<1>6. RequestsTyped
  BY <1>1, <1>2 DEF RequestsTyped
<1>7. ControlsTyped
  BY <1>1 DEF ControlsTyped, NoStep, StepTypes
<1>8. SharesTyped
  <2>1. Len(running) = 0 /\ 1 \in 1 .. 0 + 1
    BY <1>1
  <2>2. num_scheduled_tokens \in [Req -> 0 .. InputCap]
    BY <1>1, <1>2
  <2>3. QED
    BY <1>1, <1>2, <2>1, <2>2 DEF SharesTyped
<1>9. PassFits
  BY <1>1, <1>3, FourPasses DEF PassFits
<1>10. QED
  BY <1>1, <1>3, <1>4, <1>5, <1>6, <1>7, <1>8, <1>9 DEF StepInv, Listed, Passed, Ranked

(* A pass ends: the cursor goes back to the beginning. *)
LEMMA StepInvGoOn ==
  ASSUME StepInv, phase # "idle", NEW to, NEW deferring \in BOOLEAN, GoOn(to, deferring),
         to \in {"loras", "waiting", "reserve", "interleave", "fallback", "leftover", "done"},
         to = "loras" => phase = "initial",
         to = "waiting" => phase = "loras" /\ preempted = {},
         to \in {"reserve", "fallback"} => Scheduled = {},
         boundary # {} => to = "done",
         UNCHANGED <<reqVars, budgetVars, step, num_scheduled_tokens, new, boundary, preempted>>,
         scheduled_loras' \subseteq AdaptersOf(Req), out_of_blocks' \in BOOLEAN,
         skipped' \subseteq Req, considered' = considered
  PROVE  StepInv'
<1>1. /\ phase' = to /\ defer_prefills' \in BOOLEAN
      /\ req_index' = 1 /\ num_new_tokens' = 0 /\ visited' = {}
  BY DEF GoOn, DeferringIn
<1>2. /\ UNCHANGED <<running, waiting, left, drafts, prefill>>
      /\ UNCHANGED <<token_budget, input_budget, draft_input_budget>>
      /\ UNCHANGED <<step, num_scheduled_tokens, new, boundary, preempted, considered>>
  BY DEF reqVars, budgetVars
<1>3. Scheduled' = Scheduled
  BY <1>2 DEF Scheduled
<1>4. RequestsTyped' /\ Listed' /\ Ranked'
  BY <1>2, <1>3 DEF StepInv, RequestsTyped, Listed, Ranked
<1>5. ControlsTyped'
  BY <1>1, <1>2, FourPasses DEF StepInv, ControlsTyped
<1>6. SharesTyped'
  <2>1. Len(running) \in Nat /\ InputCap \in Nat
    BY StepAssumption DEF StepInv, RequestsTyped, StepAssumption
  <2>2. QED
    BY <1>1, <1>2, <2>1 DEF StepInv, SharesTyped
<1>7. PassFits'
  <2>1. to \in {"reserve", "fallback"} => Scheduled' = {} /\ new' = {}
    BY <1>2, <1>3 DEF StepInv, Listed
  <2>2. to = "loras" => new' = {}
    BY <1>2 DEF StepInv, PassFits
  <2>3. QED
    BY <1>1, <1>2, <1>3, <2>1, <2>2, FourPasses DEF StepInv, PassFits
<1>8. Passed'
  BY <1>1, <1>2 DEF Passed, StepInv, RequestsTyped
<1>9. QED
  BY <1>4, <1>5, <1>6, <1>7, <1>8 DEF StepInv

(* The constants, one by one.                                              *)
LEMMA Limited ==
  /\ InputCap \in Nat /\ InputCap > 0 /\ TokenCap \in Nat /\ TokenCap > 0 /\ TokenCap <= InputCap
  /\ DraftSlots \in Nat /\ DraftInput \in Nat /\ MaxDrafts \in Nat
  /\ DraftSlots < InputCap /\ DraftInput <= InputCap
  /\ MaxPrompt \in Nat /\ MaxPrompt > 0 /\ IsFiniteSet(Req)
<1>1. {MaxRunning, TokenCap, InputCap, MaxPrompt, MaxLoras} \subseteq Nat \ {0}
  BY StepAssumption DEF StepAssumption
<1>2. {DraftSlots, DraftInput, MaxDrafts} \subseteq Nat
  BY StepAssumption DEF StepAssumption
<1>3. QED
  BY <1>1, <1>2, StepAssumption DEF StepAssumption

(* The places of running, and where the cursor may stand.                  *)
LEMMA RunningPlaces ==
  ASSUME StepInv
  PROVE  /\ running \in Seq(Req) /\ DOMAIN running = 1 .. Len(running) /\ Len(running) \in Nat
         /\ req_index \in Nat \ {0} /\ req_index <= Len(running) + 1
         /\ \A i \in DOMAIN running : running[i] \in Req /\ running[i] \in Range(running)
         /\ \A i, j \in DOMAIN running : running[i] = running[j] => i = j
<1>1. running \in Seq(Req) /\ req_index \in 1 .. Len(running) + 1 /\ IsInjective(running)
  BY DEF StepInv, RequestsTyped, SharesTyped, Listed
<1>2. DOMAIN running = 1 .. Len(running) /\ Len(running) \in Nat
  BY <1>1
<1>3. \A i \in DOMAIN running : running[i] \in Req
  BY <1>1
<1>4. QED
  BY <1>1, <1>2, <1>3 DEF Range, IsInjective

(* A pass under way has the boundary checkpoints still before it. *)
LEMMA InPass ==
  ASSUME StepInv, phase \in RunningPasses
  PROVE  boundary = {}
BY FourPasses DEF StepInv, PassFits

(* The cursor goes past a request. *)
LEMMA StepInvAdvance ==
  ASSUME StepInv, phase \in RunningPasses, req_index <= Len(running), Advance,
         UNCHANGED <<phase, reqVars, budgetVars, step, defer_prefills, num_scheduled_tokens, new,
                     boundary, preempted, skipped, scheduled_loras, out_of_blocks>>,
         considered' \subseteq Req
  PROVE  StepInv'
<1>1. /\ req_index' = req_index + 1 /\ num_new_tokens' = 0
      /\ visited' = visited \cup {running[req_index]}
  BY DEF Advance
<1>2. /\ UNCHANGED <<running, waiting, left, drafts, prefill>>
      /\ UNCHANGED <<token_budget, input_budget, draft_input_budget>>
      /\ UNCHANGED <<phase, step, defer_prefills, num_scheduled_tokens, new, boundary, preempted,
                     skipped, scheduled_loras, out_of_blocks>>
  BY DEF reqVars, budgetVars
<1>3. Scheduled' = Scheduled
  BY <1>2 DEF Scheduled
<1>4. req_index \in DOMAIN running
  BY RunningPlaces
<1>5. RequestsTyped' /\ Listed' /\ Ranked'
  BY <1>2, <1>3 DEF StepInv, RequestsTyped, Listed, Ranked
<1>6. ControlsTyped'
  BY <1>1, <1>2, <1>4, RunningPlaces DEF StepInv, ControlsTyped
<1>7. SharesTyped'
  <2>1. req_index + 1 \in 1 .. Len(running) + 1
    BY RunningPlaces
  <2>2. 0 \in 0 .. InputCap
    BY StepAssumption DEF StepAssumption
  <2>3. QED
    BY <1>1, <1>2, <2>1, <2>2 DEF StepInv, SharesTyped
<1>8. PassFits'
  <2>1. boundary = {}
    BY InPass
  <2>2. \A i \in DOMAIN running : i < req_index => i < req_index + 1
    BY RunningPlaces
  <2>3. QED
    BY <1>1, <1>2, <1>3, <2>1, <2>2 DEF StepInv, PassFits
<1>9. Passed'
  <2>1. \A i \in DOMAIN running : i < req_index + 1 => i < req_index \/ i = req_index
    BY RunningPlaces
  <2>2. QED
    BY <1>1, <1>2, <2>1 DEF StepInv, Passed
<1>10. QED
  BY <1>5, <1>6, <1>7, <1>8, <1>9 DEF StepInv

LEMMA StepInvGoOver ==
  ASSUME StepInv, NEW r \in Req, GoOver(r)
  PROVE  StepInv'
<1>1. considered \subseteq Req
  BY DEF StepInv, ControlsTyped
<1>2. QED
  BY <1>1, StepInvAdvance DEF GoOver, At, stepVars

LEMMA StepInvRefuse ==
  ASSUME StepInv, NEW r \in Req, Refuse(r)
  PROVE  StepInv'
<1>1. considered' \subseteq Req
  BY DEF StepInv, ControlsTyped, Refuse
<1>2. QED
  BY <1>1, StepInvAdvance DEF Refuse, At

LEMMA StepInvConsider ==
  ASSUME StepInv, NEW r \in Req, NEW n \in 1 .. InputCap, Consider(r, n)
  PROVE  StepInv'
<1>1. /\ phase \in RunningPasses /\ req_index <= Len(running) /\ running[req_index] = r
      /\ r \notin Scheduled
      /\ num_new_tokens' = n /\ considered' = considered \cup {r}
      /\ UNCHANGED <<phase, req_index, visited, step, defer_prefills, num_scheduled_tokens, new,
                     boundary, preempted, skipped, scheduled_loras, out_of_blocks>>
  BY DEF Consider, At, NotInPass
<1>2. /\ UNCHANGED <<running, waiting, left, drafts, prefill>>
      /\ UNCHANGED <<token_budget, input_budget, draft_input_budget>>
  BY DEF Consider, reqVars, budgetVars
<1>3. Scheduled' = Scheduled
  BY <1>1 DEF Scheduled
<1>4. RequestsTyped' /\ Listed' /\ Ranked' /\ Passed'
  BY <1>1, <1>2, <1>3 DEF StepInv, RequestsTyped, Listed, Ranked, Passed
<1>5. ControlsTyped'
  BY <1>1, <1>2 DEF StepInv, ControlsTyped
<1>6. SharesTyped'
  <2>1. n \in 0 .. InputCap
    OBVIOUS
  <2>2. QED
    BY <1>1, <1>2, <2>1 DEF StepInv, SharesTyped
<1>7. PassFits'
  BY <1>1, <1>2, <1>3 DEF StepInv, PassFits
<1>8. QED
  BY <1>4, <1>5, <1>6, <1>7 DEF StepInv

(* The request under consideration, where the pass stands. *)
LEMMA AtCursor ==
  ASSUME StepInv, num_new_tokens > 0
  PROVE  /\ phase \in RunningPasses /\ boundary = {}
         /\ req_index \in DOMAIN running /\ running[req_index] \in Req
         /\ running[req_index] \in Range(running) /\ running[req_index] \notin Scheduled
         /\ num_new_tokens \in 1 .. InputCap
<1>1. num_new_tokens # 0 /\ num_new_tokens \in 1 .. InputCap
  BY StepAssumption DEF StepInv, SharesTyped, StepAssumption
<1>2. phase \in RunningPasses
  BY <1>1 DEF StepInv, PassFits
<1>3. req_index <= Len(running) /\ running[req_index] \notin Scheduled
  BY DEF StepInv, PassFits
<1>4. req_index \in DOMAIN running
  BY <1>3, RunningPlaces
<1>5. QED
  BY <1>1, <1>2, <1>3, <1>4, InPass, RunningPlaces

LEMMA AdapterKnown ==
  ASSUME NEW r \in Req
  PROVE  AdaptersOf({r}) \subseteq AdaptersOf(Req)
BY DEF AdaptersOf

(* Each action keeps the invariant; serving and evicting are the hard ones. *)
LEMMA StepInvServe ==
  ASSUME StepInv, Serve
  PROVE  StepInv'
<1>1. num_new_tokens > 0 /\ Advance
  BY DEF Serve
<1>2. PICK r \in Req : r = running[req_index]
  BY <1>1, AtCursor
<1>3. /\ num_scheduled_tokens' = [num_scheduled_tokens EXCEPT ![r] = num_new_tokens]
      /\ Spend(num_new_tokens)
      /\ scheduled_loras' = (IF enforce_lora_limit THEN scheduled_loras \cup AdaptersOf({r})
                             ELSE scheduled_loras)
      /\ drafts' = [drafts EXCEPT ![r] = 0]
      /\ UNCHANGED <<phase, running, waiting, left, prefill, step, defer_prefills, new,
                     boundary, preempted, skipped, considered, out_of_blocks>>
  BY <1>2 DEF Serve
<1>4. /\ req_index' = req_index + 1 /\ num_new_tokens' = 0 /\ visited' = visited \cup {r}
  BY <1>1, <1>2 DEF Advance
<1>5. /\ phase \in RunningPasses /\ boundary = {} /\ r \notin Scheduled /\ r \in Range(running)
      /\ req_index \in DOMAIN running /\ num_new_tokens \in 1 .. InputCap
  BY <1>1, <1>2, AtCursor
<1>6. num_scheduled_tokens \in [Req -> 0 .. InputCap]
  BY DEF StepInv, SharesTyped
<1>7. Scheduled' = Scheduled \cup {r}
  BY <1>3, <1>5, <1>6 DEF Scheduled
<1>8. RequestsTyped'
  <2>1. 0 \in 0 .. MaxDrafts
    BY StepAssumption DEF StepAssumption
  <2>2. QED
    BY <1>3, <2>1 DEF StepInv, RequestsTyped
<1>9. ControlsTyped'
  <2>1. scheduled_loras' \subseteq AdaptersOf(Req)
    BY <1>3, AdapterKnown DEF StepInv, ControlsTyped
  <2>2. QED
    BY <1>3, <1>4, <2>1 DEF StepInv, ControlsTyped
<1>10. SharesTyped'
  <2>1. req_index + 1 \in 1 .. Len(running) + 1
    BY <1>5, RunningPlaces
  <2>2. /\ token_budget - num_new_tokens \in Int
        /\ input_budget - (num_new_tokens + DraftSlots) \in Int
        /\ draft_input_budget - DraftInput \in Int
        /\ 0 \in 0 .. InputCap
    <3>1. token_budget \in Int /\ input_budget \in Int /\ draft_input_budget \in Int
      BY DEF StepInv, SharesTyped
    <3>2. num_new_tokens \in Int
      BY <1>5
    <3>3. QED
      BY <3>1, <3>2, Limited
  <2>3. num_scheduled_tokens' \in [Req -> 0 .. InputCap]
    BY <1>3, <1>5, <1>6
  <2>4. QED
    BY <1>3, <1>4, <2>1, <2>2, <2>3 DEF SharesTyped, Spend
<1>11. Listed'
  <2>1. preempted \cap {r} = {} /\ UNCHANGED <<running, waiting, new, preempted, boundary>>
    BY <1>3, <1>5 DEF StepInv, Listed
  <2>2. QED
    BY <1>5, <1>7, <2>1 DEF StepInv, Listed
<1>12. PassFits'
  <2>1. \A i \in DOMAIN running : i < req_index => i < req_index + 1
    BY RunningPlaces
  <2>2. \A i \in DOMAIN running : running[i] = r => i < req_index + 1
    BY <1>2, <1>5, RunningPlaces
  <2>3. phase \notin {"idle", "waiting"}
    BY <1>5, FourPasses
  <2>4. \A i \in DOMAIN running : running[i] \in Scheduled' => running[i] \in Scheduled \/ running[i] = r
    BY <1>7
  <2>5. QED
    BY <1>3, <1>4, <1>5, <2>1, <2>2, <2>3, <2>4 DEF StepInv, PassFits
<1>13. Passed'
  <2>1. \A i \in DOMAIN running : i < req_index + 1 => i < req_index \/ i = req_index
    BY <1>5, RunningPlaces
  <2>2. QED
    BY <1>2, <1>3, <1>4, <2>1 DEF StepInv, Passed
<1>14. Ranked'
  BY <1>3 DEF StepInv, Ranked
<1>15. QED
  BY <1>8, <1>9, <1>10, <1>11, <1>12, <1>13, <1>14 DEF StepInv

-----------------------------------------------------------------------------
(* Eviction *)

(* Of the first n requests one is the least important. *)
LEMMA LeastImportant ==
  ASSUME NEW q \in Seq(Req), q # <<>>
  PROVE  \E i \in DOMAIN q : \A k \in DOMAIN q : Rank[q[k]] <= Rank[q[i]]
<1>. DEFINE Best(m, i) == i \in 1 .. m /\ \A k \in 1 .. m : Rank[q[k]] <= Rank[q[i]]
            T == {n \in Nat : n + 1 <= Len(q) => \E i : Best(n + 1, i)}
<1>0. /\ Len(q) \in Nat /\ Len(q) > 0 /\ DOMAIN q = 1 .. Len(q)
      /\ \A i \in 1 .. Len(q) : Rank[q[i]] \in Nat
  <2>1. Rank \in [Req -> Nat]
    BY StepAssumption DEF StepAssumption
  <2>2. Len(q) \in Nat /\ Len(q) > 0 /\ DOMAIN q = 1 .. Len(q)
    OBVIOUS
  <2>3. \A i \in 1 .. Len(q) : q[i] \in Req
    BY <2>2
  <2>4. QED
    BY <2>1, <2>2, <2>3
<1>1. 0 \in T
  <2>1. 1 .. 0 + 1 = {1}
    OBVIOUS
  <2>2. 0 + 1 <= Len(q) => Rank[q[1]] <= Rank[q[1]]
    BY <1>0
  <2>3. 0 + 1 <= Len(q) => Best(0 + 1, 1)
    BY <2>1, <2>2
  <2>. HIDE DEF Best
  <2>4. QED
    BY <2>3
<1>2. ASSUME NEW n \in Nat, n \in T PROVE n + 1 \in T
  <2>1. SUFFICES ASSUME (n + 1) + 1 <= Len(q) PROVE \E i : Best((n + 1) + 1, i)
    OBVIOUS
  <2>2. PICK m \in Nat : m = n + 1
    OBVIOUS
  <2>3. m + 1 <= Len(q) /\ m <= Len(q)
    BY <1>0, <2>1, <2>2
  <2>4. PICK i : Best(m, i)
    <3>. HIDE DEF Best
    <3>1. QED
      BY <1>2, <2>2, <2>3
  <2>5. /\ \A k \in 1 .. m + 1 : Rank[q[k]] \in Nat /\ (k \in 1 .. m \/ k = m + 1)
        /\ i \in 1 .. m /\ i \in 1 .. m + 1 /\ m + 1 \in 1 .. m + 1
    BY <1>0, <2>3, <2>4
  <2>6. CASE Rank[q[m + 1]] <= Rank[q[i]]
    <3>1. Best(m + 1, i)
      BY <2>4, <2>5, <2>6
    <3>. HIDE DEF Best
    <3>2. QED
      BY <2>2, <3>1
  <2>7. CASE ~(Rank[q[m + 1]] <= Rank[q[i]])
    <3>1. Rank[q[i]] \in Nat /\ Rank[q[m + 1]] \in Nat
      BY <2>5
    <3>2. ASSUME NEW k \in 1 .. m PROVE Rank[q[k]] <= Rank[q[m + 1]]
      <4>1. Rank[q[k]] <= Rank[q[i]] /\ Rank[q[k]] \in Nat
        BY <2>4, <2>5
      <4>2. QED
        BY <2>7, <3>1, <4>1
    <3>3. Best(m + 1, m + 1)
      BY <2>5, <3>1, <3>2
    <3>. HIDE DEF Best
    <3>4. QED
      BY <2>2, <3>3
  <2>8. QED
    BY <2>6, <2>7
<1>3. Nat \subseteq T
  <2>. HIDE DEF T
  <2>1. QED
    BY <1>1, <1>2, InductiveSet
<1>4. PICK n \in Nat : n + 1 = Len(q)
  <2>1. Len(q) - 1 \in Nat /\ (Len(q) - 1) + 1 = Len(q)
    BY <1>0
  <2>2. QED
    BY <2>1
<1>5. PICK i : Best(Len(q), i)
  <2>. HIDE DEF Best
  <2>1. QED
    BY <1>0, <1>3, <1>4
<1>6. QED
  BY <1>0, <1>5

(* Under PRIORITY the victim is the least important of the running ones;   *)
(* under FCFS it is the last, which a pass that may evict has not reached. *)
LEMMA VictimIs ==
  ASSUME StepInv, num_new_tokens > 0, allow_preemption
  PROVE  /\ Victim \in DOMAIN running
         /\ phase \in {"initial", "reserve", "fallback"} /\ new = {}
         /\ ByPriority => \A k \in DOMAIN running : Rank[running[k]] <= Rank[running[Victim]]
         /\ ~ByPriority => running[Victim] \notin Scheduled
<1>1. /\ phase \in RunningPasses /\ req_index \in DOMAIN running
      /\ running[req_index] \notin Scheduled
  BY AtCursor
<1>2. phase \in {"initial", "reserve", "fallback"}
  BY <1>1, FourPasses DEF allow_preemption
<1>3. new = {} /\ \A i \in DOMAIN running : running[i] \in Scheduled => i < req_index
  BY <1>2 DEF StepInv, PassFits
<1>4. running \in Seq(Req) /\ DOMAIN running = 1 .. Len(running) /\ Len(running) \in Nat
  BY RunningPlaces
<1>5. CASE ByPriority
  <2>1. running # <<>>
    BY <1>1, <1>4
  <2>2. \E i \in DOMAIN running : \A k \in DOMAIN running : Rank[running[k]] <= Rank[running[i]]
    BY <1>4, <2>1, LeastImportant
  <2>3. Victim \in DOMAIN running /\ \A k \in DOMAIN running : Rank[running[k]] <= Rank[running[Victim]]
    BY <1>5, <2>2, Zenon DEF Victim
  <2>4. QED
    BY <1>2, <1>3, <1>5, <2>3
<1>6. CASE ~ByPriority
  <2>1. Victim = Len(running)
    BY <1>6 DEF Victim, LastRunning
  <2>2. Len(running) \in DOMAIN running
    BY <1>1, <1>4
  <2>3. ~(Len(running) < req_index)
    BY <1>1, <1>4
  <2>4. QED
    BY <1>2, <1>3, <1>6, <2>1, <2>2, <2>3
<1>7. QED
  BY <1>5, <1>6

(* The cursor k stands at the same request when place i is taken out.      *)
LEMMA CursorFollows ==
  ASSUME NEW n \in Nat, NEW i \in 1 .. n, NEW k \in 1 .. n, i # k,
         NEW j, j = (IF i < k THEN k - 1 ELSE k)
  PROVE  /\ j \in 1 .. n - 1 /\ j \in 1 .. (n - 1) + 1
         /\ k = (IF j < i THEN j ELSE j + 1)
         /\ \A x \in 1 .. n - 1 : x < j => (IF x < i THEN x ELSE x + 1) < k
         /\ \A x \in 1 .. n - 1 : (IF x < i THEN x ELSE x + 1) < k => x < j
OBVIOUS

(* What is left of running keeps its order. *)
LEMMA LeftRunning ==
  ASSUME StepInv, NEW i \in DOMAIN running, running' = RemoveAt(running, i)
  PROVE  /\ running' \in Seq(Req) /\ Len(running') = Len(running) - 1
         /\ DOMAIN running' = 1 .. Len(running) - 1
         /\ \A x \in 1 .. Len(running) - 1 :
              running'[x] = (IF x < i THEN running[x] ELSE running[x + 1])
         /\ IsInjective(running') /\ Range(running') = Range(running) \ {running[i]}
<1>1. running \in Seq(Req) /\ IsInjective(running)
  BY DEF StepInv, RequestsTyped, Listed
<1>2. PICK q \in Seq(Req) : q = running
  BY <1>1
<1>3. i \in DOMAIN q /\ IsInjective(q) /\ running' = RemoveAt(q, i)
  BY <1>1, <1>2
<1>4. /\ RemoveAt(q, i) \in Seq(Req) /\ Len(RemoveAt(q, i)) = Len(q) - 1
      /\ \A x \in 1 .. Len(q) - 1 : RemoveAt(q, i)[x] = (IF x < i THEN q[x] ELSE q[x + 1])
      /\ IsInjective(RemoveAt(q, i)) /\ Range(RemoveAt(q, i)) = Range(q) \ {q[i]}
  BY <1>3, RemoveAtLists
<1>5. DOMAIN running' = 1 .. Len(running')
  BY <1>3, <1>4
<1>6. QED
  BY <1>2, <1>3, <1>4, <1>5

(* What an eviction changes, under either policy.                          *)
LEMMA EvictStandings ==
  ASSUME StepInv, Evict
  PROVE  \E v \in Req :
           /\ v = running[Victim] /\ v \in Range(running)
           /\ Victim \in DOMAIN running
           /\ running' = RemoveAt(running, Victim)
           /\ waiting' = waiting \cup {v} /\ preempted' = preempted \cup {v}
           /\ left' = [left EXCEPT ![v] = 0] /\ drafts' = [drafts EXCEPT ![v] = 0]
           /\ TakeBack(v)
           /\ new = {} /\ phase \in {"initial", "reserve", "fallback"}
           /\ num_scheduled_tokens' \in [Req -> 0 .. InputCap]
           /\ Scheduled' = Scheduled \ {v}
           /\ \A r \in Req \ {v} : num_scheduled_tokens'[r] = num_scheduled_tokens[r]
           /\ token_budget' \in Int /\ input_budget' \in Int /\ draft_input_budget' \in Int
<1>1. /\ num_new_tokens > 0 /\ allow_preemption
      /\ running' = RemoveAt(running, Victim)
      /\ waiting' = waiting \cup {running[Victim]} /\ preempted' = preempted \cup {running[Victim]}
      /\ left' = [left EXCEPT ![running[Victim]] = 0]
      /\ drafts' = [drafts EXCEPT ![running[Victim]] = 0]
      /\ TakeBack(running[Victim])
  BY DEF Evict
<1>2. /\ Victim \in DOMAIN running /\ phase \in {"initial", "reserve", "fallback"} /\ new = {}
      /\ ~ByPriority => running[Victim] \notin Scheduled
  BY <1>1, VictimIs
<1>3. PICK v \in Req : v = running[Victim] /\ v \in Range(running)
  BY <1>2, RunningPlaces
<1>4. num_scheduled_tokens \in [Req -> 0 .. InputCap]
  BY DEF StepInv, SharesTyped
<1>5. token_budget \in Int /\ input_budget \in Int /\ draft_input_budget \in Int
  BY DEF StepInv, SharesTyped
<1>6. TakeBack(v)
  BY <1>1, <1>3
<1>7. CASE ByPriority /\ v \in Scheduled
  <2>1. v \in scheduled_running
    BY <1>2, <1>7 DEF scheduled_running
  <2>2. /\ num_scheduled_tokens' = [num_scheduled_tokens EXCEPT ![v] = 0]
        /\ Refund(num_scheduled_tokens[v])
    BY <1>6, <1>7, <2>1 DEF TakeBack
  <2>3. num_scheduled_tokens' \in [Req -> 0 .. InputCap]
    BY <1>4, <2>2, Limited
  <2>4. Scheduled' = Scheduled \ {v}
    BY <1>4, <2>2, Limited DEF Scheduled
  <2>5. num_scheduled_tokens[v] \in Int
    BY <1>4
  <2>6. token_budget' \in Int /\ input_budget' \in Int /\ draft_input_budget' \in Int
    BY <1>5, <2>2, <2>5, Limited DEF Refund
  <2>7. \A r \in Req \ {v} : num_scheduled_tokens'[r] = num_scheduled_tokens[r]
    BY <1>4, <2>2
  <2>8. QED
    BY <1>1, <1>2, <1>3, <1>6, <2>3, <2>4, <2>6, <2>7
<1>8. CASE ~(ByPriority /\ v \in Scheduled)
  <2>1. v \notin Scheduled
    BY <1>2, <1>3, <1>8
  <2>2. UNCHANGED <<num_scheduled_tokens, budgetVars>>
    BY <1>6, <2>1 DEF TakeBack, scheduled_running
  <2>3. /\ num_scheduled_tokens' = num_scheduled_tokens
        /\ UNCHANGED <<token_budget, input_budget, draft_input_budget>>
    BY <2>2 DEF budgetVars
  <2>4. Scheduled' = Scheduled \ {v}
    BY <2>1, <2>3 DEF Scheduled
  <2>5. QED
    BY <1>1, <1>2, <1>3, <1>4, <1>5, <1>6, <2>3, <2>4
<1>9. QED
  BY <1>7, <1>8

(* Nothing was scheduled before a pass that is wanted for want of work. *)
LEMMA WhereNext ==
  ASSUME NEW deferring, NEW to, to = FollowingPass(deferring),
         phase \in {"initial", "loras", "waiting", "reserve", "interleave", "fallback", "leftover"}
  PROVE  /\ to \in {"reserve", "interleave", "fallback", "leftover", "done"}
         /\ to \in {"reserve", "fallback"} => Scheduled = {}
         /\ to \in {"interleave", "leftover"} => token_budget > 0
<1>1. /\ Wanted("reserve", deferring) => Scheduled = {}
      /\ Wanted("fallback", deferring) => Scheduled = {}
      /\ Wanted("interleave", deferring) => token_budget > 0
      /\ Wanted("leftover", deferring) => token_budget > 0
  BY DEF Wanted
<1>2. QED
  BY <1>1, PassThatFollows

(* The way on from a pass over running. *)
LEMMA AfterRunning ==
  ASSUME NEW to, to = (IF phase = "initial" THEN "loras" ELSE FollowingPass(defer_prefills)),
         phase \in RunningPasses
  PROVE  /\ to \in {"loras", "reserve", "interleave", "fallback", "leftover", "done"}
         /\ to = "loras" => phase = "initial"
         /\ to \in {"reserve", "fallback"} => Scheduled = {}
<1>1. phase \in {"initial", "reserve", "interleave", "fallback", "leftover"}
  BY FourPasses
<1>2. CASE phase = "initial"
  BY <1>2
<1>3. CASE phase # "initial"
  <2>1. to = FollowingPass(defer_prefills)
    BY <1>3
  <2>2. QED
    BY <1>1, <1>3, <2>1, WhereNext
<1>4. QED
  BY <1>2, <1>3

LEMMA StepInvEndRunning ==
  ASSUME StepInv, phase \in RunningPasses, EndRunning,
         UNCHANGED <<reqVars, budgetVars, step, num_scheduled_tokens, new, boundary, preempted,
                     skipped, scheduled_loras, considered>>,
         out_of_blocks' \in BOOLEAN
  PROVE  StepInv'
<1>1. PICK to : to = (IF phase = "initial" THEN "loras" ELSE FollowingPass(defer_prefills))
  OBVIOUS
<1>2. GoOn(to, defer_prefills)
  BY <1>1 DEF EndRunning
<1>3. /\ to \in {"loras", "reserve", "interleave", "fallback", "leftover", "done"}
      /\ to = "loras" => phase = "initial"
      /\ to \in {"reserve", "fallback"} => Scheduled = {}
  BY <1>1, AfterRunning
<1>4. boundary = {} /\ phase # "idle" /\ defer_prefills \in BOOLEAN
  BY InPass, FourPasses DEF StepInv, ControlsTyped
<1>5. /\ skipped' \subseteq Req /\ considered' = considered
      /\ scheduled_loras' \subseteq AdaptersOf(Req)
  BY DEF StepInv, ControlsTyped
<1>6. UNCHANGED <<reqVars, budgetVars, step, num_scheduled_tokens, new, boundary, preempted>>
  OBVIOUS
<1>7. QED
  BY <1>2, <1>3, <1>4, <1>5, <1>6, StepInvGoOn

LEMMA StepInvEndPass ==
  ASSUME StepInv, EndPass
  PROVE  StepInv'
<1>1. out_of_blocks' \in BOOLEAN
  BY DEF EndPass, StepInv, ControlsTyped
<1>2. QED
  BY <1>1, StepInvEndRunning DEF EndPass

LEMMA StepInvGiveUp ==
  ASSUME StepInv, GiveUp
  PROVE  StepInv'
<1>1. out_of_blocks' \in BOOLEAN /\ phase \in RunningPasses
  BY AtCursor DEF GiveUp
<1>2. QED
  BY <1>1, StepInvEndRunning DEF GiveUp

LEMMA StepInvRecordLoras ==
  ASSUME StepInv, RecordLoras
  PROVE  StepInv'
<1>1. PICK to : to = IF preempted = {} /\ step.paused = "no" THEN "waiting"
                     ELSE FollowingPass(defer_prefills)
  OBVIOUS
<1>2. GoOn(to, defer_prefills) /\ phase = "loras"
  BY <1>1 DEF RecordLoras
<1>3. /\ to \in {"waiting", "reserve", "interleave", "fallback", "leftover", "done"}
      /\ to \in {"reserve", "fallback"} => Scheduled = {}
      /\ to = "waiting" => preempted = {}
  BY <1>1, <1>2, WhereNext
<1>4. boundary = {} /\ defer_prefills \in BOOLEAN
  BY <1>2 DEF StepInv, ControlsTyped, PassFits
<1>5. /\ skipped' \subseteq Req /\ considered' = considered /\ out_of_blocks' \in BOOLEAN
  BY DEF StepInv, ControlsTyped, RecordLoras
<1>6. scheduled_loras' \subseteq AdaptersOf(Req)
  <2>1. scheduled_running \subseteq Req
    BY DEF scheduled_running, Scheduled
  <2>2. QED
    BY <2>1 DEF RecordLoras, AdaptersOf
<1>7. UNCHANGED <<reqVars, budgetVars, step, num_scheduled_tokens, new, boundary, preempted>>
  BY DEF RecordLoras
<1>8. QED
  BY <1>2, <1>3, <1>4, <1>5, <1>6, <1>7, StepInvGoOn

LEMMA StepInvEndWaiting ==
  ASSUME StepInv, NEW need \in 0 .. MaxPrompt, EndWaiting(need)
  PROVE  StepInv'
<1>1. PICK deferring \in {defer_prefills, StillDeferred(need)} :
        GoOn(FollowingPass(deferring), deferring)
  BY DEF EndWaiting
<1>2. PICK to : to = FollowingPass(deferring)
  OBVIOUS
<1>3. phase = "waiting" /\ GoOn(to, deferring)
  BY <1>1, <1>2 DEF EndWaiting
<1>4. deferring \in BOOLEAN
  <2>1. defer_prefills \in BOOLEAN /\ step.legacy \in BOOLEAN
    BY DEF StepInv, ControlsTyped, StepTypes
  <2>2. QED
    BY <1>1, <2>1 DEF StillDeferred
<1>5. /\ to \in {"reserve", "interleave", "fallback", "leftover", "done"}
      /\ to \in {"reserve", "fallback"} => Scheduled = {}
      /\ to \in {"interleave", "leftover"} => token_budget > 0
  BY <1>2, <1>3, WhereNext
<1>6. boundary # {} => to = "done"
  BY <1>5 DEF StepInv, PassFits
<1>7. /\ skipped' \subseteq Req /\ considered' = considered /\ out_of_blocks' \in BOOLEAN
      /\ scheduled_loras' \subseteq AdaptersOf(Req)
  BY DEF StepInv, ControlsTyped, EndWaiting
<1>8. UNCHANGED <<reqVars, budgetVars, step, num_scheduled_tokens, new, boundary, preempted>>
  BY DEF EndWaiting
<1>9. QED
  BY <1>3, <1>4, <1>5, <1>6, <1>7, <1>8, StepInvGoOn

LEMMA StepInvEvict ==
  ASSUME StepInv, Evict
  PROVE  StepInv'
<1>1. PICK v \in Req :
        /\ v = running[Victim] /\ v \in Range(running)
        /\ Victim \in DOMAIN running
        /\ running' = RemoveAt(running, Victim)
        /\ waiting' = waiting \cup {v} /\ preempted' = preempted \cup {v}
        /\ left' = [left EXCEPT ![v] = 0] /\ drafts' = [drafts EXCEPT ![v] = 0]
        /\ TakeBack(v)
        /\ new = {} /\ phase \in {"initial", "reserve", "fallback"}
        /\ num_scheduled_tokens' \in [Req -> 0 .. InputCap]
        /\ Scheduled' = Scheduled \ {v}
        /\ \A r \in Req \ {v} : num_scheduled_tokens'[r] = num_scheduled_tokens[r]
        /\ token_budget' \in Int /\ input_budget' \in Int /\ draft_input_budget' \in Int
  BY EvictStandings
<1>2. /\ num_new_tokens > 0 /\ allow_preemption
      /\ UNCHANGED <<prefill, step, new, boundary, skipped, scheduled_loras, considered>>
  BY DEF Evict
<1>3. /\ phase \in RunningPasses /\ boundary = {} /\ req_index \in DOMAIN running
      /\ running[req_index] \notin Scheduled /\ num_new_tokens \in 1 .. InputCap
  BY <1>2, AtCursor
<1>4. /\ running' \in Seq(Req) /\ Len(running') = Len(running) - 1
      /\ DOMAIN running' = 1 .. Len(running) - 1
      /\ \A x \in 1 .. Len(running) - 1 :
           running'[x] = (IF x < Victim THEN running[x] ELSE running[x + 1])
      /\ IsInjective(running') /\ Range(running') = Range(running) \ {v}
  BY <1>1, LeftRunning
<1>5. RequestsTyped'
  <2>1. left' \in [Req -> 0 .. MaxPrompt] /\ drafts' \in [Req -> 0 .. MaxDrafts]
    <3>1. left \in [Req -> 0 .. MaxPrompt] /\ drafts \in [Req -> 0 .. MaxDrafts]
      BY DEF StepInv, RequestsTyped
    <3>2. 0 \in 0 .. MaxPrompt /\ 0 \in 0 .. MaxDrafts
      BY Limited
    <3>3. QED
      BY <1>1, <3>1, <3>2
  <2>2. QED
    BY <1>1, <1>2, <1>4, <2>1 DEF StepInv, RequestsTyped
<1>6. Listed'
  BY <1>1, <1>2, <1>3, <1>4 DEF StepInv, Listed
<1>7. Ranked'
  <2>1. SUFFICES ASSUME ByPriority, NEW w \in preempted', NEW r \in Range(running')
        PROVE Rank[r] < Rank[w]
    BY DEF Ranked
  <2>2. r \in Range(running) /\ r # v /\ r \in Req
    <3>1. r \in Range(running) /\ r # v
      BY <1>4, <2>1
    <3>2. r \in Req
      BY <3>1, RunningPlaces DEF Range
    <3>3. QED
      BY <3>1, <3>2
  <2>3. CASE w \in preempted
    BY <2>1, <2>2, <2>3 DEF StepInv, Ranked
  <2>4. CASE w = v
    <3>1. \A k \in DOMAIN running : Rank[running[k]] <= Rank[v]
      BY <1>1, <1>2, <2>1, VictimIs
    <3>2. Rank[r] <= Rank[v]
      BY <2>2, <3>1 DEF Range
    <3>3. Rank[r] # Rank[v] /\ Rank[r] \in Nat /\ Rank[v] \in Nat
      BY <2>2, StepAssumption DEF StepAssumption
    <3>4. QED
      BY <2>4, <3>2, <3>3
  <2>5. QED
    BY <1>1, <2>1, <2>3, <2>4
<1>8. Len(running) \in Nat /\ DOMAIN running = 1 .. Len(running) /\ Len(running) > 0
  BY <1>3, RunningPlaces
<1>9. CASE Victim = req_index
  <2>1. PICK to : to = (IF phase = "initial" THEN "loras" ELSE FollowingPass(defer_prefills))
    OBVIOUS
  <2>2. /\ to \in {"loras", "reserve", "interleave", "fallback", "leftover", "done"}
        /\ to \in {"reserve", "fallback"} => Scheduled = {}
    BY <1>3, <2>1, AfterRunning
  <2>3. /\ phase' = to /\ defer_prefills' \in BOOLEAN /\ out_of_blocks' = TRUE
        /\ req_index' = 1 /\ num_new_tokens' = 0 /\ visited' = {}
    BY <1>9, <2>1 DEF Evict, EndRunning, GoOn, DeferringIn, StepInv, ControlsTyped
  <2>4. ControlsTyped'
    BY <1>2, <2>2, <2>3, FourPasses DEF StepInv, ControlsTyped
  <2>5. SharesTyped'
    <3>1. 1 \in 1 .. Len(running') + 1 /\ 0 \in 0 .. InputCap
      BY <1>4, <1>8, Limited
    <3>2. QED
      BY <1>1, <2>3, <3>1 DEF SharesTyped
  <2>6. PassFits'
    <3>1. Scheduled = {} => Scheduled' = {}
      BY <1>1
    <3>2. to \notin {"initial", "idle", "waiting"}
      BY <2>2
    <3>3. boundary' = {} /\ new' = {} /\ phase' = to /\ num_new_tokens' = 0 /\ req_index' = 1
      BY <1>1, <1>2, <1>3, <2>3
    <3>4. QED
      BY <2>2, <3>1, <3>2, <3>3 DEF PassFits
  <2>7. Passed'
    BY <1>4, <2>3 DEF Passed
  <2>8. QED
    BY <1>5, <1>6, <1>7, <2>4, <2>5, <2>6, <2>7 DEF StepInv
<1>10. CASE Victim # req_index
  <2>1. /\ req_index' = CursorAfter(Victim)
        /\ UNCHANGED <<phase, defer_prefills, num_new_tokens, visited, out_of_blocks>>
    BY <1>10 DEF Evict
  <2>2. PICK n \in Nat : n = Len(running)
    BY <1>8
  <2>3. PICK i \in 1 .. n : i = Victim
    BY <1>1, <1>8, <2>2
  <2>4. PICK k \in 1 .. n : k = req_index
    BY <1>3, <1>8, <2>2
  <2>5. PICK j : j = IF i < k THEN k - 1 ELSE k
    OBVIOUS
  <2>6. req_index' = j
    BY <2>1, <2>3, <2>4, <2>5 DEF CursorAfter
  <2>7. i # k
    BY <1>10, <2>3, <2>4
  <2>8. /\ j \in 1 .. n - 1 /\ j \in 1 .. (n - 1) + 1
        /\ k = (IF j < i THEN j ELSE j + 1)
        /\ \A x \in 1 .. n - 1 : x < j => (IF x < i THEN x ELSE x + 1) < k
        /\ \A x \in 1 .. n - 1 : (IF x < i THEN x ELSE x + 1) < k => x < j
    BY <2>5, <2>7, CursorFollows
  <2>9. /\ DOMAIN running' = 1 .. n - 1 /\ Len(running') = n - 1
        /\ \A x \in 1 .. n - 1 : running'[x] = running[IF x < i THEN x ELSE x + 1]
        /\ \A x \in 1 .. n - 1 : (IF x < i THEN x ELSE x + 1) \in DOMAIN running
    BY <1>4, <1>8, <2>2, <2>3
  <2>10. ControlsTyped'
    BY <1>2, <2>1 DEF StepInv, ControlsTyped
  <2>11. SharesTyped'
    BY <1>1, <2>1, <2>6, <2>8, <2>9 DEF StepInv, SharesTyped
  <2>12. PassFits'
    <3>1. running'[req_index'] = running[req_index] /\ req_index' <= Len(running')
      BY <2>4, <2>6, <2>8, <2>9
    <3>2. running'[req_index'] \notin Scheduled'
      BY <1>1, <1>3, <3>1
    <3>3. ASSUME NEW x \in DOMAIN running', running'[x] \in Scheduled' PROVE x < req_index'
      <4>1. (IF x < i THEN x ELSE x + 1) < k
        BY <1>1, <2>4, <2>9, <3>3 DEF StepInv, PassFits
      <4>2. QED
        BY <2>6, <2>8, <2>9, <4>1
    <3>4. boundary' = {} /\ new' = {} /\ phase' = phase /\ phase' \in RunningPasses
          /\ phase' \notin {"idle", "waiting"}
      BY <1>1, <1>2, <1>3, <2>1
    <3>5. QED
      BY <3>1, <3>2, <3>3, <3>4 DEF PassFits
  <2>13. Passed'
    <3>1. SUFFICES ASSUME NEW x \in DOMAIN running', x < req_index' PROVE running'[x] \in visited
      BY <2>1 DEF Passed
    <3>2. (IF x < i THEN x ELSE x + 1) < k
      BY <2>6, <2>8, <2>9, <3>1
    <3>3. QED
      BY <2>4, <2>9, <3>1, <3>2 DEF StepInv, Passed
  <2>14. QED
    BY <1>5, <1>6, <1>7, <2>10, <2>11, <2>12, <2>13 DEF StepInv
<1>11. QED
  BY <1>9, <1>10

-----------------------------------------------------------------------------
(* Admission *)

(* What the admission of a waiting request changes.                        *)
LEMMA EnterStandings ==
  ASSUME StepInv, NEW r \in Req, NEW need \in 0 .. MaxPrompt, NEW n \in 1 .. InputCap,
         MayAdmit(r), Enter(r, need, n)
  PROVE  /\ phase = "waiting" /\ phase' = "waiting" /\ preempted = {} /\ boundary = {}
         /\ r \in waiting /\ r \notin Range(running) /\ r \notin Scheduled
         /\ num_scheduled_tokens[r] = 0 /\ num_scheduled_tokens'[r] = n
         /\ \A q \in Req \ {r} : num_scheduled_tokens'[q] = num_scheduled_tokens[q]
         /\ num_scheduled_tokens' \in [Req -> 0 .. InputCap]
         /\ Scheduled' = Scheduled \cup {r}
<1>1. phase = "waiting" /\ boundary = {} /\ r \in waiting
  BY DEF MayAdmit, Room
<1>2. phase' = "waiting" /\ preempted = {}
  BY <1>1 DEF Enter, StepInv, PassFits
<1>3. r \notin Range(running) /\ r \notin Scheduled
  BY <1>1 DEF StepInv, Listed
<1>4. num_scheduled_tokens \in [Req -> 0 .. InputCap]
  BY DEF StepInv, SharesTyped
<1>5. num_scheduled_tokens[r] = 0
  BY <1>3, <1>4, Limited DEF Scheduled
<1>6. num_scheduled_tokens' = [num_scheduled_tokens EXCEPT ![r] = n]
  BY DEF Enter
<1>7. n \in 0 .. InputCap
  BY Limited
<1>8. num_scheduled_tokens' \in [Req -> 0 .. InputCap]
  BY <1>4, <1>6, <1>7
<1>9. Scheduled' = Scheduled \cup {r}
  BY <1>4, <1>6 DEF Scheduled
<1>10. QED
  BY <1>1, <1>2, <1>3, <1>4, <1>5, <1>6, <1>8, <1>9

LEMMA StepInvEnter ==
  ASSUME StepInv, NEW r \in Req, NEW need \in 0 .. MaxPrompt, NEW n \in 1 .. InputCap,
         MayAdmit(r), Enter(r, need, n),
         defer_prefills' \in BOOLEAN,
         token_budget' \in Int, input_budget' \in Int, draft_input_budget' \in Int,
         boundary' = {} \/ (boundary' = {r} /\ Scheduled = {} /\ token_budget' = 0)
  PROVE  StepInv'
<1>1. /\ phase = "waiting" /\ phase' = "waiting" /\ preempted = {}
      /\ r \in waiting /\ r \notin Range(running)
      /\ num_scheduled_tokens' \in [Req -> 0 .. InputCap]
      /\ Scheduled' = Scheduled \cup {r}
  BY EnterStandings
<1>2. /\ running' = Append(running, r) /\ waiting' = waiting \ {r} /\ new' = new \cup {r}
      /\ left' = [left EXCEPT ![r] = need]
      /\ scheduled_loras' = scheduled_loras \cup AdaptersOf({r})
      /\ UNCHANGED <<drafts, prefill, req_index, num_new_tokens, visited, step, preempted, skipped,
                     considered, out_of_blocks>>
  BY DEF Enter, passVars
<1>3. PICK q \in Seq(Req) : q = running
  BY DEF StepInv, RequestsTyped
<1>4. /\ Append(q, r) \in Seq(Req) /\ Range(Append(q, r)) = Range(q) \cup {r}
      /\ IsInjective(q) /\ r \notin Range(q) => IsInjective(Append(q, r))
  BY AppendLists
<1>5. /\ running' \in Seq(Req) /\ Range(running') = Range(running) \cup {r}
      /\ IsInjective(running')
  BY <1>1, <1>2, <1>3, <1>4 DEF StepInv, Listed
<1>6. req_index' = 1 /\ num_new_tokens' = 0
  BY <1>1, <1>2, FourPasses DEF StepInv, PassFits
<1>7. RequestsTyped'
  <2>1. left \in [Req -> 0 .. MaxPrompt]
    BY DEF StepInv, RequestsTyped
  <2>2. left' \in [Req -> 0 .. MaxPrompt]
    BY <1>2, <2>1
  <2>3. QED
    BY <1>2, <1>5, <2>2 DEF StepInv, RequestsTyped
<1>8. ControlsTyped'
  BY <1>1, <1>2, AdapterKnown DEF StepInv, ControlsTyped
<1>9. SharesTyped'
  <2>1. 1 \in 1 .. Len(running') + 1 /\ 0 \in 0 .. InputCap
    <3>1. Len(running') \in Nat
      BY <1>5
    <3>2. QED
      BY <3>1, Limited
  <2>2. QED
    BY <1>1, <1>6, <2>1 DEF SharesTyped
<1>10. Listed'
  BY <1>1, <1>2, <1>5 DEF StepInv, Listed
<1>11. PassFits'
  BY <1>1, <1>2, <1>6 DEF StepInv, PassFits
<1>12. Passed'
  <2>1. \A i \in DOMAIN running' : ~(i < 1)
    BY <1>5
  <2>2. QED
    BY <1>6, <2>1 DEF Passed
<1>13. Ranked'
  BY <1>1, <1>2 DEF Ranked
<1>14. QED
  BY <1>7, <1>8, <1>9, <1>10, <1>11, <1>12, <1>13 DEF StepInv

LEMMA StepInvAdmit ==
  ASSUME StepInv, NEW r \in Req, NEW n \in 1 .. InputCap, NEW need \in 1 .. MaxPrompt,
         Admit(r, need, n)
  PROVE  StepInv'
<1>1. MayAdmit(r) /\ Enter(r, need, n) /\ Spend(n) /\ defer_prefills' = StillDeferred(need)
      /\ UNCHANGED boundary
  BY DEF Admit
<1>2. defer_prefills \in BOOLEAN /\ step.legacy \in BOOLEAN
  BY DEF StepInv, ControlsTyped, StepTypes
<1>3. defer_prefills' \in BOOLEAN
  BY <1>1, <1>2 DEF StillDeferred
<1>4. token_budget \in Int /\ input_budget \in Int /\ draft_input_budget \in Int
  BY DEF StepInv, SharesTyped
<1>5. token_budget' \in Int /\ input_budget' \in Int /\ draft_input_budget' \in Int
  BY <1>1, <1>4, Limited DEF Spend
<1>6. boundary' = {}
  BY <1>1 DEF MayAdmit, Room
<1>7. need \in 0 .. MaxPrompt
  OBVIOUS
<1>8. QED
  BY <1>1, <1>3, <1>5, <1>6, <1>7, StepInvEnter

LEMMA StepInvAdmitBoundary ==
  ASSUME StepInv, NEW r \in Req, AdmitBoundary(r)
  PROVE  StepInv'
<1>1. /\ MayAdmit(r) /\ Scheduled = {} /\ Enter(r, 0, 1) /\ boundary' = {r} /\ token_budget' = 0
      /\ input_budget' = input_budget - (1 + DraftSlots)
      /\ draft_input_budget' = draft_input_budget - DraftInput
      /\ UNCHANGED defer_prefills
  BY DEF AdmitBoundary, MayAdmitBoundary
<1>2. defer_prefills' \in BOOLEAN
  BY <1>1 DEF StepInv, ControlsTyped
<1>3. token_budget \in Int /\ input_budget \in Int /\ draft_input_budget \in Int
  BY DEF StepInv, SharesTyped
<1>4. token_budget' \in Int /\ input_budget' \in Int /\ draft_input_budget' \in Int
  BY <1>1, <1>3, Limited
<1>5. 0 \in 0 .. MaxPrompt /\ 1 \in 1 .. InputCap
  BY Limited
<1>6. QED
  BY <1>1, <1>2, <1>4, <1>5, StepInvEnter

LEMMA StepInvSkipWaiting ==
  ASSUME StepInv, NEW r \in Req, SkipWaiting(r)
  PROVE  StepInv'
<1>1. /\ skipped' = skipped \cup {r}
      /\ UNCHANGED <<running, waiting, left, drafts, prefill>>
      /\ UNCHANGED <<token_budget, input_budget, draft_input_budget>>
      /\ UNCHANGED <<req_index, num_new_tokens, visited>>
      /\ UNCHANGED <<phase, step, defer_prefills, num_scheduled_tokens, new, boundary, preempted,
                     scheduled_loras, considered, out_of_blocks>>
  BY DEF SkipWaiting, reqVars, budgetVars, passVars
<1>2. Scheduled' = Scheduled
  BY <1>1 DEF Scheduled
<1>3. ControlsTyped'
  BY <1>1 DEF StepInv, ControlsTyped
<1>4. RequestsTyped' /\ SharesTyped' /\ Listed'
  BY <1>1, <1>2 DEF StepInv, RequestsTyped, SharesTyped, Listed
<1>5. PassFits' /\ Passed' /\ Ranked'
  BY <1>1, <1>2 DEF StepInv, PassFits, Passed, Ranked
<1>6. QED
  BY <1>3, <1>4, <1>5 DEF StepInv

-----------------------------------------------------------------------------
(* Between two calls *)

(* Outside a call nothing is scheduled, admitted or preempted. *)
LEMMA WhenIdle ==
  ASSUME StepInv, phase = "idle"
  PROVE  /\ Scheduled = {} /\ new = {} /\ preempted = {} /\ boundary = {}
         /\ req_index = 1 /\ num_new_tokens = 0
         /\ "idle" \notin RunningPasses
BY FourPasses DEF StepInv, PassFits, Listed

LEMMA StepInvIdle ==
  ASSUME StepInv, phase = "idle", running' \in Seq(Req), waiting' \subseteq Req,
         left' \in [Req -> 0 .. MaxPrompt], drafts' \in [Req -> 0 .. MaxDrafts],
         IsInjective(running'), Range(running') \cap waiting' = {},
         UNCHANGED <<phase, prefill, budgetVars, passVars, stepVars>>
  PROVE  StepInv'
<1>1. /\ Scheduled = {} /\ new = {} /\ preempted = {} /\ boundary = {}
      /\ req_index = 1 /\ num_new_tokens = 0 /\ "idle" \notin RunningPasses
  BY WhenIdle
<1>2. /\ UNCHANGED <<phase, prefill, token_budget, input_budget, draft_input_budget>>
      /\ UNCHANGED <<req_index, num_new_tokens, visited>>
      /\ UNCHANGED <<step, defer_prefills, num_scheduled_tokens, new, boundary, preempted, skipped,
                     scheduled_loras, considered, out_of_blocks>>
  BY DEF budgetVars, passVars, stepVars
<1>3. Scheduled' = {}
  BY <1>1, <1>2 DEF Scheduled
<1>4. RequestsTyped'
  BY <1>2 DEF StepInv, RequestsTyped
<1>5. ControlsTyped'
  BY <1>2 DEF StepInv, ControlsTyped
<1>6. SharesTyped'
  <2>1. Len(running') \in Nat
    OBVIOUS
  <2>2. 1 \in 1 .. Len(running') + 1
    BY <2>1
  <2>3. QED
    BY <1>1, <1>2, <2>2 DEF StepInv, SharesTyped
<1>7. Listed'
  BY <1>1, <1>2, <1>3 DEF Listed
<1>8. PassFits'
  BY <1>1, <1>2, <1>3 DEF PassFits
<1>9. Passed'
  <2>1. \A i \in DOMAIN running' : ~(i < 1)
    OBVIOUS
  <2>2. QED
    BY <1>1, <1>2, <2>1 DEF Passed
<1>10. Ranked'
  BY <1>1, <1>2 DEF Ranked
<1>11. QED
  BY <1>4, <1>5, <1>6, <1>7, <1>8, <1>9, <1>10 DEF StepInv

LEMMA StepInvAddRequest ==
  ASSUME StepInv, NEW r \in Req, add_request(r)
  PROVE  StepInv'
<1>1. /\ running' = running /\ left' = left /\ drafts' = drafts
      /\ waiting' = waiting \cup {r} /\ phase = "idle" /\ r \notin Range(running)
      /\ UNCHANGED <<phase, prefill, budgetVars, passVars, stepVars>>
  BY DEF add_request
<1>2. /\ running' \in Seq(Req) /\ waiting' \subseteq Req
      /\ left' \in [Req -> 0 .. MaxPrompt] /\ drafts' \in [Req -> 0 .. MaxDrafts]
      /\ IsInjective(running') /\ Range(running') \cap waiting' = {}
  BY <1>1 DEF StepInv, RequestsTyped, Listed
<1>3. QED
  BY <1>1, <1>2, StepInvIdle

LEMMA StepInvUpdate ==
  ASSUME StepInv, NEW r \in Req, update_from_output(r)
  PROVE  StepInv'
<1>1. /\ phase = "idle" /\ waiting' = waiting
      /\ UNCHANGED <<phase, prefill, budgetVars, passVars, stepVars>>
  BY DEF update_from_output
<1>2. /\ running \in Seq(Req) /\ waiting \subseteq Req
      /\ left \in [Req -> 0 .. MaxPrompt] /\ drafts \in [Req -> 0 .. MaxDrafts]
      /\ IsInjective(running) /\ Range(running) \cap waiting = {}
  BY DEF StepInv, RequestsTyped, Listed
<1>3. CASE \E k \in {0, MaxDrafts} :
             /\ left' = [left EXCEPT ![r] = 1] /\ drafts' = [drafts EXCEPT ![r] = k]
             /\ UNCHANGED running
  <2>1. PICK k \in {0, MaxDrafts} :
             /\ left' = [left EXCEPT ![r] = 1] /\ drafts' = [drafts EXCEPT ![r] = k]
             /\ UNCHANGED running
    BY <1>3
  <2>2. k \in 0 .. MaxDrafts /\ 1 \in 0 .. MaxPrompt
    BY Limited
  <2>3. left' \in [Req -> 0 .. MaxPrompt] /\ drafts' \in [Req -> 0 .. MaxDrafts]
    BY <1>2, <2>1, <2>2
  <2>4. running' \in Seq(Req) /\ waiting' \subseteq Req
        /\ IsInjective(running') /\ Range(running') \cap waiting' = {}
    BY <1>1, <1>2, <2>1
  <2>5. QED
    BY <1>1, <2>3, <2>4, StepInvIdle
<1>4. CASE /\ \E i \in DOMAIN running : running[i] = r /\ running' = RemoveAt(running, i)
           /\ UNCHANGED <<left, drafts>>
  <2>1. PICK i \in DOMAIN running : running' = RemoveAt(running, i)
    BY <1>4
  <2>2. /\ running' \in Seq(Req) /\ IsInjective(running')
        /\ Range(running') = Range(running) \ {running[i]}
    BY <2>1, LeftRunning
  <2>3. left' \in [Req -> 0 .. MaxPrompt] /\ drafts' \in [Req -> 0 .. MaxDrafts]
    BY <1>2, <1>4
  <2>4. waiting' \subseteq Req /\ Range(running') \cap waiting' = {}
    BY <1>1, <1>2, <2>2
  <2>5. QED
    BY <1>1, <2>2, <2>3, <2>4, StepInvIdle
<1>5. QED
  BY <1>3, <1>4 DEF update_from_output

LEMMA StepInvBegin ==
  ASSUME StepInv, BeginSchedule
  PROVE  StepInv'
<1>1. PICK s \in Controls :
        /\ step' = s
        /\ defer_prefills' = (s.legacy \/ s.turn = "decode")
        /\ token_budget' = IF s.paused = "all" THEN 0 ELSE s.cap
        /\ phase' = IF s.reserve THEN "loras" ELSE "initial"
  BY DEF BeginSchedule
<1>2. /\ phase = "idle" /\ input_budget' = InputCap /\ draft_input_budget' = InputCap
      /\ UNCHANGED <<running, waiting, left, drafts, prefill>>
      /\ UNCHANGED <<req_index, num_new_tokens, visited>>
      /\ UNCHANGED <<num_scheduled_tokens, new, boundary, preempted, skipped, scheduled_loras,
                     considered, out_of_blocks>>
  BY DEF BeginSchedule, reqVars, passVars
<1>3. /\ Scheduled = {} /\ new = {} /\ preempted = {} /\ boundary = {}
      /\ req_index = 1 /\ num_new_tokens = 0
  BY <1>2, WhenIdle
<1>4. Scheduled' = {}
  BY <1>2, <1>3 DEF Scheduled
<1>5. s \in StepTypes
  <2>1. Range(running) \subseteq Req
    BY RunningPlaces DEF Range
  <2>2. /\ s \in [cap : {TokenCap, InputCap}, turn : {"none", "decode", "prefill"},
                  legacy : BOOLEAN, interleave : BOOLEAN, reserve : BOOLEAN,
                  paused : {"no", "new", "all"},
                  eligible : IF Overlap THEN SUBSET Range(running) ELSE {Range(running)},
                  at_start : {Range(running)}]
    BY DEF Controls
  <2>3. (IF Overlap THEN SUBSET Range(running) ELSE {Range(running)}) \subseteq SUBSET Req
    BY <2>1
  <2>4. s \in [cap : {TokenCap, InputCap}, turn : {"none", "decode", "prefill"},
                  legacy : BOOLEAN, interleave : BOOLEAN, reserve : BOOLEAN,
                  paused : {"no", "new", "all"}, eligible : SUBSET Req, at_start : SUBSET Req]
    BY <2>1, <2>2, <2>3
  <2>5. QED
    BY <2>4 DEF StepTypes
<1>6. phase' \in {"loras", "initial"} /\ defer_prefills' \in BOOLEAN
  BY <1>1
<1>7. RequestsTyped'
  BY <1>2 DEF StepInv, RequestsTyped
<1>8. ControlsTyped'
  BY <1>1, <1>2, <1>5, <1>6, FourPasses DEF StepInv, ControlsTyped
<1>9. SharesTyped'
  <2>1. s.cap \in Int
    BY <1>5, Limited DEF StepTypes
  <2>2. token_budget' \in Int
    BY <1>1, <2>1
  <2>3. QED
    BY <1>2, <2>2, Limited DEF StepInv, SharesTyped
<1>10. Listed'
  BY <1>2, <1>3, <1>4 DEF StepInv, Listed
<1>11. PassFits'
  BY <1>2, <1>3, <1>4, <1>6 DEF PassFits
<1>12. Passed' /\ Ranked'
  BY <1>2 DEF StepInv, Passed, Ranked
<1>13. QED
  BY <1>7, <1>8, <1>9, <1>10, <1>11, <1>12 DEF StepInv

LEMMA StepInvAfter ==
  ASSUME StepInv, _update_after_schedule
  PROVE  StepInv'
<1>1. /\ phase' = "idle" /\ phase = "done"
      /\ left' = [r \in Req |-> IF num_scheduled_tokens[r] > left[r] THEN 0
                                ELSE left[r] - num_scheduled_tokens[r]]
      /\ prefill' = [r \in Req |-> IF r \in Scheduled THEN left'[r] > 0 ELSE prefill[r]]
      /\ UNCHANGED <<running, waiting, drafts>>
  BY DEF _update_after_schedule
<1>2. /\ step' = NoStep /\ defer_prefills' = FALSE
      /\ num_scheduled_tokens' = [r \in Req |-> 0]
      /\ new' = {} /\ boundary' = {} /\ preempted' = {} /\ skipped' = {}
      /\ scheduled_loras' = {} /\ considered' = {} /\ out_of_blocks' = FALSE
      /\ token_budget' = 0 /\ input_budget' = 0 /\ draft_input_budget' = 0
      /\ req_index' = 1 /\ num_new_tokens' = 0 /\ visited' = {}
  BY DEF _update_after_schedule, ClearStep
<1>3. Scheduled' = {}
  BY <1>2 DEF Scheduled
<1>4. RequestsTyped'
  <2>1. /\ left \in [Req -> 0 .. MaxPrompt] /\ num_scheduled_tokens \in [Req -> 0 .. InputCap]
        /\ prefill \in [Req -> BOOLEAN]
    BY DEF StepInv, RequestsTyped, SharesTyped
  <2>2. \A r \in Req : (IF num_scheduled_tokens[r] > left[r] THEN 0
                        ELSE left[r] - num_scheduled_tokens[r]) \in 0 .. MaxPrompt
    <3>1. SUFFICES ASSUME NEW r \in Req
          PROVE (IF num_scheduled_tokens[r] > left[r] THEN 0
                 ELSE left[r] - num_scheduled_tokens[r]) \in 0 .. MaxPrompt
      OBVIOUS
    <3>2. left[r] \in 0 .. MaxPrompt /\ num_scheduled_tokens[r] \in 0 .. InputCap
      BY <2>1
    <3>3. QED
      BY <3>2, Limited
  <2>3. left' \in [Req -> 0 .. MaxPrompt]
    BY <1>1, <2>2
  <2>4. prefill' \in [Req -> BOOLEAN]
    <3>1. ASSUME NEW r \in Req
          PROVE  (IF r \in Scheduled THEN left'[r] > 0 ELSE prefill[r]) \in BOOLEAN
      <4>1. prefill[r] \in BOOLEAN
        BY <2>1
      <4>2. (left'[r] > 0) \in BOOLEAN
        OBVIOUS
      <4>3. QED
        BY <4>1, <4>2, Zenon
    <3>2. QED
      BY <1>1, <3>1, Zenon
  <2>5. QED
    BY <1>1, <2>3, <2>4 DEF StepInv, RequestsTyped
<1>5. ControlsTyped'
  BY <1>1, <1>2 DEF ControlsTyped, StepTypes, NoStep
<1>6. SharesTyped'
  <2>1. 1 \in 1 .. Len(running) + 1
    BY RunningPlaces
  <2>2. 0 \in 0 .. InputCap
    BY Limited
  <2>3. QED
    BY <1>1, <1>2, <2>1, <2>2 DEF SharesTyped
<1>7. Listed'
  BY <1>1, <1>2, <1>3 DEF StepInv, Listed
<1>8. PassFits'
  BY <1>1, <1>2, <1>3 DEF PassFits
<1>9. Passed'
  <2>1. \A i \in DOMAIN running : ~(i < 1)
    BY RunningPlaces
  <2>2. QED
    BY <1>1, <1>2, <2>1 DEF Passed
<1>10. Ranked'
  BY <1>2 DEF Ranked
<1>11. QED
  BY <1>4, <1>5, <1>6, <1>7, <1>8, <1>9, <1>10 DEF StepInv

(* Every step keeps the invariant.                                         *)
LEMMA StepInvStep ==
  ASSUME StepInv, [Next]_vars
  PROVE  StepInv'
<1>1. CASE UNCHANGED vars
  <2>1. /\ UNCHANGED <<running, waiting, left, drafts, prefill>>
        /\ UNCHANGED <<token_budget, input_budget, draft_input_budget>>
        /\ UNCHANGED <<req_index, num_new_tokens, visited>>
        /\ UNCHANGED <<phase, step, defer_prefills, num_scheduled_tokens, new, boundary, preempted,
                       skipped, scheduled_loras, considered, out_of_blocks>>
    BY <1>1 DEF vars, reqVars, budgetVars, passVars, stepVars
  <2>2. Scheduled' = Scheduled
    BY <2>1 DEF Scheduled
  <2>3. RequestsTyped' /\ ControlsTyped' /\ SharesTyped'
    BY <2>1 DEF StepInv, RequestsTyped, ControlsTyped, SharesTyped
  <2>4. Listed' /\ PassFits' /\ Passed' /\ Ranked'
    BY <2>1, <2>2 DEF StepInv, Listed, PassFits, Passed, Ranked
  <2>5. QED
    BY <2>3, <2>4 DEF StepInv
<1>2. CASE BeginSchedule \/ Serve \/ Evict \/ GiveUp \/ EndPass \/ RecordLoras \/ _update_after_schedule
  BY <1>2, StepInvBegin, StepInvServe, StepInvEvict, StepInvGiveUp, StepInvEndPass,
     StepInvRecordLoras, StepInvAfter
<1>3. ASSUME NEW r \in Req,
             add_request(r) \/ update_from_output(r) \/ GoOver(r) \/ Refuse(r) \/ SkipWaiting(r)
               \/ AdmitBoundary(r)
      PROVE  StepInv'
  BY <1>3, StepInvAddRequest, StepInvUpdate, StepInvGoOver, StepInvRefuse, StepInvSkipWaiting,
     StepInvAdmitBoundary
<1>4. ASSUME NEW r \in Req, NEW n \in 1 .. InputCap, Consider(r, n) PROVE StepInv'
  BY <1>4, StepInvConsider
<1>5. ASSUME NEW r \in Req, NEW n \in 1 .. InputCap, NEW need \in 1 .. MaxPrompt, Admit(r, need, n)
      PROVE  StepInv'
  BY <1>5, StepInvAdmit
<1>6. ASSUME NEW need \in 0 .. MaxPrompt, EndWaiting(need) PROVE StepInv'
  BY <1>6, StepInvEndWaiting
<1>7. QED
  BY <1>1, <1>2, <1>3, <1>4, <1>5, <1>6 DEF Next

-----------------------------------------------------------------------------
(* Budgets *)

(* The least of three numbers is one of them and none is below it.         *)
LEMMA LeastOfThree ==
  ASSUME NEW a \in Int, NEW b \in Int, NEW c \in Int
  PROVE  /\ Least({a, b, c}) \in {a, b, c}
         /\ Least({a, b, c}) <= a /\ Least({a, b, c}) <= b /\ Least({a, b, c}) <= c
<1>1. \E x \in {a, b, c} : \A y \in {a, b, c} : x <= y
  <2>1. CASE a <= b /\ a <= c
    BY <2>1
  <2>2. CASE b <= a /\ b <= c
    BY <2>2
  <2>3. CASE c <= a /\ c <= b
    BY <2>3
  <2>4. QED
    BY <2>1, <2>2, <2>3
<1>2. Least({a, b, c}) \in {a, b, c} /\ \A y \in {a, b, c} : Least({a, b, c}) <= y
  BY <1>1, Zenon DEF Least
<1>3. QED
  BY <1>2

(* A share is at most what is possible.                                    *)
LEMMA WithinShares ==
  ASSUME NEW most \in Int, NEW n \in Shares(most)
  PROVE  n \in Int /\ n <= most
<1>1. n \in 1 .. most \/ n \in {most} \ {0}
  BY DEF Shares
<1>2. QED
  BY <1>1

(* What the prover needs to know of products.                              *)
LEMMA Multiples ==
  ASSUME NEW k \in Nat, NEW c \in Nat
  PROVE  k * (c + 1) = k * c + k /\ k * c \in Nat /\ k * 0 = 0
OBVIOUS

LEMMA MultiplesBefore ==
  ASSUME NEW k \in Nat, NEW c \in Nat, NEW d \in Nat, d = c - 1
  PROVE  k * d = k * c - k
<1>1. c = d + 1
  OBVIOUS
<1>2. k * (d + 1) = k * d + k /\ k * d \in Nat
  BY Multiples
<1>3. QED
  BY <1>1, <1>2

(* The tokens given away, and to how many requests, are numbers. *)
LEMMA Given ==
  ASSUME StepInv
  PROVE  /\ num_scheduled_tokens \in [Req -> Int] /\ TokensOf(Req) \in Int
         /\ IsFiniteSet(Scheduled) /\ Cardinality(Scheduled) \in Nat
         /\ DraftSlots * Cardinality(Scheduled) \in Nat
         /\ DraftInput * Cardinality(Scheduled) \in Nat
         /\ token_budget \in Int /\ input_budget \in Int /\ draft_input_budget \in Int
         /\ num_new_tokens \in Nat
<1>1. num_scheduled_tokens \in [Req -> 0 .. InputCap]
  BY DEF StepInv, SharesTyped
<1>2. PICK f \in [Req -> Int] : f = num_scheduled_tokens
  <2>1. num_scheduled_tokens \in [Req -> Int]
    BY <1>1
  <2>2. QED
    BY <2>1
<1>3. SumFunctionOnSet(f, Req) \in Int
  <2>1. CASE Req = {}
    <3>1. SumFunctionOnSet(f, Req) = 0
      BY <2>1, Limited, SumOfZeros
    <3>2. QED
      BY <3>1
  <2>2. CASE Req # {}
    <3>1. PICK a \in Req : TRUE
      BY <2>2
    <3>2. QED
      BY Limited, SumChanged
  <2>3. QED
    BY <2>1, <2>2
<1>4. Scheduled \subseteq Req
  BY DEF Scheduled
<1>5. IsFiniteSet(Scheduled) /\ Cardinality(Scheduled) \in Nat
  BY <1>4, Limited, FS_Subset, FS_CardinalityType
<1>6. DraftSlots * Cardinality(Scheduled) \in Nat /\ DraftInput * Cardinality(Scheduled) \in Nat
  BY <1>5, Limited, Multiples
<1>7. num_new_tokens \in Nat
  BY Limited DEF StepInv, SharesTyped
<1>8. QED
  BY <1>2, <1>3, <1>5, <1>6, <1>7 DEF StepInv, SharesTyped, TokensOf

(* One more request is scheduled, with n tokens. *)
LEMMA OneMore ==
  ASSUME StepInv, NEW r \in Req, r \notin Scheduled, NEW n \in 1 .. InputCap,
         num_scheduled_tokens' \in [Req -> 0 .. InputCap],
         num_scheduled_tokens'[r] = n,
         \A q \in Req \ {r} : num_scheduled_tokens'[q] = num_scheduled_tokens[q],
         Scheduled' = Scheduled \cup {r}
  PROVE  /\ TokensOf(Req)' = TokensOf(Req) + n
         /\ DraftSlots * Cardinality(Scheduled') = DraftSlots * Cardinality(Scheduled) + DraftSlots
         /\ DraftInput * Cardinality(Scheduled') = DraftInput * Cardinality(Scheduled) + DraftInput
<1>1. PICK f \in [Req -> Int] : f = num_scheduled_tokens
  BY Given
<1>2. PICK g \in [Req -> Int] : g = num_scheduled_tokens'
  <2>1. num_scheduled_tokens' \in [Req -> Int]
    OBVIOUS
  <2>2. QED
    BY <2>1
<1>3. f[r] = 0
  BY <1>1 DEF Scheduled, StepInv, SharesTyped
<1>4. \A q \in Req : q # r => f[q] = g[q]
  BY <1>1, <1>2
<1>5. SumFunctionOnSet(f, Req) \in Int /\ SumFunctionOnSet(g, Req) = SumFunctionOnSet(f, Req) - f[r] + g[r]
  BY <1>4, Limited, SumChanged
<1>6. SumFunctionOnSet(g, Req) = SumFunctionOnSet(f, Req) + n
  BY <1>2, <1>3, <1>5
<1>7. Cardinality(Scheduled \cup {r}) = Cardinality(Scheduled) + 1
  BY Given, FS_AddElement
<1>8. PICK c \in Nat : c = Cardinality(Scheduled) /\ Cardinality(Scheduled') = c + 1
  BY <1>7, Given
<1>9. DraftSlots * (c + 1) = DraftSlots * c + DraftSlots /\ DraftInput * (c + 1) = DraftInput * c + DraftInput
  BY Limited, Multiples
<1>10. QED
  BY <1>1, <1>2, <1>6, <1>8, <1>9 DEF TokensOf

(* One is scheduled no longer. *)
LEMMA OneLess ==
  ASSUME StepInv, NEW r \in Scheduled, r \in Req,
         num_scheduled_tokens' = [num_scheduled_tokens EXCEPT ![r] = 0],
         Scheduled' = Scheduled \ {r}
  PROVE  /\ TokensOf(Req)' = TokensOf(Req) - num_scheduled_tokens[r]
         /\ num_scheduled_tokens[r] \in Nat
         /\ DraftSlots * Cardinality(Scheduled') = DraftSlots * Cardinality(Scheduled) - DraftSlots
         /\ DraftInput * Cardinality(Scheduled') = DraftInput * Cardinality(Scheduled) - DraftInput
<1>1. PICK f \in [Req -> Int] : f = num_scheduled_tokens
  BY Given
<1>2. PICK g \in [Req -> Int] : g = [f EXCEPT ![r] = 0]
  <2>1. [f EXCEPT ![r] = 0] \in [Req -> Int]
    OBVIOUS
  <2>2. QED
    BY <2>1
<1>3. f[r] \in Nat /\ g[r] = 0
  BY <1>1, <1>2, Limited DEF StepInv, SharesTyped
<1>4. \A q \in Req : q # r => f[q] = g[q]
  BY <1>2
<1>5. SumFunctionOnSet(f, Req) \in Int /\ SumFunctionOnSet(g, Req) = SumFunctionOnSet(f, Req) - f[r] + g[r]
  BY <1>4, Limited, SumChanged
<1>6. SumFunctionOnSet(g, Req) = SumFunctionOnSet(f, Req) - f[r]
  BY <1>3, <1>5
<1>7. Cardinality(Scheduled \ {r}) = Cardinality(Scheduled) - 1
  BY Given, FS_RemoveElement
<1>8. IsFiniteSet(Scheduled \ {r})
  BY Given, FS_Subset
<1>9. PICK c \in Nat : c = Cardinality(Scheduled)
  BY Given
<1>10. PICK d \in Nat : d = Cardinality(Scheduled') /\ d = c - 1
  BY <1>7, <1>8, <1>9, FS_CardinalityType
<1>11. DraftSlots * d = DraftSlots * c - DraftSlots /\ DraftInput * d = DraftInput * c - DraftInput
  BY <1>10, Limited, MultiplesBefore
<1>12. QED
  BY <1>1, <1>2, <1>3, <1>6, <1>9, <1>10, <1>11 DEF TokensOf

(* Nothing is given away. *)
LEMMA NoneGiven ==
  ASSUME StepInv, Scheduled = {}
  PROVE  /\ TokensOf(Req) = 0 /\ DraftSlots * Cardinality(Scheduled) = 0
         /\ DraftInput * Cardinality(Scheduled) = 0
<1>1. PICK f \in [Req -> Int] : f = num_scheduled_tokens
  BY Given
<1>2. \A q \in Req : f[q] = 0
  <2>1. \A q \in Req : num_scheduled_tokens[q] \in 0 .. InputCap /\ ~(num_scheduled_tokens[q] > 0)
    BY DEF Scheduled, StepInv, SharesTyped
  <2>2. QED
    BY <1>1, <2>1, Limited
<1>3. SumFunctionOnSet(f, Req) = 0
  BY <1>2, Limited, SumOfZeros
<1>4. Cardinality(Scheduled) = 0
  BY FS_EmptySet
<1>5. QED
  BY <1>1, <1>3, <1>4, Limited, Multiples DEF TokensOf

(* Nothing is given or taken. *)
LEMMA BalancedKept ==
  ASSUME StepInv, Balanced, phase # "idle",
         UNCHANGED <<budgetVars, step, num_scheduled_tokens, boundary>>, num_new_tokens' = 0
  PROVE  Balanced'
<1>1. UNCHANGED <<token_budget, input_budget, draft_input_budget>>
  BY DEF budgetVars
<1>2. Scheduled' = Scheduled /\ TokensOf(Req)' = TokensOf(Req)
  BY DEF Scheduled, TokensOf
<1>3. ~(num_new_tokens' > 0)
  OBVIOUS
<1>4. Budget' = Budget
  BY DEF Budget
<1>5. QED
  BY <1>1, <1>2, <1>3, <1>4 DEF Balanced

LEMMA BalancedConsider ==
  ASSUME StepInv, Balanced, NEW r \in Req, NEW n \in 1 .. InputCap, Consider(r, n)
  PROVE  Balanced'
<1>1. /\ phase \in RunningPasses /\ token_budget > 0 /\ ~InputsExhausted
      /\ n \in Shares(Least({left[r] + drafts[r], token_budget, input_budget - DraftSlots}))
      /\ num_new_tokens' = n
      /\ UNCHANGED <<phase, step, num_scheduled_tokens, boundary>>
      /\ UNCHANGED <<token_budget, input_budget, draft_input_budget>>
  BY DEF Consider, At, budgetVars
<1>2. token_budget \in Int /\ input_budget \in Int /\ draft_input_budget \in Int
  BY Given
<1>3. left[r] + drafts[r] \in Int /\ input_budget - DraftSlots \in Int
  <2>1. left[r] \in 0 .. MaxPrompt /\ drafts[r] \in 0 .. MaxDrafts
    BY DEF StepInv, RequestsTyped
  <2>2. QED
    BY <1>2, <2>1, Limited
<1>4. PICK most \in Int : /\ most = Least({left[r] + drafts[r], token_budget, input_budget - DraftSlots})
                         /\ most <= token_budget /\ most <= input_budget - DraftSlots
  <2>1. PICK a \in Int, b \in Int, c \in Int :
          a = left[r] + drafts[r] /\ b = token_budget /\ c = input_budget - DraftSlots
    BY <1>2, <1>3
  <2>2. /\ Least({a, b, c}) \in {a, b, c} /\ Least({a, b, c}) <= b /\ Least({a, b, c}) <= c
    BY LeastOfThree
  <2>3. Least({a, b, c}) \in Int
    BY <2>2
  <2>4. QED
    BY <2>1, <2>2, <2>3
<1>5. n \in Int /\ n <= most
  BY <1>1, <1>4, WithinShares
<1>6. n <= token_budget /\ n + DraftSlots <= input_budget
  BY <1>2, <1>4, <1>5, Limited
<1>7. DraftInput <= draft_input_budget
  BY <1>1, <1>2, Limited DEF InputsExhausted
<1>8. step.paused # "all"
  <2>1. phase # "idle"
    BY <1>1, FourPasses
  <2>2. QED
    BY <1>1, <2>1 DEF Balanced
<1>9. Scheduled' = Scheduled /\ TokensOf(Req)' = TokensOf(Req) /\ Budget' = Budget
  BY <1>1 DEF Scheduled, TokensOf, Budget
<1>10. QED
  BY <1>1, <1>6, <1>7, <1>8, <1>9 DEF Balanced

(* n tokens go to one more request. *)
LEMMA BalancedSpend ==
  ASSUME StepInv, Balanced, phase # "idle", boundary = {}, boundary' = {},
         NEW r \in Req, r \notin Scheduled, NEW n \in 1 .. InputCap,
         num_scheduled_tokens' \in [Req -> 0 .. InputCap], num_scheduled_tokens'[r] = n,
         \A q \in Req \ {r} : num_scheduled_tokens'[q] = num_scheduled_tokens[q],
         Scheduled' = Scheduled \cup {r},
         step' = step, num_new_tokens' = 0, step.paused # "all",
         n <= token_budget, n + DraftSlots <= input_budget, DraftInput <= draft_input_budget,
         Spend(n)
  PROVE  Balanced'
<1>1. /\ TokensOf(Req)' = TokensOf(Req) + n
      /\ DraftSlots * Cardinality(Scheduled') = DraftSlots * Cardinality(Scheduled) + DraftSlots
      /\ DraftInput * Cardinality(Scheduled') = DraftInput * Cardinality(Scheduled) + DraftInput
  BY OneMore
<1>2. /\ token_budget' = token_budget - n /\ input_budget' = input_budget - (n + DraftSlots)
      /\ draft_input_budget' = draft_input_budget - DraftInput
  BY DEF Spend
<1>3. Budget' = Budget /\ Budget \in Int
  BY Limited DEF Budget, StepInv, ControlsTyped, StepTypes
<1>4. /\ input_budget = InputCap - TokensOf(Req) - DraftSlots * Cardinality(Scheduled)
      /\ draft_input_budget = InputCap - DraftInput * Cardinality(Scheduled)
      /\ token_budget = Budget - TokensOf(Req)
      /\ step.cap \in {TokenCap, InputCap}
  BY DEF Balanced
<1>5. /\ TokensOf(Req) \in Int
      /\ DraftSlots * Cardinality(Scheduled) \in Nat /\ DraftInput * Cardinality(Scheduled) \in Nat
      /\ token_budget \in Int /\ input_budget \in Int /\ draft_input_budget \in Int
      /\ n \in Int /\ n > 0
  BY Given
<1>6. PICK x \in Nat, y \in Nat : /\ x = DraftSlots * Cardinality(Scheduled)
                                  /\ y = DraftInput * Cardinality(Scheduled)
  BY <1>5
<1>7. /\ DraftSlots * Cardinality(Scheduled') = x + DraftSlots
      /\ DraftInput * Cardinality(Scheduled') = y + DraftInput
      /\ input_budget = InputCap - TokensOf(Req) - x /\ draft_input_budget = InputCap - y
  BY <1>1, <1>4, <1>6
<1>8. /\ token_budget' >= 0 /\ input_budget' >= 0 /\ draft_input_budget' >= 0
      /\ input_budget' = InputCap - TokensOf(Req)' - (x + DraftSlots)
      /\ draft_input_budget' = InputCap - (y + DraftInput)
      /\ token_budget' = Budget' - TokensOf(Req)'
  BY <1>1, <1>2, <1>3, <1>4, <1>5, <1>7, Limited
<1>9. ~(num_new_tokens' > 0)
  OBVIOUS
<1>10. QED
  BY <1>4, <1>7, <1>8, <1>9 DEF Balanced

LEMMA BalancedServe ==
  ASSUME StepInv, Balanced, Serve
  PROVE  Balanced'
<1>1. num_new_tokens > 0 /\ Advance
  BY DEF Serve
<1>2. PICK r \in Req : r = running[req_index]
  BY <1>1, AtCursor
<1>3. /\ num_scheduled_tokens' = [num_scheduled_tokens EXCEPT ![r] = num_new_tokens]
      /\ Spend(num_new_tokens) /\ UNCHANGED <<step, boundary>>
  BY <1>2 DEF Serve
<1>4. /\ phase \in RunningPasses /\ boundary = {} /\ r \notin Scheduled
      /\ num_new_tokens \in 1 .. InputCap
  BY <1>1, <1>2, AtCursor
<1>5. PICK n \in 1 .. InputCap : n = num_new_tokens
  BY <1>4
<1>6. num_scheduled_tokens \in [Req -> 0 .. InputCap]
  BY DEF StepInv, SharesTyped
<1>7. n \in 0 .. InputCap
  BY Limited
<1>8. /\ num_scheduled_tokens' \in [Req -> 0 .. InputCap] /\ num_scheduled_tokens'[r] = n
      /\ \A q \in Req \ {r} : num_scheduled_tokens'[q] = num_scheduled_tokens[q]
  BY <1>3, <1>5, <1>6, <1>7
<1>9. Scheduled' = Scheduled \cup {r}
  BY <1>3, <1>4, <1>6 DEF Scheduled
<1>10. phase # "idle"
  BY <1>4, FourPasses
<1>11. step.paused # "all"
  BY <1>1, <1>10 DEF Balanced
<1>12. n <= token_budget /\ n + DraftSlots <= input_budget /\ DraftInput <= draft_input_budget
  BY <1>1, <1>5 DEF Balanced
<1>13. num_new_tokens' = 0
  BY <1>1 DEF Advance
<1>14. Spend(n) /\ step' = step /\ boundary' = {}
  BY <1>3, <1>4, <1>5
<1>15. QED
  BY <1>4, <1>8, <1>9, <1>10, <1>11, <1>12, <1>13, <1>14, BalancedSpend

LEMMA BalancedEvict ==
  ASSUME StepInv, Balanced, Evict
  PROVE  Balanced'
<1>1. PICK v \in Req :
        /\ TakeBack(v) /\ new = {} /\ Scheduled' = Scheduled \ {v}
        /\ phase \in {"initial", "reserve", "fallback"}
  BY EvictStandings
<1>2. num_new_tokens > 0 /\ UNCHANGED <<step, boundary>>
  BY DEF Evict
<1>3. num_new_tokens' = 0 \/ num_new_tokens' = num_new_tokens
  BY DEF Evict, EndRunning, GoOn
<1>4. Budget' = Budget /\ Budget \in Int
  BY <1>2, Limited DEF Budget, StepInv, ControlsTyped, StepTypes
<1>5. /\ token_budget \in Int /\ input_budget \in Int /\ draft_input_budget \in Int
      /\ TokensOf(Req) \in Int /\ num_new_tokens \in Nat
      /\ DraftSlots * Cardinality(Scheduled) \in Nat /\ DraftInput * Cardinality(Scheduled) \in Nat
  BY Given
<1>6. boundary = {}
  BY <1>2, AtCursor
<1>7. /\ token_budget >= 0 /\ input_budget >= 0 /\ draft_input_budget >= 0
      /\ input_budget = InputCap - TokensOf(Req) - DraftSlots * Cardinality(Scheduled)
      /\ draft_input_budget = InputCap - DraftInput * Cardinality(Scheduled)
      /\ token_budget = Budget - TokensOf(Req)
      /\ step.cap \in {TokenCap, InputCap} /\ step.paused # "all"
      /\ num_new_tokens <= token_budget /\ num_new_tokens + DraftSlots <= input_budget
      /\ DraftInput <= draft_input_budget
  BY <1>1, <1>2, <1>6 DEF Balanced
<1>8. /\ token_budget' >= token_budget /\ input_budget' >= input_budget
      /\ draft_input_budget' >= draft_input_budget
      /\ token_budget' \in Int /\ input_budget' \in Int /\ draft_input_budget' \in Int
      /\ input_budget' = InputCap - TokensOf(Req)' - DraftSlots * Cardinality(Scheduled')
      /\ draft_input_budget' = InputCap - DraftInput * Cardinality(Scheduled')
      /\ token_budget' = Budget - TokensOf(Req)'
  <2>1. CASE ByPriority /\ v \in Scheduled
    <3>1. /\ num_scheduled_tokens' = [num_scheduled_tokens EXCEPT ![v] = 0]
          /\ Refund(num_scheduled_tokens[v])
      BY <1>1, <2>1 DEF TakeBack, scheduled_running
    <3>2. /\ TokensOf(Req)' = TokensOf(Req) - num_scheduled_tokens[v]
          /\ num_scheduled_tokens[v] \in Nat
          /\ DraftSlots * Cardinality(Scheduled') = DraftSlots * Cardinality(Scheduled) - DraftSlots
          /\ DraftInput * Cardinality(Scheduled') = DraftInput * Cardinality(Scheduled) - DraftInput
      BY <1>1, <2>1, <3>1, OneLess
    <3>3. PICK x \in Nat, y \in Nat, k \in Nat :
            /\ x = DraftSlots * Cardinality(Scheduled) /\ y = DraftInput * Cardinality(Scheduled)
            /\ k = num_scheduled_tokens[v]
      BY <1>5, <3>2
    <3>4. /\ DraftSlots * Cardinality(Scheduled') = x - DraftSlots
          /\ DraftInput * Cardinality(Scheduled') = y - DraftInput
          /\ input_budget = InputCap - TokensOf(Req) - x /\ draft_input_budget = InputCap - y
          /\ TokensOf(Req)' = TokensOf(Req) - k
      BY <1>7, <3>2, <3>3
    <3>5. /\ token_budget' = token_budget + k
          /\ input_budget' = input_budget + (k + DraftSlots)
          /\ draft_input_budget' = draft_input_budget + DraftInput
      BY <3>1, <3>3 DEF Refund
    <3>6. /\ token_budget' >= token_budget /\ input_budget' >= input_budget
          /\ draft_input_budget' >= draft_input_budget
          /\ token_budget' \in Int /\ input_budget' \in Int /\ draft_input_budget' \in Int
          /\ input_budget' = InputCap - TokensOf(Req)' - (x - DraftSlots)
          /\ draft_input_budget' = InputCap - (y - DraftInput)
          /\ token_budget' = Budget - TokensOf(Req)'
      BY <1>4, <1>5, <1>7, <3>4, <3>5, Limited
    <3>7. QED
      BY <3>4, <3>6
  <2>2. CASE ~(ByPriority /\ v \in Scheduled)
    <3>1. UNCHANGED <<num_scheduled_tokens, budgetVars>>
      BY <1>1, <2>2 DEF TakeBack, scheduled_running
    <3>2. /\ UNCHANGED <<token_budget, input_budget, draft_input_budget>>
          /\ TokensOf(Req)' = TokensOf(Req) /\ Scheduled' = Scheduled
      BY <3>1 DEF budgetVars, TokensOf, Scheduled
    <3>3. QED
      BY <1>5, <1>7, <3>2
  <2>3. QED
    BY <2>1, <2>2
<1>9. /\ token_budget' >= 0 /\ input_budget' >= 0 /\ draft_input_budget' >= 0
      /\ num_new_tokens' > 0 => /\ num_new_tokens' <= token_budget'
                                /\ num_new_tokens' + DraftSlots <= input_budget'
                                /\ DraftInput <= draft_input_budget'
  BY <1>3, <1>5, <1>7, <1>8, Limited
<1>10. QED
  BY <1>2, <1>4, <1>7, <1>8, <1>9 DEF Balanced

LEMMA BalancedAdmit ==
  ASSUME StepInv, Balanced, NEW r \in Req, NEW n \in 1 .. InputCap, NEW need \in 1 .. MaxPrompt,
         Admit(r, need, n)
  PROVE  Balanced'
<1>1. /\ MayAdmit(r) /\ Enter(r, need, n) /\ Spend(n) /\ UNCHANGED boundary
  BY DEF Admit
<1>2. need \in 0 .. MaxPrompt
  OBVIOUS
<1>3. /\ phase = "waiting" /\ preempted = {} /\ boundary = {} /\ r \notin Scheduled
      /\ num_scheduled_tokens'[r] = n
      /\ \A q \in Req \ {r} : num_scheduled_tokens'[q] = num_scheduled_tokens[q]
      /\ num_scheduled_tokens' \in [Req -> 0 .. InputCap]
      /\ Scheduled' = Scheduled \cup {r}
  BY <1>1, <1>2, EnterStandings
<1>4. token_budget > 0 /\ ~InputsExhausted
  BY <1>1 DEF MayAdmit, Room
<1>5. /\ token_budget \in Int /\ input_budget \in Int /\ draft_input_budget \in Int
  BY Given
<1>6. PICK padded \in {0, IF need = 1 THEN MaxDrafts ELSE 0} :
        n \in Shares(Least({token_budget, input_budget - DraftSlots, need + padded}))
  BY DEF Admit
<1>7. PICK a \in Int, b \in Int, c \in Int :
        a = token_budget /\ b = input_budget - DraftSlots /\ c = need + padded
  BY <1>5, <1>6, Limited
<1>8. /\ Least({a, b, c}) \in {a, b, c} /\ Least({a, b, c}) <= a /\ Least({a, b, c}) <= b
  BY LeastOfThree
<1>9. PICK most \in Int : most = Least({a, b, c}) /\ most <= a /\ most <= b
  BY <1>8
<1>10. n \in Shares(most)
  BY <1>6, <1>7, <1>9
<1>11. n <= most
  BY <1>10, WithinShares
<1>12. n <= token_budget /\ n + DraftSlots <= input_budget
  BY <1>5, <1>7, <1>9, <1>11, Limited
<1>13. DraftInput <= draft_input_budget
  BY <1>4, <1>5, Limited DEF InputsExhausted
<1>14. step.paused # "all"
  BY <1>3, <1>4 DEF Balanced
<1>15. step' = step /\ num_new_tokens' = 0
  BY <1>1, <1>3, FourPasses DEF Enter, passVars, StepInv, PassFits
<1>16. boundary' = {} /\ phase # "idle"
  BY <1>1, <1>3
<1>17. QED
  BY <1>1, <1>3, <1>12, <1>13, <1>14, <1>15, <1>16, BalancedSpend

LEMMA BalancedAdmitBoundary ==
  ASSUME StepInv, Balanced, NEW r \in Req, AdmitBoundary(r)
  PROVE  Balanced'
<1>1. /\ MayAdmit(r) /\ Enter(r, 0, 1) /\ boundary' = {r} /\ token_budget' = 0
      /\ input_budget' = input_budget - (1 + DraftSlots)
      /\ draft_input_budget' = draft_input_budget - DraftInput
  BY DEF AdmitBoundary, MayAdmitBoundary
<1>2. 0 \in 0 .. MaxPrompt /\ 1 \in 1 .. InputCap
  BY Limited
<1>3. /\ phase = "waiting" /\ phase' = "waiting" /\ preempted = {} /\ boundary = {} /\ r \notin Scheduled
      /\ num_scheduled_tokens'[r] = 1
      /\ \A q \in Req \ {r} : num_scheduled_tokens'[q] = num_scheduled_tokens[q]
      /\ num_scheduled_tokens' \in [Req -> 0 .. InputCap]
      /\ Scheduled' = Scheduled \cup {r}
  BY <1>1, <1>2, EnterStandings
<1>4. token_budget > 0 /\ ~InputsExhausted
  BY <1>1 DEF MayAdmit, Room
<1>5. /\ token_budget \in Int /\ input_budget \in Int /\ draft_input_budget \in Int
      /\ TokensOf(Req) \in Int
      /\ DraftSlots * Cardinality(Scheduled) \in Nat /\ DraftInput * Cardinality(Scheduled) \in Nat
  BY Given
<1>6. input_budget >= 1 + DraftSlots /\ draft_input_budget >= DraftInput
  BY <1>4, <1>5, Limited DEF InputsExhausted
<1>7. /\ TokensOf(Req)' = TokensOf(Req) + 1
      /\ DraftSlots * Cardinality(Scheduled') = DraftSlots * Cardinality(Scheduled) + DraftSlots
      /\ DraftInput * Cardinality(Scheduled') = DraftInput * Cardinality(Scheduled) + DraftInput
  BY <1>2, <1>3, OneMore
<1>8. PICK x \in Nat, y \in Nat : /\ x = DraftSlots * Cardinality(Scheduled)
                                  /\ y = DraftInput * Cardinality(Scheduled)
  BY <1>5
<1>9. /\ DraftSlots * Cardinality(Scheduled') = x + DraftSlots
      /\ DraftInput * Cardinality(Scheduled') = y + DraftInput
      /\ input_budget = InputCap - TokensOf(Req) - x /\ draft_input_budget = InputCap - y
      /\ step.cap \in {TokenCap, InputCap}
  BY <1>3, <1>7, <1>8 DEF Balanced
<1>10. /\ token_budget' >= 0 /\ input_budget' >= 0 /\ draft_input_budget' >= 0
       /\ input_budget' = InputCap - TokensOf(Req)' - (x + DraftSlots)
       /\ draft_input_budget' = InputCap - (y + DraftInput)
  BY <1>1, <1>5, <1>6, <1>7, <1>9, Limited
<1>11. step' = step /\ num_new_tokens' = 0 /\ boundary' # {}
  BY <1>1, <1>3, FourPasses DEF Enter, passVars, StepInv, PassFits
<1>12. ~(num_new_tokens' > 0)
  BY <1>11
<1>13. QED
  BY <1>1, <1>9, <1>10, <1>11, <1>12 DEF Balanced

LEMMA BalancedBegin ==
  ASSUME StepInv, BeginSchedule
  PROVE  Balanced'
<1>1. PICK s \in Controls :
        step' = s /\ token_budget' = IF s.paused = "all" THEN 0 ELSE s.cap
  BY DEF BeginSchedule
<1>2. /\ phase = "idle" /\ input_budget' = InputCap /\ draft_input_budget' = InputCap
      /\ UNCHANGED <<num_scheduled_tokens, boundary, num_new_tokens>>
  BY DEF BeginSchedule, passVars
<1>3. Scheduled = {} /\ boundary = {} /\ num_new_tokens = 0
  BY <1>2, WhenIdle
<1>4. /\ TokensOf(Req) = 0 /\ DraftSlots * Cardinality(Scheduled) = 0
      /\ DraftInput * Cardinality(Scheduled) = 0
  BY <1>3, NoneGiven
<1>5. Scheduled' = Scheduled /\ TokensOf(Req)' = TokensOf(Req)
  BY <1>2 DEF Scheduled, TokensOf
<1>6. s.cap \in {TokenCap, InputCap}
  BY DEF Controls
<1>7. Budget' = token_budget' /\ token_budget' \in Nat
  BY <1>1, <1>6, Limited DEF Budget
<1>8. /\ input_budget' = InputCap - TokensOf(Req)' - DraftSlots * Cardinality(Scheduled')
      /\ draft_input_budget' = InputCap - DraftInput * Cardinality(Scheduled')
      /\ token_budget' = Budget' - TokensOf(Req)'
  <2>1. TokensOf(Req)' = 0 /\ DraftSlots * Cardinality(Scheduled') = 0
        /\ DraftInput * Cardinality(Scheduled') = 0
    BY <1>4, <1>5
  <2>2. PICK t \in Nat : t = token_budget' /\ Budget' = t
    BY <1>7
  <2>3. InputCap = InputCap - 0 - 0 /\ InputCap = InputCap - 0 /\ t = t - 0
    BY Limited
  <2>4. QED
    BY <1>2, <2>1, <2>2, <2>3
<1>9. num_new_tokens' = 0 /\ ~(num_new_tokens' > 0)
  BY <1>2, <1>3
<1>10. QED
  BY <1>1, <1>2, <1>6, <1>7, <1>8, <1>9, Limited DEF Balanced

(* Every step keeps the balance.                                           *)
LEMMA BalancedStep ==
  ASSUME StepInv, Balanced, [Next]_vars
  PROVE  Balanced'
<1>1. CASE UNCHANGED vars
  <2>1. /\ UNCHANGED <<token_budget, input_budget, draft_input_budget>>
        /\ UNCHANGED <<phase, num_new_tokens, step, num_scheduled_tokens, boundary>>
    BY <1>1 DEF vars, budgetVars, passVars, stepVars
  <2>2. Scheduled' = Scheduled /\ TokensOf(Req)' = TokensOf(Req) /\ Budget' = Budget
    BY <2>1 DEF Scheduled, TokensOf, Budget
  <2>3. QED
    BY <2>1, <2>2 DEF Balanced
<1>2. CASE EndPass \/ GiveUp
  <2>1. phase # "idle"
    BY <1>2, AtCursor, FourPasses DEF EndPass, GiveUp
  <2>2. num_new_tokens' = 0 /\ UNCHANGED <<budgetVars, step, num_scheduled_tokens, boundary>>
    BY <1>2 DEF EndPass, GiveUp, EndRunning, GoOn
  <2>3. QED
    BY <2>1, <2>2, BalancedKept
<1>3. CASE RecordLoras
  <2>1. phase # "idle" /\ num_new_tokens' = 0
        /\ UNCHANGED <<budgetVars, step, num_scheduled_tokens, boundary>>
    BY <1>3 DEF RecordLoras, GoOn
  <2>2. QED
    BY <2>1, BalancedKept
<1>4. CASE _update_after_schedule
  <2>1. phase' = "idle" /\ num_new_tokens' = 0
    BY <1>4 DEF _update_after_schedule, ClearStep
  <2>2. ~(num_new_tokens' > 0)
    BY <2>1
  <2>3. QED
    BY <2>1, <2>2 DEF Balanced
<1>5. CASE BeginSchedule \/ Serve \/ Evict
  BY <1>5, BalancedBegin, BalancedServe, BalancedEvict
<1>6. ASSUME NEW r \in Req, add_request(r) \/ update_from_output(r) PROVE Balanced'
  <2>1. phase = "idle" /\ phase' = "idle" /\ num_new_tokens' = num_new_tokens
    BY <1>6 DEF add_request, update_from_output, passVars
  <2>2. ~(num_new_tokens' > 0)
    BY <2>1, WhenIdle
  <2>3. QED
    BY <2>1, <2>2 DEF Balanced
<1>7. ASSUME NEW r \in Req, GoOver(r) \/ Refuse(r) PROVE Balanced'
  <2>1. phase # "idle"
    BY <1>7, FourPasses DEF GoOver, Refuse, At
  <2>2. num_new_tokens' = 0 /\ UNCHANGED <<budgetVars, step, num_scheduled_tokens, boundary>>
    BY <1>7 DEF GoOver, Refuse, Advance, stepVars
  <2>3. QED
    BY <2>1, <2>2, BalancedKept
<1>8. ASSUME NEW r \in Req, SkipWaiting(r) PROVE Balanced'
  <2>1. phase = "waiting" /\ num_new_tokens' = num_new_tokens
        /\ UNCHANGED <<budgetVars, step, num_scheduled_tokens, boundary>>
    BY <1>8 DEF SkipWaiting, Room, passVars
  <2>2. num_new_tokens = 0
    BY <2>1, FourPasses DEF StepInv, PassFits
  <2>3. QED
    BY <2>1, <2>2, BalancedKept
<1>9. ASSUME NEW r \in Req, AdmitBoundary(r) PROVE Balanced'
  BY <1>9, BalancedAdmitBoundary
<1>10. ASSUME NEW r \in Req, NEW n \in 1 .. InputCap, Consider(r, n) PROVE Balanced'
  BY <1>10, BalancedConsider
<1>11. ASSUME NEW r \in Req, NEW n \in 1 .. InputCap, NEW need \in 1 .. MaxPrompt, Admit(r, need, n)
       PROVE  Balanced'
  BY <1>11, BalancedAdmit
<1>12. ASSUME NEW need \in 0 .. MaxPrompt, EndWaiting(need) PROVE Balanced'
  <2>1. phase # "idle" /\ num_new_tokens' = 0
        /\ UNCHANGED <<budgetVars, step, num_scheduled_tokens, boundary>>
    BY <1>12 DEF EndWaiting, GoOn
  <2>2. QED
    BY <2>1, BalancedKept
<1>13. QED
  BY <1>1, <1>2, <1>3, <1>4, <1>5, <1>6, <1>7, <1>8, <1>9, <1>10, <1>11, <1>12 DEF Next

-----------------------------------------------------------------------------
(* A step without work *)

LEMMA TurnsTyped ==
  ASSUME StepInv
  PROVE  /\ step.turn \in {"none", "decode", "prefill"} /\ step.legacy \in BOOLEAN
         /\ step.cap \in {0, TokenCap, InputCap} /\ defer_prefills \in BOOLEAN
BY DEF StepInv, ControlsTyped, StepTypes

(* Without work the budgets are full. *)
LEMMA FullBudgets ==
  ASSUME StepInv, Balanced, Quiet
  PROVE  token_budget > 0 /\ ~InputsExhausted /\ boundary = {}
<1>1. Scheduled = {} /\ phase # "idle" /\ step.paused # "all"
  BY DEF Quiet
<1>2. boundary = {}
  BY <1>1 DEF StepInv, Listed
<1>3. /\ TokensOf(Req) = 0 /\ DraftSlots * Cardinality(Scheduled) = 0
      /\ DraftInput * Cardinality(Scheduled) = 0
  BY <1>1, NoneGiven
<1>4. /\ input_budget = InputCap - TokensOf(Req) - DraftSlots * Cardinality(Scheduled)
      /\ draft_input_budget = InputCap - DraftInput * Cardinality(Scheduled)
      /\ token_budget = Budget - TokensOf(Req)
      /\ step.cap \in {TokenCap, InputCap}
  BY <1>1, <1>2 DEF Balanced
<1>5. Budget = step.cap
  BY <1>1 DEF Budget
<1>6. PICK c \in Nat : c = step.cap /\ c > 0
  BY <1>4, Limited
<1>7. token_budget = c /\ input_budget = InputCap /\ draft_input_budget = InputCap
  <2>1. token_budget = c - 0 /\ input_budget = InputCap - 0 - 0 /\ draft_input_budget = InputCap - 0
    BY <1>3, <1>4, <1>5, <1>6
  <2>2. QED
    BY <2>1, <1>6, Limited
<1>8. QED
  BY <1>2, <1>6, <1>7, Limited DEF InputsExhausted

(* The way on is as the step directs. *)
LEMMA DirectedGoOn ==
  ASSUME StepInv, Directed, phase # "idle", NEW to, NEW deferring, GoOn(to, deferring),
         \/ to = "loras" \/ to = "waiting"
         \/ to = FollowingPass(deferring)
              /\ phase \in {"initial", "loras", "waiting", "reserve", "interleave", "fallback", "leftover"},
         ~step.legacy /\ step.turn # "decode" => ~deferring,
         UNCHANGED step
  PROVE  Directed'
<1>1. /\ phase' = to /\ defer_prefills' = (deferring /\ to # "fallback")
  BY DEF GoOn, DeferringIn
<1>2. /\ to \notin {"idle", "initial"}
      /\ to = "reserve" => step.reserve
      /\ to = "fallback" => step.turn = "decode"
      /\ to = "leftover" => step.turn = "prefill"
  <2>1. CASE to = "loras" \/ to = "waiting"
    BY <2>1
  <2>2. CASE /\ to = FollowingPass(deferring)
             /\ phase \in {"initial", "loras", "waiting", "reserve", "interleave", "fallback", "leftover"}
    <3>1. /\ Wanted("reserve", deferring) => step.reserve
          /\ Wanted("fallback", deferring) => step.turn = "decode"
          /\ Wanted("leftover", deferring) => step.turn = "prefill"
      BY DEF Wanted
    <3>2. QED
      BY <2>2, <3>1, PassThatFollows
  <2>3. QED
    BY <2>1, <2>2
<1>3. QED
  BY <1>1, <1>2 DEF Directed

(* Every step keeps to what the passes say of it.                          *)
LEMMA DirectedStep ==
  ASSUME StepInv, Directed, [Next]_vars
  PROVE  Directed'
<1>. DEFINE Others == {"initial", "loras", "waiting", "reserve", "interleave", "fallback", "leftover"}
<1>1. CASE UNCHANGED vars
  BY <1>1 DEF Directed, vars, passVars, stepVars
<1>2. ASSUME phase \in RunningPasses, EndRunning, UNCHANGED step PROVE Directed'
  <2>1. PICK to : to = (IF phase = "initial" THEN "loras" ELSE FollowingPass(defer_prefills))
    OBVIOUS
  <2>2. GoOn(to, defer_prefills)
    BY <1>2, <2>1 DEF EndRunning
  <2>3. phase \in Others /\ phase # "idle"
    BY <1>2, FourPasses
  <2>4. \/ to = "loras" \/ to = "waiting" \/ (to = FollowingPass(defer_prefills) /\ phase \in Others)
    BY <2>1, <2>3
  <2>5. ~step.legacy /\ step.turn # "decode" => ~defer_prefills
    BY <2>3 DEF Directed
  <2>6. QED
    BY <1>2, <2>2, <2>3, <2>4, <2>5, DirectedGoOn
<1>3. CASE EndPass
  BY <1>2, <1>3 DEF EndPass
<1>4. CASE GiveUp
  BY <1>2, <1>4, AtCursor DEF GiveUp
<1>5. CASE Evict
  <2>1. CASE Victim = req_index
    BY <1>2, <1>5, <2>1, AtCursor DEF Evict
  <2>2. CASE Victim # req_index
    <3>1. UNCHANGED <<phase, defer_prefills, step, visited, scheduled_loras>>
      BY <1>5, <2>2 DEF Evict
    <3>2. QED
      BY <3>1 DEF Directed
  <2>3. QED
    BY <2>1, <2>2
<1>6. CASE Serve
  <2>1. UNCHANGED <<phase, defer_prefills, step>> /\ phase # "idle"
    BY <1>6, AtCursor, FourPasses DEF Serve
  <2>2. QED
    BY <2>1 DEF Directed
<1>7. CASE RecordLoras
  <2>1. PICK to : to = IF preempted = {} /\ step.paused = "no" THEN "waiting"
                       ELSE FollowingPass(defer_prefills)
    OBVIOUS
  <2>2. GoOn(to, defer_prefills) /\ phase = "loras" /\ UNCHANGED step
    BY <1>7, <2>1 DEF RecordLoras
  <2>3. \/ to = "loras" \/ to = "waiting" \/ (to = FollowingPass(defer_prefills) /\ phase \in Others)
    BY <2>1, <2>2
  <2>4. ~step.legacy /\ step.turn # "decode" => ~defer_prefills
    BY <2>2 DEF Directed
  <2>5. QED
    BY <2>2, <2>3, <2>4, DirectedGoOn
<1>8. ASSUME NEW need \in 0 .. MaxPrompt, EndWaiting(need) PROVE Directed'
  <2>1. PICK deferring \in {defer_prefills, StillDeferred(need)} :
          GoOn(FollowingPass(deferring), deferring)
    BY <1>8 DEF EndWaiting
  <2>2. phase = "waiting" /\ UNCHANGED step
    BY <1>8 DEF EndWaiting
  <2>3. ~step.legacy /\ step.turn # "decode" => ~deferring
    BY <2>1, <2>2 DEF Directed, StillDeferred
  <2>4. PICK to : to = FollowingPass(deferring)
    OBVIOUS
  <2>5. \/ to = "loras" \/ to = "waiting" \/ (to = FollowingPass(deferring) /\ phase \in Others)
    BY <2>2, <2>4
  <2>6. GoOn(to, deferring) /\ phase # "idle"
    BY <2>1, <2>2, <2>4
  <2>7. QED
    BY <2>2, <2>3, <2>5, <2>6, DirectedGoOn
<1>9. CASE _update_after_schedule
  BY <1>9 DEF _update_after_schedule, ClearStep, Directed
<1>10. CASE BeginSchedule
  <2>1. PICK s \in Controls :
          /\ step' = s /\ defer_prefills' = (s.legacy \/ s.turn = "decode")
          /\ phase' = IF s.reserve THEN "loras" ELSE "initial"
    BY <1>10 DEF BeginSchedule
  <2>2. QED
    BY <2>1 DEF Directed
<1>11. ASSUME NEW r \in Req,
              add_request(r) \/ update_from_output(r) \/ GoOver(r) \/ Refuse(r) \/ SkipWaiting(r)
       PROVE  Directed'
  <2>1. UNCHANGED <<phase, defer_prefills, step, scheduled_loras>>
    BY <1>11 DEF add_request, update_from_output, GoOver, Refuse, SkipWaiting, stepVars
  <2>2. phase = "idle" => visited' = visited
    BY <1>11, FourPasses DEF add_request, update_from_output, GoOver, Refuse, At, SkipWaiting, Room, passVars
  <2>3. QED
    BY <2>1, <2>2 DEF Directed
<1>12. ASSUME NEW r \in Req, NEW n \in 1 .. InputCap, Consider(r, n) PROVE Directed'
  <2>1. UNCHANGED <<phase, defer_prefills, step, scheduled_loras, visited>>
    BY <1>12 DEF Consider
  <2>2. QED
    BY <2>1 DEF Directed
<1>13. ASSUME NEW r \in Req, AdmitBoundary(r) PROVE Directed'
  <2>1. UNCHANGED <<phase, defer_prefills, step>> /\ phase = "waiting"
    BY <1>13 DEF AdmitBoundary, MayAdmitBoundary, MayAdmit, Room, Enter
  <2>2. QED
    BY <2>1 DEF Directed
<1>14. ASSUME NEW r \in Req, NEW n \in 1 .. InputCap, NEW need \in 1 .. MaxPrompt, Admit(r, need, n)
       PROVE  Directed'
  <2>1. UNCHANGED <<phase, step>> /\ phase = "waiting" /\ defer_prefills' = StillDeferred(need)
    BY <1>14 DEF Admit, MayAdmit, Room, Enter
  <2>2. QED
    BY <2>1 DEF Directed, StillDeferred
<1>15. QED
  BY <1>1, <1>3, <1>4, <1>5, <1>6, <1>7, <1>8, <1>9, <1>10, <1>11, <1>12, <1>13, <1>14 DEF Next

Goings == {"loras", "waiting", "reserve", "interleave", "fallback", "leftover"}

(* A pass without work and with budget ends behind the last request. *)
LEMMA PassIsThrough ==
  ASSUME StepInv, Balanced, Quiet, Heard, EndPass
  PROVE  \A r \in step.at_start :
           r \in considered \/ service_class \notin {"any", ClassOf(r)} \/ Deferred(r)
<1>1. token_budget > 0 /\ ~InputsExhausted
  BY FullBudgets
<1>2. phase \in RunningPasses /\ num_new_tokens = 0
      /\ \A r \in Range(running) : At(r) => ~NotInPass(r) /\ InputsExhausted
  BY DEF EndPass
<1>3. ~(req_index <= Len(running))
  <2>1. SUFFICES ASSUME req_index <= Len(running) PROVE FALSE
    OBVIOUS
  <2>2. req_index \in DOMAIN running /\ running[req_index] \in Range(running)
    BY <2>1, RunningPlaces
  <2>3. At(running[req_index])
    BY <1>1, <1>2, <2>1 DEF At
  <2>4. QED
    BY <1>1, <1>2, <2>2, <2>3
<1>4. \A i \in DOMAIN running : i < req_index
  BY <1>3, RunningPlaces
<1>5. Range(running) \subseteq visited
  BY <1>4 DEF Range, StepInv, Passed
<1>6. step.at_start \subseteq visited
  BY <1>5 DEF Heard
<1>7. QED
  BY <1>2, <1>6 DEF Heard

(* What the passes over all classes, or over one, amount to. *)
LEMMA PassAsked ==
  ASSUME StepInv, Balanced, Directed, Quiet, Heard, EndPass
  PROVE  /\ FirstAsked
         /\ phase \in {"fallback", "leftover"} => step.at_start \subseteq considered
<1>1. \A r \in step.at_start :
        r \in considered \/ service_class \notin {"any", ClassOf(r)} \/ Deferred(r)
  BY PassIsThrough
<1>2. phase \in {"initial", "reserve", "interleave", "fallback", "leftover"}
  BY FourPasses DEF EndPass
<1>3. step.turn \in {"none", "decode", "prefill"} /\ ~step.legacy
  BY TurnsTyped DEF Quiet
<1>4. step.turn # "decode" => ~defer_prefills
  BY <1>2, <1>3 DEF Directed
<1>5. CASE phase \in {"initial", "reserve"}
  <2>1. service_class = (IF step.turn = "prefill" THEN "prefill" ELSE "any")
    BY <1>5 DEF service_class
  <2>2. ASSUME NEW r \in step.at_start, step.turn \in {"none", ClassOf(r)} PROVE r \in considered
    <3>1. service_class \in {"any", ClassOf(r)}
      BY <1>3, <2>1, <2>2
    <3>2. ~Deferred(r)
      BY <1>4, <2>2 DEF Deferred, ClassOf
    <3>3. QED
      BY <1>1, <3>1, <3>2, Zenon
  <2>3. QED
    BY <1>5, <2>2 DEF FirstAsked
<1>6. CASE phase = "interleave"
  BY <1>6 DEF Heard
<1>7. CASE phase = "fallback"
  <2>1. FirstAsked /\ step.turn = "decode" /\ ~defer_prefills
    BY <1>7 DEF Heard, Directed
  <2>2. service_class = "prefill"
    BY <1>7 DEF service_class
  <2>3. ASSUME NEW r \in step.at_start PROVE r \in considered
    <3>1. CASE ClassOf(r) = "prefill"
      <4>1. ~Deferred(r) /\ service_class \in {"any", ClassOf(r)}
        BY <2>1, <2>2, <3>1 DEF Deferred
      <4>2. QED
        BY <1>1, <4>1, Zenon
    <3>2. CASE ClassOf(r) = "decode"
      BY <2>1, <3>2 DEF FirstAsked
    <3>3. QED
      BY <3>1, <3>2 DEF ClassOf
  <2>4. QED
    BY <2>1, <2>3
<1>8. CASE phase = "leftover"
  <2>1. FirstAsked /\ step.turn = "prefill" /\ ~defer_prefills
    BY <1>4, <1>8 DEF Heard, Directed
  <2>2. service_class = "decode"
    BY <1>8 DEF service_class
  <2>3. ASSUME NEW r \in step.at_start PROVE r \in considered
    <3>1. CASE ClassOf(r) = "decode"
      <4>1. ~Deferred(r) /\ service_class \in {"any", ClassOf(r)}
        BY <2>1, <2>2, <3>1 DEF Deferred
      <4>2. QED
        BY <1>1, <4>1, Zenon
    <3>2. CASE ClassOf(r) = "prefill"
      BY <2>1, <3>2 DEF FirstAsked
    <3>3. QED
      BY <3>1, <3>2 DEF ClassOf
  <2>4. QED
    BY <2>1, <2>3
<1>9. QED
  BY <1>2, <1>5, <1>6, <1>7, <1>8

(* Where no pass follows, none of the wanted ones was left out. *)
LEMMA NoneForgotten ==
  ASSUME StepInv, Balanced, Quiet, NEW to, NEW deferring, to = FollowingPass(deferring),
         phase \in Goings,
         phase \in {"loras", "waiting"} => step.reserve \/ FirstAsked,
         phase \notin {"loras", "waiting"} => FirstAsked,
         phase \in {"fallback", "leftover"} => step.at_start \subseteq considered
  PROVE  /\ to \in {"reserve", "interleave", "fallback", "leftover", "done"}
         /\ to # "reserve" => FirstAsked
         /\ to = "done" => step.at_start \subseteq considered
<1>1. Scheduled = {} /\ ~step.legacy /\ token_budget > 0
  BY FullBudgets DEF Quiet
<1>2. /\ (Wanted("reserve", deferring)) <=> (step.reserve)
      /\ (Wanted("fallback", deferring)) <=> (step.turn = "decode")
      /\ (Wanted("leftover", deferring)) <=> (step.turn = "prefill")
  BY <1>1 DEF Wanted
<1>3. phase \in {"initial", "loras", "waiting", "reserve", "interleave", "fallback", "leftover"}
  BY DEF Goings
<1>4. /\ to \in {"reserve", "interleave", "fallback", "leftover", "done"}
      /\ phase \in {"loras", "waiting"} /\ to # "reserve" => ~step.reserve
      /\ phase \notin {"fallback", "leftover"} /\ to = "done" => step.turn # "decode" /\ step.turn # "prefill"
  BY <1>2, <1>3, PassThatFollows DEF Goings
<1>5. to # "reserve" => FirstAsked
  BY <1>4
<1>6. ASSUME to = "done" PROVE step.at_start \subseteq considered
  <2>1. CASE phase \in {"fallback", "leftover"}
    BY <2>1
  <2>2. CASE phase \notin {"fallback", "leftover"}
    <3>1. step.turn = "none"
      BY <1>4, <1>6, <2>2, TurnsTyped
    <3>2. QED
      BY <1>5, <1>6, <3>1 DEF FirstAsked
  <2>3. QED
    BY <2>1, <2>2
<1>7. QED
  BY <1>4, <1>5, <1>6

(* The next part of the step starts with what the ones before it heard. *)
LEMMA HeardGoOn ==
  ASSUME Heard, NEW to, NEW deferring, GoOn(to, deferring),
         UNCHANGED <<reqVars, step, considered>>, scheduled_loras' = {},
         to # "idle",
         to \in {"loras", "waiting"} => step.reserve \/ FirstAsked,
         to \in {"interleave", "fallback", "leftover", "done"} => FirstAsked,
         to = "done" => step.at_start \subseteq considered
  PROVE  Heard'
<1>1. phase' = to /\ visited' = {}
  BY DEF GoOn
<1>2. UNCHANGED <<running, prefill>> /\ UNCHANGED <<step, considered>>
  BY DEF reqVars
<1>3. FirstAsked' = FirstAsked
  BY <1>2 DEF FirstAsked, ClassOf
<1>4. QED
  BY <1>1, <1>2, <1>3 DEF Heard

(* A request is passed without work. *)
LEMMA HeardAdvance ==
  ASSUME Heard, NEW r \in Req, visited' = visited \cup {r},
         UNCHANGED <<phase, reqVars, step, defer_prefills, scheduled_loras>>,
         considered' = considered \/ considered' = considered \cup {r},
         \/ r \in considered' \/ r \notin step.at_start
         \/ service_class \notin {"any", ClassOf(r)} \/ Deferred(r)
  PROVE  Heard'
<1>1. UNCHANGED <<running, prefill>> /\ UNCHANGED <<phase, step, defer_prefills, scheduled_loras>>
  BY DEF reqVars
<1>2. considered \subseteq considered'
  OBVIOUS
<1>3. FirstAsked => FirstAsked'
  BY <1>1, <1>2 DEF FirstAsked, ClassOf
<1>4. /\ service_class' = service_class
      /\ \A q : ClassOf(q)' = ClassOf(q) /\ (Deferred(q)') <=> (Deferred(q))
  BY <1>1 DEF service_class, ClassOf, Deferred
<1>5. phase \in RunningPasses =>
        \A q \in visited' \cap step.at_start :
          q \in considered' \/ service_class \notin {"any", ClassOf(q)} \/ Deferred(q)
  BY <1>2 DEF Heard
<1>6. UNCHANGED <<step.at_start, Range(running)>> /\ (phase' \in RunningPasses) = (phase \in RunningPasses)
  BY <1>1
<1>7. (phase \in RunningPasses =>
        \A q \in visited \cap step.at_start :
          q \in considered \/ service_class \notin {"any", ClassOf(q)} \/ Deferred(q))'
  BY <1>1, <1>4, <1>5 DEF ClassOf, Deferred
<1>8. QED
  BY <1>1, <1>2, <1>3, <1>7 DEF Heard

(* Quiet is lost with the first request that is served or refused for lack *)
(* of blocks, and comes back only with the next call.                      *)
LEMMA QuietBefore ==
  ASSUME Quiet', phase # "idle", UNCHANGED <<step, num_scheduled_tokens, out_of_blocks>>,
         num_new_tokens = 0
  PROVE  Quiet
<1>1. Scheduled' = Scheduled
  BY DEF Scheduled
<1>2. QED
  BY <1>1 DEF Quiet

LEMMA HeardEndPass ==
  ASSUME StepInv, Balanced, Directed, Quiet => Heard, EndPass, Quiet'
  PROVE  Heard'
<1>1. /\ phase \in RunningPasses /\ num_new_tokens = 0 /\ EndRunning
      /\ UNCHANGED <<reqVars, budgetVars, step, num_scheduled_tokens, scheduled_loras,
                     considered, out_of_blocks>>
  BY DEF EndPass
<1>2. phase \in {"initial", "reserve", "interleave", "fallback", "leftover"}
  BY <1>1, FourPasses
<1>3. Quiet /\ Heard
  BY <1>1, <1>2, QuietBefore
<1>4. FirstAsked /\ (phase \in {"fallback", "leftover"} => step.at_start \subseteq considered)
  BY <1>3, PassAsked
<1>5. PICK to : to = (IF phase = "initial" THEN "loras" ELSE FollowingPass(defer_prefills))
  OBVIOUS
<1>6. GoOn(to, defer_prefills)
  BY <1>1, <1>5 DEF EndRunning
<1>7. scheduled_loras' = {} /\ UNCHANGED <<reqVars, step, considered>>
  BY <1>1, <1>3 DEF Heard
<1>8. CASE phase = "initial"
  <2>1. to = "loras"
    BY <1>5, <1>8
  <2>2. QED
    BY <1>3, <1>4, <1>6, <1>7, <2>1, HeardGoOn
<1>9. CASE phase # "initial"
  <2>1. phase \in Goings /\ phase \notin {"loras", "waiting"} /\ to = FollowingPass(defer_prefills)
    BY <1>2, <1>5, <1>9 DEF Goings
  <2>2. /\ to \in {"reserve", "interleave", "fallback", "leftover", "done"}
        /\ to = "done" => step.at_start \subseteq considered
    BY <1>3, <1>4, <2>1, NoneForgotten
  <2>3. QED
    BY <1>3, <1>4, <1>6, <1>7, <2>2, HeardGoOn
<1>10. QED
  BY <1>8, <1>9

LEMMA HeardRecordLoras ==
  ASSUME StepInv, Balanced, Directed, Quiet => Heard, RecordLoras, Quiet'
  PROVE  Heard'
<1>1. /\ phase = "loras" /\ UNCHANGED <<reqVars, step, num_scheduled_tokens, considered, out_of_blocks>>
      /\ scheduled_loras' = AdaptersOf(scheduled_running)
  BY DEF RecordLoras
<1>2. num_new_tokens = 0
  BY <1>1, FourPasses DEF StepInv, PassFits
<1>3. Quiet /\ Heard
  BY <1>1, <1>2, QuietBefore
<1>4. scheduled_loras' = {}
  BY <1>1, <1>3 DEF Quiet, scheduled_running, AdaptersOf
<1>5. step.reserve \/ FirstAsked
  BY <1>1, <1>3 DEF Heard
<1>6. PICK to : to = IF preempted = {} /\ step.paused = "no" THEN "waiting"
                     ELSE FollowingPass(defer_prefills)
  OBVIOUS
<1>7. GoOn(to, defer_prefills)
  BY <1>6 DEF RecordLoras
<1>8. CASE to = "waiting"
  <2>1. UNCHANGED <<reqVars, step, considered>>
    BY <1>1
  <2>2. QED
    BY <1>3, <1>4, <1>5, <1>7, <1>8, <2>1, HeardGoOn
<1>9. CASE to = FollowingPass(defer_prefills)
  <2>1. phase \in Goings
    BY <1>1 DEF Goings
  <2>2. /\ to \in {"reserve", "interleave", "fallback", "leftover", "done"}
        /\ to # "reserve" => FirstAsked
        /\ to = "done" => step.at_start \subseteq considered
    BY <1>1, <1>3, <1>5, <1>9, <2>1, NoneForgotten
  <2>3. UNCHANGED <<reqVars, step, considered>>
    BY <1>1
  <2>4. QED
    BY <1>3, <1>4, <1>7, <2>2, <2>3, HeardGoOn
<1>10. QED
  BY <1>6, <1>8, <1>9

LEMMA HeardEndWaiting ==
  ASSUME StepInv, Balanced, Directed, Quiet => Heard, NEW need \in 0 .. MaxPrompt,
         EndWaiting(need), Quiet'
  PROVE  Heard'
<1>1. /\ phase = "waiting"
      /\ UNCHANGED <<reqVars, step, num_scheduled_tokens, scheduled_loras, considered, out_of_blocks>>
  BY DEF EndWaiting
<1>2. num_new_tokens = 0
  BY <1>1, FourPasses DEF StepInv, PassFits
<1>3. Quiet /\ Heard
  BY <1>1, <1>2, QuietBefore
<1>4. scheduled_loras' = {} /\ UNCHANGED <<reqVars, step, considered>>
  BY <1>1, <1>3 DEF Heard
<1>5. step.reserve \/ FirstAsked
  BY <1>1, <1>3 DEF Heard
<1>6. PICK deferring \in {defer_prefills, StillDeferred(need)} :
        GoOn(FollowingPass(deferring), deferring)
  BY DEF EndWaiting
<1>7. PICK to : to = FollowingPass(deferring)
  OBVIOUS
<1>8. phase \in Goings
  BY <1>1 DEF Goings
<1>9. /\ to \in {"reserve", "interleave", "fallback", "leftover", "done"}
      /\ to # "reserve" => FirstAsked
      /\ to = "done" => step.at_start \subseteq considered
  BY <1>1, <1>3, <1>5, <1>7, <1>8, NoneForgotten
<1>10. GoOn(to, deferring)
  BY <1>6, <1>7
<1>11. QED
  BY <1>3, <1>4, <1>9, <1>10, HeardGoOn

LEMMA HeardGoOver ==
  ASSUME StepInv, Balanced, Quiet => Heard, NEW r \in Req, GoOver(r), Quiet'
  PROVE  Heard'
<1>1. /\ At(r) /\ NotInPass(r) /\ visited' = visited \cup {r}
      /\ UNCHANGED <<phase, reqVars, step, defer_prefills, scheduled_loras, considered,
                     num_scheduled_tokens, out_of_blocks>>
  BY DEF GoOver, At, Advance, stepVars
<1>2. Quiet /\ Heard
  BY <1>1, FourPasses, QuietBefore DEF At
<1>3. ~LoraFull(r)
  <2>1. MaxLoras \in Nat \ {0}
    <3>1. {MaxRunning, TokenCap, InputCap, MaxPrompt, MaxLoras} \subseteq Nat \ {0}
      BY StepAssumption DEF StepAssumption
    <3>2. QED
      BY <3>1
  <2>2. Cardinality(scheduled_loras) = 0
    BY <1>2, FS_EmptySet DEF Heard
  <2>3. QED
    BY <2>1, <2>2 DEF LoraFull
<1>4. \/ (ComputeShare \/ step.interleave) /\ r \notin step.at_start
      \/ service_class # "any" /\ service_class # ClassOf(r)
  BY <1>1, <1>2, <1>3 DEF NotInPass, Quiet, ClassOf
<1>5. /\ UNCHANGED <<phase, reqVars, step, defer_prefills, scheduled_loras>>
      /\ considered' = considered
  BY <1>1
<1>6. r \notin step.at_start \/ service_class \notin {"any", ClassOf(r)}
  BY <1>4
<1>7. QED
  BY <1>1, <1>2, <1>5, <1>6, HeardAdvance

LEMMA HeardRefuse ==
  ASSUME StepInv, Quiet => Heard, NEW r \in Req, Refuse(r), Quiet'
  PROVE  Heard'
<1>1. /\ At(r) /\ visited' = visited \cup {r}
      /\ UNCHANGED <<phase, reqVars, step, defer_prefills, scheduled_loras,
                     num_scheduled_tokens, out_of_blocks>>
      /\ considered' = IF Deferred(r) THEN considered ELSE considered \cup {r}
  BY DEF Refuse, At, Advance
<1>2. Quiet /\ Heard
  BY <1>1, FourPasses, QuietBefore DEF At
<1>3. UNCHANGED <<phase, reqVars, step, defer_prefills, scheduled_loras>>
  BY <1>1
<1>4. considered' = considered \/ considered' = considered \cup {r}
  BY <1>1
<1>5. r \in considered' \/ Deferred(r)
  BY <1>1
<1>6. QED
  BY <1>1, <1>2, <1>3, <1>4, <1>5, HeardAdvance

LEMMA HeardBegin ==
  ASSUME StepInv, Directed, BeginSchedule
  PROVE  Heard'
<1>1. PICK s \in Controls : step' = s /\ phase' = IF s.reserve THEN "loras" ELSE "initial"
  BY DEF BeginSchedule
<1>2. phase = "idle" /\ UNCHANGED <<scheduled_loras, considered>>
      /\ UNCHANGED <<running, visited>>
  BY DEF BeginSchedule, reqVars, passVars
<1>3. s.at_start = Range(running)
  BY DEF Controls
<1>4. scheduled_loras' = {} /\ visited' = {}
  BY <1>2 DEF Directed
<1>5. QED
  BY <1>1, <1>2, <1>3, <1>4 DEF Heard

(* A step after which there still is no work has heard everyone it should. *)
LEMMA HeardStep ==
  ASSUME StepInv, Balanced, Directed, Quiet => Heard, [Next]_vars, Quiet'
  PROVE  Heard'
<1>0. phase' # "idle" /\ Scheduled' = {} /\ num_new_tokens' = 0 /\ out_of_blocks' # TRUE
  BY DEF Quiet
<1>1. CASE UNCHANGED vars
  <2>1. /\ UNCHANGED <<running, prefill>>
        /\ UNCHANGED <<phase, step, defer_prefills, num_scheduled_tokens, num_new_tokens, visited,
                       scheduled_loras, considered, out_of_blocks>>
    BY <1>1 DEF vars, reqVars, passVars, stepVars
  <2>2. Quiet /\ Heard
    BY <1>0, <2>1, QuietBefore
  <2>3. QED
    BY <2>1, <2>2 DEF Heard, FirstAsked, ClassOf, service_class, Deferred
<1>2. CASE EndPass \/ RecordLoras \/ BeginSchedule
  BY <1>2, HeardEndPass, HeardRecordLoras, HeardBegin
<1>3. CASE Serve
  <2>1. num_new_tokens > 0 /\ num_new_tokens \in 1 .. InputCap
    BY <1>3, AtCursor DEF Serve
  <2>2. PICK r \in Req : r = running[req_index]
    BY <2>1, AtCursor
  <2>3. num_scheduled_tokens'[r] = num_new_tokens
    BY <1>3, <2>2 DEF Serve, StepInv, SharesTyped
  <2>4. r \in Scheduled'
    BY <2>1, <2>2, <2>3 DEF Scheduled
  <2>5. QED
    BY <1>0, <2>4
<1>4. CASE Evict
  <2>1. num_new_tokens > 0
    BY <1>4 DEF Evict
  <2>2. num_new_tokens # 0
    BY <2>1, Given
  <2>3. out_of_blocks' = TRUE \/ num_new_tokens' = num_new_tokens
    BY <1>4 DEF Evict
  <2>4. QED
    BY <1>0, <2>2, <2>3
<1>5. CASE GiveUp
  BY <1>0, <1>5 DEF GiveUp
<1>6. CASE _update_after_schedule
  BY <1>0, <1>6 DEF _update_after_schedule
<1>7. ASSUME NEW r \in Req, add_request(r) \/ update_from_output(r) PROVE Heard'
  BY <1>0, <1>7 DEF add_request, update_from_output
<1>8. ASSUME NEW r \in Req, GoOver(r) \/ Refuse(r) PROVE Heard'
  BY <1>8, HeardGoOver, HeardRefuse
<1>9. ASSUME NEW r \in Req, SkipWaiting(r) PROVE Heard'
  <2>1. /\ phase = "waiting" /\ UNCHANGED <<running, prefill>>
        /\ UNCHANGED <<phase, step, defer_prefills, num_scheduled_tokens, num_new_tokens, visited,
                       scheduled_loras, considered, out_of_blocks>>
    BY <1>9 DEF SkipWaiting, Room, reqVars, passVars
  <2>2. num_new_tokens = 0
    BY <1>0, <2>1
  <2>3. Quiet /\ Heard
    BY <2>1, <2>2, QuietBefore
  <2>4. QED
    BY <2>1, <2>3 DEF Heard, FirstAsked, ClassOf, service_class, Deferred
<1>10. ASSUME NEW r \in Req, AdmitBoundary(r) PROVE Heard'
  <2>1. MayAdmit(r) /\ Enter(r, 0, 1)
    BY <1>10 DEF AdmitBoundary, MayAdmitBoundary
  <2>2. 0 \in 0 .. MaxPrompt /\ 1 \in 1 .. InputCap
    BY Limited
  <2>3. Scheduled' = Scheduled \cup {r}
    BY <2>1, <2>2, EnterStandings
  <2>4. QED
    BY <1>0, <2>3
<1>11. ASSUME NEW r \in Req, NEW n \in 1 .. InputCap, Consider(r, n) PROVE Heard'
  <2>1. num_new_tokens' = n /\ n # 0
    BY <1>11 DEF Consider
  <2>2. QED
    BY <1>0, <2>1
<1>12. ASSUME NEW r \in Req, NEW n \in 1 .. InputCap, NEW need \in 1 .. MaxPrompt, Admit(r, need, n)
       PROVE  Heard'
  <2>1. MayAdmit(r) /\ Enter(r, need, n) /\ need \in 0 .. MaxPrompt
    BY <1>12 DEF Admit
  <2>2. Scheduled' = Scheduled \cup {r}
    BY <2>1, EnterStandings
  <2>3. QED
    BY <1>0, <2>2
<1>13. ASSUME NEW need \in 0 .. MaxPrompt, EndWaiting(need) PROVE Heard'
  BY <1>13, HeardEndWaiting
<1>14. QED
  BY <1>1, <1>2, <1>3, <1>4, <1>5, <1>6, <1>7, <1>8, <1>9, <1>10, <1>11, <1>12, <1>13 DEF Next

-----------------------------------------------------------------------------
(* The theorems *)

IInv == StepInv /\ Balanced /\ Asked

(* The three parts are inductive together.                                 *)
LEMMA StepsKept == Spec => []IInv
<1>1. Init => IInv
  <2>1. SUFFICES ASSUME Init PROVE IInv
    OBVIOUS
  <2>2. StepInv
    BY <2>1, StepInvInit, StepAssumption
  <2>3. phase = "idle" /\ num_new_tokens = 0 /\ scheduled_loras = {} /\ visited = {}
    BY <2>1 DEF Init
  <2>4. ~(num_new_tokens > 0)
    BY <2>3
  <2>5. Balanced /\ Asked
    BY <2>3, <2>4 DEF Balanced, Asked, Directed, Quiet
  <2>6. QED
    BY <2>2, <2>5 DEF IInv
<1>2. IInv /\ [Next]_vars => IInv'
  <2>1. SUFFICES ASSUME IInv, [Next]_vars PROVE IInv'
    OBVIOUS
  <2>2. StepInv /\ Balanced /\ Directed /\ (Quiet => Heard)
    BY <2>1 DEF IInv, Asked
  <2>3. StepInv' /\ Balanced' /\ Directed'
    BY <2>1, <2>2, StepInvStep, BalancedStep, DirectedStep
  <2>4. Quiet' => Heard'
    BY <2>1, <2>2, HeardStep
  <2>5. QED
    BY <2>3, <2>4 DEF IInv, Asked
<1>3. QED
  BY <1>1, <1>2, PTL DEF Spec

(* Every variable of a call of schedule() keeps its type, the cursor of    *)
(* the running passes among them.                                          *)
THEOREM StepAlwaysTyped == Spec => []TypeOK
<1>1. IInv => TypeOK
  <2>1. SUFFICES ASSUME StepInv PROVE TypeOK
    BY DEF IInv
  <2>2. \A S \in {new, boundary, preempted, skipped, visited, considered} : S \subseteq Req
    <3>1. Scheduled \subseteq Req /\ waiting \subseteq Req
      BY <2>1 DEF Scheduled, StepInv, RequestsTyped
    <3>2. QED
      BY <2>1, <3>1 DEF StepInv, ControlsTyped, Listed
  <2>3. {defer_prefills, out_of_blocks} \subseteq BOOLEAN
    BY <2>1 DEF StepInv, ControlsTyped
  <2>4. \A b \in {token_budget, input_budget, draft_input_budget} : b \in Int
    BY <2>1 DEF StepInv, SharesTyped
  <2>5. QED
    BY <2>1, <2>2, <2>3, <2>4 DEF TypeOK, StepInv, RequestsTyped, ControlsTyped, SharesTyped, StepTypes
<1>2. QED
  BY <1>1, StepsKept, PTL

(* Through any order of serving, evicting and admitting, the three budgets *)
(* of a step account for what its requests were given, and never go below  *)
(* zero (the assertions at the end of schedule()).                         *)
THEOREM BudgetsAlwaysBalance == Spec => []BudgetsBalance
<1>1. IInv => BudgetsBalance
  BY DEF IInv, Balanced, BudgetsBalance, Budget
<1>2. QED
  BY <1>1, StepsKept, PTL

(* Whatever order the passes take, a request that was preempted waits and  *)
(* is not computed in the same step.                                       *)
THEOREM EvictedAlwaysUnscheduled == Spec => []EvictedIsUnscheduled
<1>1. IInv => EvictedIsUnscheduled
  BY DEF IInv, StepInv, Listed, EvictedIsUnscheduled
<1>2. QED
  BY <1>1, StepsKept, PTL

(* The cursor of a pass has looked at every request before it, however     *)
(* evictions moved them.                                                   *)
THEOREM NobodyEverPassedOver == Spec => []NobodyPassedOver
<1>1. IInv => NobodyPassedOver
  BY DEF IInv, StepInv, Passed, NobodyPassedOver
<1>2. QED
  BY <1>1, StepsKept, PTL

(* Under PRIORITY no request is computed in a step that preempted a more   *)
(* important one.                                                          *)
THEOREM EvictionAlwaysFollowsPriority == ASSUME ByPriority PROVE Spec => []EvictionFollowsPriority
<1>1. IInv => EvictionFollowsPriority
  BY DEF IInv, StepInv, Listed, Ranked, EvictionFollowsPriority
<1>2. QED
  BY <1>1, StepsKept, PTL

(* A step with boundary logits schedules nothing else.                     *)
THEOREM BoundaryAlwaysAlone == Spec => []BoundaryIsAlone
<1>1. IInv => BoundaryIsAlone
  BY DEF IInv, StepInv, PassFits, BoundaryIsAlone
<1>2. QED
  BY <1>1, StepsKept, PTL

(* A call that schedules nothing although neither memory, a pause nor the  *)
(* prefill cadence kept it from it has asked every request that was        *)
(* running when it began.                                                  *)
THEOREM EmptyStepsForced == Spec => []EmptyStepIsForced
<1>1. IInv => EmptyStepIsForced
  <2>1. SUFFICES ASSUME IInv, phase = "done", Scheduled = {}, ~out_of_blocks, ~step.legacy,
                        step.paused # "all"
        PROVE  step.at_start \subseteq considered
    BY DEF EmptyStepIsForced
  <2>2. num_new_tokens = 0
    BY <2>1, FourPasses DEF IInv, StepInv, PassFits
  <2>3. QED
    BY <2>1, <2>2 DEF IInv, Asked, Quiet, Heard
<1>2. QED
  BY <1>1, StepsKept, PTL

(* The passes over what is left of a step take nothing away from the       *)
(* requests that were served before them.                                  *)
THEOREM LeftoverAlwaysKeepsService == Spec => [][LeftoverKeepsService]_vars
<1>1. IInv /\ [Next]_vars => [LeftoverKeepsService]_vars
  <2>1. SUFFICES ASSUME StepInv, Next, phase \in {"interleave", "leftover"}, NEW r \in Scheduled
        PROVE  num_scheduled_tokens'[r] = num_scheduled_tokens[r]
    BY DEF IInv, LeftoverKeepsService
  <2>2. ~allow_preemption
    BY <2>1 DEF allow_preemption
  <2>3. CASE Serve
    <3>1. num_new_tokens > 0
      BY <2>3 DEF Serve
    <3>2. PICK q \in Req : q = running[req_index] /\ q \notin Scheduled
      BY <2>1, <3>1, AtCursor
    <3>3. num_scheduled_tokens' = [num_scheduled_tokens EXCEPT ![q] = num_new_tokens]
      BY <2>3, <3>2 DEF Serve
    <3>4. r # q /\ r \in Req
      BY <3>2 DEF Scheduled
    <3>5. QED
      BY <2>1, <3>3, <3>4 DEF StepInv, SharesTyped
  <2>4. CASE BeginSchedule \/ Evict \/ GiveUp \/ EndPass \/ RecordLoras \/ _update_after_schedule
    BY <2>1, <2>2, <2>4 DEF BeginSchedule, Evict, GiveUp, EndPass, RecordLoras, _update_after_schedule
  <2>5. ASSUME NEW q \in Req,
               add_request(q) \/ update_from_output(q) \/ GoOver(q) \/ Refuse(q) \/ SkipWaiting(q)
                 \/ AdmitBoundary(q)
        PROVE  num_scheduled_tokens' = num_scheduled_tokens
    BY <2>1, <2>5 DEF add_request, update_from_output, GoOver, Refuse, SkipWaiting, AdmitBoundary,
       MayAdmitBoundary, MayAdmit, Room, stepVars
  <2>6. ASSUME NEW q \in Req, NEW n \in 1 .. InputCap, Consider(q, n)
        PROVE  num_scheduled_tokens' = num_scheduled_tokens
    BY <2>6 DEF Consider
  <2>7. ASSUME NEW q \in Req, NEW n \in 1 .. InputCap, NEW need \in 1 .. MaxPrompt, Admit(q, need, n)
        PROVE  num_scheduled_tokens' = num_scheduled_tokens
    BY <2>1, <2>7 DEF Admit, MayAdmit, Room
  <2>8. ASSUME NEW need \in 0 .. MaxPrompt, EndWaiting(need)
        PROVE  num_scheduled_tokens' = num_scheduled_tokens
    BY <2>8 DEF EndWaiting
  <2>9. QED
    BY <2>1, <2>3, <2>4, <2>5, <2>6, <2>7, <2>8 DEF Next
<1>2. QED
  BY <1>1, StepsKept, PTL DEF Spec
==============================================================================
