-------------------------- MODULE OutputAccounting --------------------------
(***************************************************************************)
(* Token accounting of overlapped steps in the scheduler (scheduler.py).   *)
(*                                                                         *)
(* schedule() advances num_computed_tokens before a step has run, so that  *)
(* the next step can be scheduled while this one is in flight; output that *)
(* arrives later corrects it.  A preemption in between resets the counters *)
(* of the request and marks everything in flight as stale.  Stale output   *)
(* is delivered, unless the request was preempted in a mode that resumes   *)
(* it at once (drop_stale_output), and must not touch the counters of the  *)
(* resumed request in either case.                                         *)
(*                                                                         *)
(* Async adds what the AsyncScheduler subclass (not part of this           *)
(* repository) does with num_output_placeholders.                          *)
(***************************************************************************)
EXTENDS Integers, Sequences, FiniteSets, FiniteSetsExt, Totals

CONSTANTS
  Req,
  Prompt,            \* num_prompt_tokens
  MaxOut,            \* sampling_params.max_tokens
  NumSpec,           \* num_spec_tokens
  Async,             \* scheduler_config.async_scheduling
  KVDelivery,        \* self.requires_kv_delivery
  MaxBatches,        \* VllmConfig.max_concurrent_batches
  MaxPreemptions     \* bound on num_preemptions

(* Drafts come back with the output of a step unless scheduling is         *)
(* asynchronous, so without it they rule out overlapping steps.            *)
ASSUME AccountingAssumption ==
  /\ Prompt \in Nat \ {0} /\ MaxOut \in Nat \ {0} /\ NumSpec \in Nat
  /\ Async \in BOOLEAN /\ KVDelivery \in BOOLEAN
  /\ MaxBatches \in Nat \ {0} /\ MaxPreemptions \in Nat
  /\ NumSpec > 0 /\ ~Async => MaxBatches = 1

VARIABLES
  phase,         \* the handler under way
  status,        \* "waiting" stands for WAITING and PREEMPTED
  tokens,        \* num_tokens: prompt and appended output
  computed,      \* num_computed_tokens
  placeholders,  \* num_output_placeholders
  in_flight,     \* num_in_flight_tokens
  stale,         \* num_stale_output_tokens
  drop,          \* drop_stale_output
  preemptions,   \* num_preemptions
  spec,          \* len(spec_token_ids)
  batch,         \* the step schedule() is building
  preempted,     \* preempted_reqs is not empty
  device,        \* steps handed to the workers, oldest first
  known          \* workers: tokens of a request after the last processed step

requestVars == <<tokens, computed, placeholders, in_flight, stale, drop,
                 preemptions, spec>>
vars == <<phase, status, requestVars, batch, preempted, device, known>>

(* What a step does for one request: n tokens of which the last drafts are *)
(* speculative, and whether it samples.  base is the token list sent with  *)
(* a request that joins the batch, 0 for one that continues; epoch is      *)
(* num_preemptions when the step was scheduled (read by properties only).  *)
Work   == [n : Nat, drafts : Nat, samples : BOOLEAN, base : Nat, epoch : Nat]
NoWork == [n |-> 0, drafts |-> 0, samples |-> FALSE, base |-> 0, epoch |-> 0]

TypeOK ==
  /\ phase \in {"idle", "running", "waiting", "update"}
  /\ status \in [Req -> {"waiting", "running", "finished"}]
  /\ tokens \in [Req -> Prompt .. Prompt + MaxOut]
  /\ \A f \in {computed, placeholders, in_flight, stale, spec, known} :
       f \in [Req -> Nat]
  /\ drop \in [Req -> BOOLEAN]
  /\ preemptions \in [Req -> 0 .. MaxPreemptions]
  /\ batch \in [Req -> Work]
  /\ preempted \in BOOLEAN
  /\ device \in Seq([Req -> Work])
  /\ Len(device) <= MaxBatches

Init ==
  /\ phase = "idle"
  /\ status = [r \in Req |-> "waiting"]
  /\ tokens = [r \in Req |-> Prompt]
  /\ computed = [r \in Req |-> 0]
  /\ placeholders = [r \in Req |-> 0]
  /\ in_flight = [r \in Req |-> 0]
  /\ stale = [r \in Req |-> 0]
  /\ drop = [r \in Req |-> FALSE]
  /\ preemptions = [r \in Req |-> 0]
  /\ spec = [r \in Req |-> 0]
  /\ batch = [r \in Req |-> NoWork]
  /\ preempted = FALSE
  /\ device = <<>>
  /\ known = [r \in Req |-> 0]

Scheduled == {r \in Req : batch[r].n > 0}

-----------------------------------------------------------------------------
(* schedule() *)

BeginSchedule ==
  /\ phase = "idle"
  /\ Len(device) < MaxBatches
  /\ phase' = "running"
  /\ UNCHANGED <<status, requestVars, batch, preempted, device, known>>

NoPlaceholderLimit(r) == FALSE

(* The step in flight will reach max_tokens even if all its drafts fail. *)
OutputIsComplete(r) ==
  /\ placeholders[r] > 0
  /\ computed[r] + 2 - placeholders[r] >= Prompt + MaxOut

(* A running request gets n of the tokens it lacks; budgets, thresholds    *)
(* and alignment may leave less than all of them.                          *)
ScheduleRunning(r, n) ==
  LET reach  == n + computed[r] - tokens[r] - placeholders[r]
      drafts == IF reach > 0 THEN Min({reach, spec[r]}) ELSE 0
  IN  /\ phase \in {"running", "waiting"}
      /\ status[r] = "running"
      /\ batch[r].n = 0
      /\ ~OutputIsComplete(r)
      /\ n \in 1 .. tokens[r] + spec[r] + placeholders[r] - computed[r]
      /\ batch' = [batch EXCEPT ![r] = [NoWork EXCEPT !.n = n, !.drafts = drafts]]
      /\ spec' = [spec EXCEPT ![r] = 0]
      /\ UNCHANGED <<phase, status, tokens, computed, placeholders, in_flight,
                     stale, drop, preemptions, preempted, device, known>>

StaleAccumulated(r) == stale[r] + in_flight[r]
StaleForgotten(r) == 0

(* num_stale_output_tokens after _preempt_request: in_flight already       *)
(* includes any undrained stale share.                                     *)
stale_after_preemption(r) == in_flight[r]

(* drop_stale_output after _preempt_request: an undrained drop-mode share  *)
(* stays dropped.                                                          *)
drop_after_preemption(r, drop_stale_output) ==
  drop_stale_output \/ (drop[r] /\ stale[r] > 0)

(* _preempt_request for every request of R. *)
_preempt_request(R, drop_stale_output) ==
  /\ \A r \in R : status[r] = "running" /\ preemptions[r] < MaxPreemptions
  /\ status' = [r \in Req |-> IF r \in R THEN "waiting" ELSE status[r]]
  /\ computed' = [r \in Req |-> IF r \in R THEN 0 ELSE computed[r]]
  /\ spec' = [r \in Req |-> IF r \in R THEN 0 ELSE spec[r]]
  /\ drop' = [r \in Req |-> IF r \in R
                            THEN drop_after_preemption(r, drop_stale_output)
                            ELSE drop[r]]
  /\ stale' = [r \in Req |-> IF r \in R THEN stale_after_preemption(r) ELSE stale[r]]
  /\ placeholders' = [r \in Req |-> IF r \in R THEN 0 ELSE placeholders[r]]
  /\ preemptions' = [r \in Req |-> IF r \in R THEN preemptions[r] + 1
                                              ELSE preemptions[r]]
  /\ UNCHANGED <<tokens, in_flight>>

(* allocate_slots failed and r is the victim; under PRIORITY it may have   *)
(* been given tokens in this very step, which are taken back.              *)
PreemptVictim(r) ==
  /\ phase = "running"
  /\ _preempt_request({r}, KVDelivery)
  /\ batch' = [batch EXCEPT ![r] = NoWork]
  /\ preempted' = TRUE
  /\ UNCHANGED <<phase, device, known>>

BeginWaiting ==
  /\ phase = "running"
  /\ ~preempted
  /\ phase' = "waiting"
  /\ UNCHANGED <<status, requestVars, batch, preempted, device, known>>

ResumableAtOnce(r) == TRUE

(* A request with deliverable stale output waits until it has drained. *)
may_resume(r) == stale[r] = 0 \/ drop[r]

(* A waiting request joins the batch behind a prefix hit.  A decode may be *)
(* padded with placeholder drafts to the uniform decode size.              *)
ResumeWaiting(r, hit, n, pad) ==
  /\ phase = "waiting"
  /\ status[r] = "waiting"
  /\ may_resume(r)
  /\ hit \in 0 .. tokens[r] - 1
  /\ IF pad THEN NumSpec > 0 /\ tokens[r] - hit = 1 /\ n = 1 + NumSpec
            ELSE n \in 1 .. tokens[r] - hit
  /\ status' = [status EXCEPT ![r] = "running"]
  /\ computed' = [computed EXCEPT ![r] = hit]
  /\ batch' = [batch EXCEPT ![r] = [NoWork EXCEPT
                 !.n = n, !.base = tokens[r], !.drafts = IF pad THEN NumSpec ELSE 0]]
  /\ UNCHANGED <<phase, tokens, placeholders, in_flight, stale, drop,
                 preemptions, spec, preempted, device, known>>

(* is_prefill_chunk of a scheduled request after the step is scheduled. *)
is_prefill_chunk(r) == computed[r] + batch[r].n < tokens[r] + placeholders[r]

(* _update_after_schedule, with the part AsyncScheduler adds: room for the *)
(* tokens the step will sample, and placeholder drafts for the next step.  *)
_update_after_schedule ==
  LET samples == {r \in Scheduled : ~is_prefill_chunk(r)}
  IN  /\ phase = "waiting" \/ (phase = "running" /\ preempted)
      /\ phase' = "idle"
      /\ computed' = [r \in Req |-> computed[r] + batch[r].n]
      /\ in_flight' = [r \in Req |-> in_flight[r] + batch[r].n]
      /\ placeholders' = [r \in Req |-> IF Async /\ r \in samples
                            THEN placeholders[r] + 1 + batch[r].drafts
                            ELSE placeholders[r]]
      /\ spec' = [r \in Req |-> IF Async /\ r \in samples THEN NumSpec ELSE spec[r]]
      /\ device' = IF Scheduled = {} THEN device
                   ELSE Append(device, [r \in Req |->
                          IF r \in Scheduled
                          THEN [batch[r] EXCEPT !.samples = r \in samples,
                                                !.epoch = preemptions[r]]
                          ELSE NoWork])
      /\ batch' = [r \in Req |-> NoWork]
      /\ preempted' = FALSE
      /\ UNCHANGED <<status, tokens, stale, drop, preemptions, known>>

-----------------------------------------------------------------------------
(* update_from_output() *)

RejectionsKept(r, rejected, appended, is_stale) ==
  /\ computed' = computed
  /\ placeholders' = [placeholders EXCEPT ![r] =
       IF is_stale \/ ~Async THEN @ ELSE @ - appended]

OnlyComputedRolledBack(r, rejected, appended, is_stale) ==
  /\ computed' = [computed EXCEPT ![r] =
       IF ~is_stale /\ @ > 0 THEN @ - rejected ELSE @]
  /\ placeholders' = [placeholders EXCEPT ![r] =
       IF is_stale \/ ~Async THEN @ ELSE @ - appended]

StaleRollsBackToo(r, rejected, appended, is_stale) ==
  /\ computed' = [computed EXCEPT ![r] = IF @ > 0 THEN @ - rejected ELSE @]
  /\ placeholders' = [placeholders EXCEPT ![r] =
       (IF @ > 0 THEN @ - rejected ELSE @) - (IF Async THEN appended ELSE 0)]

(* Rejected drafts roll the counters back, unless the output is stale.     *)
(* AsyncScheduler also releases the placeholders of the appended tokens.   *)
_rollback(r, rejected, appended, is_stale) ==
  /\ computed' = [computed EXCEPT ![r] =
       IF ~is_stale /\ @ > 0 THEN @ - rejected ELSE @]
  /\ placeholders' = [placeholders EXCEPT ![r] =
       IF is_stale THEN @
       ELSE (IF @ > 0 THEN @ - rejected ELSE @) - (IF Async THEN appended ELSE 0)]

(* The oldest step without the share of r; a step with no share left is    *)
(* done, and so is the handler.                                            *)
Drained(r) ==
  LET rest == [device[1] EXCEPT ![r] = NoWork]
  IN  IF \A q \in Req : rest[q].n = 0
      THEN device' = Tail(device) /\ phase' = "idle"
      ELSE device' = [device EXCEPT ![1] = rest] /\ phase' = "update"

(* The share of r in the oldest step: accepted drafts beyond the sampled   *)
(* token, of which the first appended ones are kept (all, unless a stop    *)
(* condition is met on the way).  Without asynchronous scheduling the step *)
(* also brings drafts for the next one, as many as the grammar accepts.    *)
update_from_output(r, accepted, appended, stopped) ==
  /\ phase \in {"idle", "update"}
  /\ device # <<>>
  /\ LET w         == device[1][r]
         is_stale  == stale[r] > 0
         generated == IF w.samples THEN 1 + accepted ELSE 0
         at_limit  == tokens[r] + appended = Prompt + MaxOut
         dropped   == is_stale /\ drop[r]
         live      == status[r] # "finished"
     IN  /\ w.n > 0
         /\ accepted \in 0 .. (IF w.samples THEN w.drafts ELSE 0)
         /\ Drained(r)
         /\ known' = [known EXCEPT ![r] =
                        (IF w.base > 0 THEN w.base ELSE @) + generated]
         /\ IF ~live
            THEN appended = 0 /\ ~stopped /\ UNCHANGED <<status, requestVars>>
            ELSE /\ in_flight' = [in_flight EXCEPT ![r] = @ - w.n]
                 /\ stale' = [stale EXCEPT ![r] = IF is_stale THEN @ - w.n ELSE @]
                 /\ UNCHANGED <<drop, preemptions>>
                 /\ IF dropped
                    THEN /\ appended = 0 /\ ~stopped
                         /\ UNCHANGED <<status, tokens, computed, placeholders, spec>>
                    ELSE /\ appended \in 0 .. generated
                         /\ generated > 0 => appended > 0
                         /\ tokens[r] + appended <= Prompt + MaxOut
                         /\ stopped => appended > 0
                         /\ (appended < generated \/ (at_limit /\ appended > 0)) => stopped
                         /\ tokens' = [tokens EXCEPT ![r] = @ + appended]
                         /\ status' = [status EXCEPT ![r] =
                              IF stopped THEN "finished" ELSE @]
                         /\ _rollback(r, IF w.samples THEN w.drafts - accepted ELSE 0,
                                      appended, is_stale)
                         /\ \E k \in 0 .. NumSpec :
                              spec' = IF w.samples /\ ~Async
                                      THEN [spec EXCEPT ![r] = k] ELSE spec
  /\ UNCHANGED <<batch, preempted>>

(* finish_requests: an abort between two handlers. *)
finish_requests(r) ==
  /\ phase = "idle"
  /\ status[r] # "finished"
  /\ status' = [status EXCEPT ![r] = "finished"]
  /\ UNCHANGED <<phase, requestVars, batch, preempted, device, known>>

(* reset_prefix_cache(reset_running_requests=True).  Without a batch queue *)
(* the engine loop calls it between two whole steps only.                  *)
reset_prefix_cache ==
  LET running == {r \in Req : status[r] = "running"}
  IN  /\ phase = "idle"
      /\ MaxBatches = 1 => device = <<>>
      /\ running # {}
      /\ _preempt_request(running, TRUE)
      /\ UNCHANGED <<phase, batch, preempted, device, known>>

Next ==
  \/ BeginSchedule
  \/ \E r \in Req, n \in 1 .. Prompt + MaxOut + NumSpec : ScheduleRunning(r, n)
  \/ \E r \in Req : PreemptVictim(r)
  \/ BeginWaiting
  \/ \E r \in Req, hit \in 0 .. Prompt + MaxOut,
        n \in 1 .. Prompt + MaxOut + NumSpec, pad \in BOOLEAN :
       ResumeWaiting(r, hit, n, pad)
  \/ _update_after_schedule
  \/ \E r \in Req, accepted \in 0 .. NumSpec, appended \in 0 .. NumSpec + 1,
        stopped \in BOOLEAN : update_from_output(r, accepted, appended, stopped)
  \/ \E r \in Req : finish_requests(r)
  \/ reset_prefix_cache

Spec == Init /\ [][Next]_vars

(* A handler runs to its end.  step_with_batch_queue takes the oldest      *)
(* result when a call could not add a batch, so a full or idle pipeline    *)
(* does not keep a result from being processed.                            *)
FairSpec ==
  /\ Spec
  /\ WF_vars(BeginWaiting) /\ WF_vars(_update_after_schedule)
  /\ SF_vars(\E r \in Req, accepted \in 0 .. NumSpec,
                appended \in 0 .. NumSpec + 1, stopped \in BOOLEAN :
                  update_from_output(r, accepted, appended, stopped))

-----------------------------------------------------------------------------
(* Properties *)

Live == {r \in Req : status[r] # "finished"}

(* The sum of f over the shares that the steps of dev hold for r. *)
SumOver(dev, r, f) == Total([i \in DOMAIN dev |-> f[dev[i][r]]])

(* What a share counts for: its tokens, those of a residency before number *)
(* p, and the tokens a step of residency p may append at most or at least. *)
AllTokens      == [w \in Work |-> w.n]
StaleTokens(p) == [w \in Work |-> IF w.epoch < p THEN w.n ELSE 0]
MayAppend(p)   == [w \in Work |-> IF w.samples /\ w.epoch = p THEN 1 + w.drafts ELSE 0]
WillAppend(p)  == [w \in Work |-> IF w.samples /\ w.epoch = p THEN 1 ELSE 0]

(* num_in_flight_tokens of a live request is what the unprocessed steps    *)
(* hold for it, over preemptions, resets and resumptions; and              *)
(* num_stale_output_tokens is the part scheduled before its last           *)
(* preemption (or an earlier one) that has not come back, so that no fresh *)
(* output is taken for stale and no stale output for fresh.                *)
StaleShareIsExact ==
  \A r \in Live :
    /\ in_flight[r] = SumOver(device, r, AllTokens)
    /\ stale[r] = SumOver(device, r, StaleTokens(preemptions[r]))

(* Output that will be delivered continues the request where its token     *)
(* list ends: no position is delivered twice, none is skipped and none     *)
(* arrives out of order, whatever preemptions happened while the step was  *)
(* in flight ("resuming now could resample a position that output later    *)
(* delivers").                                                             *)
OutputInOrder ==
  device # <<>> =>
    \A r \in Live :
      LET w == device[1][r]
      IN  w.samples /\ ~(stale[r] > 0 /\ drop[r]) =>
            (IF w.base > 0 THEN w.base ELSE known[r]) = tokens[r]

(* Under asynchronous scheduling num_output_placeholders stands for the    *)
(* tokens the steps of the present residency may still append, rejected    *)
(* drafts included: rejections and stale output never release another      *)
(* step's placeholders.                                                    *)
PlaceholdersMatch ==
  Async =>
    \A r \in Live :
      placeholders[r] = SumOver(device, r, MayAppend(preemptions[r]))

(* When nothing of a running request is in flight its counters are those   *)
(* of a request that never speculated: no placeholder is left and at least *)
(* one token is still to be computed, so it can be scheduled again.        *)
CountersSettle ==
  phase = "idle" =>
    \A r \in Req :
      status[r] = "running" /\ in_flight[r] = 0 =>
        placeholders[r] = 0 /\ computed[r] < tokens[r]

(* A step is not scheduled for a request whose steps in flight already     *)
(* make certain that it reaches max_tokens, even if every draft is         *)
(* rejected ("avoid an extra step when the previous one reached            *)
(* max_tokens").  The code looks one step back: with three batches a step  *)
(* behind two others may still be wasted.                                  *)
NoWastedStep ==
  \A r \in Live :
    batch[r].n > 0 =>
      tokens[r] + SumOver(device, r, WillAppend(preemptions[r])) < Prompt + MaxOut

(* Stale output drains ("It drains within the pipeline depth"): a request  *)
(* preempted with steps in flight, however often, comes back to fresh      *)
(* output, so its resumption is not put off, nor its output dropped, for   *)
(* ever.                                                                   *)
StaleDrains ==
  \A r \in Req : stale[r] > 0 ~> (stale[r] = 0 \/ status[r] = "finished")
=============================================================================
