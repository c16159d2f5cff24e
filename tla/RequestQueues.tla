---------------------------- MODULE RequestQueues ----------------------------
(***************************************************************************)
(* The life of a request in the scheduler's queues (scheduler.py).         *)
(*                                                                         *)
(* A request is in running, in waiting or in skipped_waiting.  The waiting *)
(* pass of schedule() takes requests out of the last two and collects      *)
(* those it cannot admit in a fourth queue, which it puts back in front at *)
(* the end.  Steps stay in flight between schedule() and                   *)
(* update_from_output(); aborts, new requests and new chunks of streaming  *)
(* sessions come in between.                                               *)
(*                                                                         *)
(* Policy FCFS, scheduler not paused.  A request id is used once.          *)
(***************************************************************************)
EXTENDS Integers, Sequences, FiniteSets, SequencesExt

CONSTANTS
  Req,
  Resumable,        \* requests that are streaming sessions
  Structured,       \* requests that wait for a compiled grammar
  Connector,        \* a KV connector loads and sends asynchronously
  InterleavePrefill, \* the prefill interleave controller picks from the queues
  MayPreempt,       \* the pool may be too small for the running requests
  MaxRunning,       \* max_num_running_reqs
  MaxBatches,       \* VllmConfig.max_concurrent_batches
  MaxChunks,        \* bound on the updates of a session
  MaxPreemptions    \* bound on num_preemptions

(* What the scheduler is built with. *)
QueuesAssumption ==
  /\ Resumable \subseteq Req /\ Structured \subseteq Req
  /\ {Connector, InterleavePrefill, MayPreempt} \subseteq BOOLEAN
  /\ MaxRunning \in Nat \ {0} /\ MaxBatches \in Nat \ {0}
  /\ MaxChunks \in Nat /\ MaxPreemptions \in Nat

VARIABLES
  phase,            \* the handler under way
  status,           \* request.status; "finished" while only in self.requests
  running, waiting, skipped_waiting,
  step_skipped,     \* step_skipped_waiting, in the order of skipping
  num_waiting_for_streaming_input,
  streaming_queue,  \* of a session: updates not yet begun, "end" closes it
  sent,             \* updates its client has sent; MaxChunks once closed
  has_computed,     \* num_computed_tokens > 0
  preemptions,      \* num_preemptions
  stale,            \* steps that hold its stale output, in flight
  drop,             \* drop_stale_output
  grammar,          \* "compiling", "ready" or "error"
  grammar_errors,   \* grammar_compile_error_reqs
  recving, sending, \* transfers the workers have under way
  finished_recving, failed_recving,   \* ..._kv_req_ids
  batch,            \* the step schedule() is building
  preempted,        \* preempted_reqs is not empty
  device,           \* steps handed to the workers, oldest first
  stopped_running, stopped_preempted  \* ..._reqs of update_from_output

queueVars   == <<running, waiting, skipped_waiting, step_skipped>>
sessionVars == <<num_waiting_for_streaming_input, streaming_queue, sent>>
staleVars   == <<preemptions, stale, drop>>
grammarVars == <<grammar, grammar_errors>>
xferVars    == <<recving, sending, finished_recving, failed_recving>>
stepVars    == <<batch, preempted, device>>
stopVars    == <<stopped_running, stopped_preempted>>
vars == <<phase, status, queueVars, sessionVars, has_computed, staleVars,
          grammarVars, xferVars, stepVars, stopVars>>

(* What a step does for a request: nothing, a prefill chunk that samples   *)
(* nothing, or work that ends in a sampled token.                          *)
Work == {"none", "chunk", "sample"}
NoStep == [r \in Req |-> "none"]

Live(r) == status[r] \notin {"absent", "finished", "gone"}
_is_blocked_waiting_status(s) == s \in {"grammar", "remote", "streaming"}

TypeOK ==
  /\ phase \in {"idle", "running", "waiting", "extra", "update", "errors",
               "xfer"}
  /\ status \in [Req -> {"absent", "waiting", "grammar", "remote", "streaming",
                         "running", "preempted", "finished", "gone"}]
  /\ \A q \in {running, waiting, skipped_waiting, step_skipped} : q \in Seq(Req)
  /\ num_waiting_for_streaming_input \in Nat
  /\ streaming_queue \in [Req -> Seq({"chunk", "end"})]
  /\ sent \in [Req -> 0 .. MaxChunks]
  /\ {has_computed, drop} \subseteq [Req -> BOOLEAN]
  /\ preemptions \in [Req -> 0 .. MaxPreemptions]
  /\ stale \in [Req -> 0 .. MaxBatches]
  /\ grammar \in [Req -> {"compiling", "ready", "error"}]
  /\ \A S \in {grammar_errors, recving, sending, finished_recving,
               failed_recving, stopped_running, stopped_preempted} : S \subseteq Req
  /\ batch \in [Req -> Work] /\ preempted \in BOOLEAN
  /\ device \in Seq([Req -> Work]) /\ Len(device) <= MaxBatches

Init ==
  /\ phase = "idle"
  /\ status = [r \in Req |-> "absent"]
  /\ running = <<>> /\ waiting = <<>> /\ skipped_waiting = <<>> /\ step_skipped = <<>>
  /\ num_waiting_for_streaming_input = 0
  /\ streaming_queue = [r \in Req |-> <<>>]
  /\ sent = [r \in Req |-> 0]
  /\ has_computed = [r \in Req |-> FALSE]
  /\ preemptions = [r \in Req |-> 0]
  /\ stale = [r \in Req |-> 0]
  /\ drop = [r \in Req |-> FALSE]
  /\ grammar = [r \in Req |-> "compiling"]
  /\ grammar_errors = {}
  /\ recving = {} /\ sending = {} /\ finished_recving = {} /\ failed_recving = {}
  /\ batch = NoStep /\ preempted = FALSE /\ device = <<>>
  /\ stopped_running = {} /\ stopped_preempted = {}

(* remove_requests, remove_request and remove_all: q without those of R, in *)
(* its order (as a recursive function, for the prover).                    *)
Without(q, R) ==
  LET kept[i \in 0 .. Len(q)] ==
        IF i = 0 THEN <<>>
        ELSE IF q[i] \in R THEN kept[i - 1] ELSE Append(kept[i - 1], q[i])
  IN  kept[Len(q)]

-----------------------------------------------------------------------------
(* Requests and session updates come in between two handlers. *)

NewRequest(r) ==
  /\ status[r] = "absent"
  /\ IF r \in Structured
     THEN /\ status' = [status EXCEPT ![r] = "grammar"]
          /\ skipped_waiting' = Append(skipped_waiting, r)
          /\ UNCHANGED waiting
     ELSE /\ status' = [status EXCEPT ![r] = "waiting"]
          /\ waiting' = Append(waiting, r)
          /\ UNCHANGED skipped_waiting
  /\ UNCHANGED <<sessionVars, xferVars>>

UpdateSession(r) ==
  /\ Live(r) /\ r \in Resumable /\ sent[r] < MaxChunks
  /\ \E update \in {"chunk", "end"} :
       /\ sent' = [sent EXCEPT ![r] = IF update = "end" THEN MaxChunks ELSE @ + 1]
       /\ IF status[r] # "streaming"
          THEN /\ streaming_queue' = [streaming_queue EXCEPT ![r] = Append(@, update)]
               /\ UNCHANGED <<status, waiting, skipped_waiting,
                              num_waiting_for_streaming_input, sending>>
          ELSE /\ num_waiting_for_streaming_input' = num_waiting_for_streaming_input - 1
               /\ UNCHANGED streaming_queue
               /\ IF update = "chunk"
                  THEN /\ status' = [status EXCEPT ![r] = "waiting"]
                       /\ UNCHANGED <<waiting, skipped_waiting, sending>>
                  ELSE /\ waiting' = Without(waiting, {r})
                       /\ skipped_waiting' = Without(skipped_waiting, {r})
                       /\ \E delay \in {FALSE, Connector} :
                            /\ status' = [status EXCEPT ![r] =
                                 IF delay THEN "finished" ELSE "gone"]
                            /\ sending' = IF delay THEN sending \cup {r} ELSE sending
  /\ UNCHANGED <<recving, finished_recving, failed_recving>>

add_request(r) ==
  /\ phase = "idle"
  /\ NewRequest(r) \/ UpdateSession(r)
  /\ UNCHANGED <<phase, running, step_skipped, has_computed, staleVars,
                 grammarVars, stepVars, stopVars>>

CompileGrammar(r, result) ==
  /\ r \in Structured /\ grammar[r] = "compiling"
  /\ grammar' = [grammar EXCEPT ![r] = result]
  /\ UNCHANGED <<phase, status, queueVars, sessionVars, has_computed, staleVars,
                 grammar_errors, xferVars, stepVars, stopVars>>

NotDecremented(S) == num_waiting_for_streaming_input

(* num_waiting_for_streaming_input without the sessions of S. *)
input_waiters_left(S) ==
  num_waiting_for_streaming_input - Cardinality({r \in S : status[r] = "streaming"})

DelayedByStatus(r, sends) == status[r] = "remote" \/ r \in sends

(* delay_free_blocks: a load or a send still uses the blocks of r. *)
delay_free_blocks(r, sends) ==
  (status[r] = "remote" /\ r \notin finished_recving) \/ r \in sends

CompletionsKept(ids, S) == ids

(* Finished requests are discarded from a set of load completions. *)
discarded(ids, S) == ids \ {r \in S : status[r] = "remote"}

(* finish_requests with _free_request: the live requests of R leave every  *)
(* queue; those a connector still loads into, or decides to send (sends),  *)
(* stay in self.requests until it reports completion.                      *)
finish_requests(R, sends) ==
  LET S == {r \in R : Live(r)}
  IN  /\ sends \subseteq S
      /\ running' = Without(running, S)
      /\ waiting' = Without(waiting, S)
      /\ skipped_waiting' = Without(skipped_waiting, S)
      /\ num_waiting_for_streaming_input' = input_waiters_left(S)
      /\ status' = [r \in Req |->
           IF r \notin S THEN status[r]
           ELSE IF delay_free_blocks(r, sends) THEN "finished" ELSE "gone"]
      /\ finished_recving' = discarded(finished_recving, S)
      /\ failed_recving' = discarded(failed_recving, S)
      /\ sending' = sending \cup sends
      /\ UNCHANGED recving

Abort(r) ==
  /\ phase = "idle"
  /\ Live(r)
  /\ \E sends \in SUBSET (IF Connector THEN {r} ELSE {}) : finish_requests({r}, sends)
  /\ UNCHANGED <<phase, step_skipped, streaming_queue, sent, has_computed,
                 staleVars, grammarVars, stepVars, stopVars>>

-----------------------------------------------------------------------------
(* schedule() *)

BeginSchedule ==
  /\ phase = "idle"
  /\ Len(device) < MaxBatches
  /\ phase' = "running"
  /\ UNCHANGED <<status, queueVars, sessionVars, has_computed, staleVars,
                 grammarVars, xferVars, stepVars, stopVars>>

(* A request whose sampled token is in flight has no token to compute; the *)
(* oldest stale[r] of its steps belong to an earlier residency.            *)
HasNewTokens(r) ==
  \A i \in DOMAIN device :
    device[i][r] = "sample" =>
      Cardinality({j \in 1 .. i : device[j][r] # "none"}) <= stale[r]

(* The running pass, or the pass over what is left after the waiting one. *)
ScheduleRunning(r, work) ==
  /\ phase \in {"running", "extra"}
  /\ status[r] = "running" /\ batch[r] = "none" /\ HasNewTokens(r)
  /\ work \in {"chunk", "sample"}
  /\ batch' = [batch EXCEPT ![r] = work]
  /\ has_computed' = [has_computed EXCEPT ![r] = TRUE]
  /\ UNCHANGED <<phase, status, queueVars, sessionVars, staleVars, grammarVars,
                 xferVars, preempted, device, stopVars>>

InFlight(r) == Cardinality({i \in DOMAIN device : device[i][r] # "none"})

(* _preempt_request for the requests of R, the last of running first. *)
_preempt_request(R, drop_stale_output) ==
  /\ \A r \in R : status[r] = "running" /\ preemptions[r] < MaxPreemptions
  /\ running' = Without(running, R)
  /\ waiting' = Without(running, Req \ R) \o waiting
  /\ status' = [r \in Req |-> IF r \in R THEN "preempted" ELSE status[r]]
  /\ has_computed' = [r \in Req |-> has_computed[r] /\ r \notin R]
  /\ preemptions' = [r \in Req |-> preemptions[r] + (IF r \in R THEN 1 ELSE 0)]
  /\ drop' = [r \in Req |-> IF r \in R
                            THEN drop_stale_output \/ (drop[r] /\ stale[r] > 0)
                            ELSE drop[r]]
  /\ stale' = [r \in Req |-> IF r \in R THEN InFlight(r) ELSE stale[r]]
  /\ UNCHANGED <<skipped_waiting, step_skipped, sessionVars, grammarVars, xferVars>>

(* No blocks: the last running request makes room; it cannot have been     *)
(* given tokens in this pass, which goes through running in order.         *)
PreemptVictim ==
  /\ MayPreempt
  /\ phase = "running"
  /\ running # <<>>
  /\ batch[Last(running)] = "none"
  /\ _preempt_request({Last(running)}, FALSE)
  /\ preempted' = TRUE
  /\ UNCHANGED <<phase, batch, device, stopVars>>

BeginWaiting ==
  /\ phase = "running"
  /\ ~preempted
  /\ phase' = "waiting"
  /\ UNCHANGED <<status, queueVars, sessionVars, has_computed, staleVars,
                 grammarVars, xferVars, stepVars, stopVars>>

Heads ==
  IF skipped_waiting # <<>> THEN {Head(skipped_waiting)}
  ELSE IF waiting # <<>> THEN {Head(waiting)} ELSE {}

SessionsIgnored == Len(running)

(* num_running: paused sessions hold a model-runner slot. *)
num_running == Len(running) + num_waiting_for_streaming_input

(* The requests the next iteration of the waiting pass may look at: the    *)
(* head of the queues, or any request the interleave controller picks      *)
(* (it is handed both queues and returns a queue and a request).           *)
Selected ==
  IF num_running >= MaxRunning THEN {}
  ELSE IF InterleavePrefill THEN Range(skipped_waiting) \cup Range(waiting)
  ELSE Heads

(* _try_promote_blocked_waiting_request returns True. *)
CanPromote(r) ==
  \/ status[r] = "remote" /\ r \in finished_recving
  \/ status[r] = "grammar" /\ grammar[r] = "ready"

promoted(r) ==
  IF ~_is_blocked_waiting_status(status[r]) THEN status[r]
  ELSE IF status[r] = "remote" /\ preemptions[r] > 0 THEN "preempted" ELSE "waiting"

PutAside(r) ==
  /\ waiting' = Without(waiting, {r})
  /\ skipped_waiting' = Without(skipped_waiting, {r})
  /\ step_skipped' = Append(step_skipped, r)

SkipBlocked(r) ==
  /\ phase = "waiting" /\ r \in Selected
  /\ _is_blocked_waiting_status(status[r]) /\ ~CanPromote(r)
  /\ PutAside(r)
  /\ grammar_errors' = IF status[r] = "grammar" /\ grammar[r] = "error"
                       THEN grammar_errors \cup {r} ELSE grammar_errors
  /\ UNCHANGED <<phase, status, running, sessionVars, has_computed, staleVars,
                 grammar, xferVars, stepVars, stopVars>>

(* A request that is not blocked, or that is promoted on the way. *)
Consider(r) ==
  /\ phase = "waiting" /\ r \in Selected
  /\ ~_is_blocked_waiting_status(status[r]) \/ CanPromote(r)
  /\ finished_recving' = finished_recving \ {r}
  /\ failed_recving' = failed_recving \ {r}

(* Stale output has to drain first, or a limit, the connector or a         *)
(* transfer of encoder inputs puts the request off to a later step.        *)
SkipReady(r) ==
  /\ Consider(r)
  /\ PutAside(r)
  /\ status' = [status EXCEPT ![r] = promoted(r)]
  /\ UNCHANGED <<phase, running, sessionVars, has_computed, staleVars,
                 grammarVars, recving, sending, stepVars, stopVars>>

may_resume(r) == stale[r] = 0 \/ drop[r]

(* Encoder inputs of a request with computed tokens are still in transit:  *)
(* the head of its queue is popped, whichever request was selected.        *)
SkipEncoderPending(r) ==
  /\ Consider(r) /\ may_resume(r) /\ has_computed[r]
  /\ IF r \in Range(skipped_waiting)
     THEN skipped_waiting' = Tail(skipped_waiting) /\ UNCHANGED waiting
     ELSE waiting' = Tail(waiting) /\ UNCHANGED skipped_waiting
  /\ step_skipped' = Append(step_skipped, r)
  /\ status' = [status EXCEPT ![r] = promoted(r)]
  /\ UNCHANGED <<phase, running, sessionVars, has_computed, staleVars,
                 grammarVars, recving, sending, stepVars, stopVars>>

(* Blocks allocated for a load: the request waits for the transfer. *)
StartLoad(r) ==
  /\ Connector
  /\ Consider(r) /\ may_resume(r) /\ ~has_computed[r]
  /\ PutAside(r)
  /\ status' = [status EXCEPT ![r] = "remote"]
  /\ has_computed' = [has_computed EXCEPT ![r] = TRUE]
  /\ recving' = recving \cup {r}
  /\ UNCHANGED <<phase, running, sessionVars, staleVars, grammarVars, sending,
                 stepVars, stopVars>>

Admit(r, work) ==
  /\ Consider(r) /\ may_resume(r)
  /\ work \in {"chunk", "sample"}
  /\ waiting' = Without(waiting, {r})
  /\ skipped_waiting' = Without(skipped_waiting, {r})
  /\ running' = Append(running, r)
  /\ status' = [status EXCEPT ![r] = "running"]
  /\ batch' = [batch EXCEPT ![r] = work]
  /\ has_computed' = [has_computed EXCEPT ![r] = TRUE]
  /\ UNCHANGED <<phase, step_skipped, sessionVars, staleVars, grammarVars,
                 recving, sending, preempted, device, stopVars>>

ForgottenSkipped == skipped_waiting

(* What the pass skipped goes back ahead of older skipped requests. *)
requeued == step_skipped \o skipped_waiting

EndPass ==
  /\ phase' = "extra"
  /\ skipped_waiting' = requeued
  /\ step_skipped' = <<>>
  /\ UNCHANGED <<running, waiting, sessionVars, has_computed, staleVars,
                 grammarVars, recving, sending, stepVars, stopVars>>

(* The pass ends at a request that finds no blocks or tokens ... *)
BreakAt(r) ==
  /\ Consider(r) /\ may_resume(r)
  /\ status' = [status EXCEPT ![r] = promoted(r)]
  /\ EndPass

(* ... or when the queues, the budgets or the request slots are exhausted. *)
EndWaiting ==
  /\ phase = "waiting"
  /\ UNCHANGED <<status, finished_recving, failed_recving>>
  /\ EndPass

EndSchedule ==
  /\ phase = "extra" \/ (phase = "running" /\ preempted)
  /\ phase' = "idle"
  /\ device' = Append(device, batch)
  /\ batch' = NoStep
  /\ preempted' = FALSE
  /\ UNCHANGED <<status, queueVars, sessionVars, has_computed, staleVars,
                 grammarVars, xferVars, stopVars>>

-----------------------------------------------------------------------------
(* update_from_output() of the oldest step in flight *)

(* Loads reported failed before the outputs are looked at: the request     *)
(* keeps a valid prefix or nothing at all (recompute policy).              *)
BeginUpdate(failed, keep) ==
  /\ phase = "idle"
  /\ device # <<>>
  /\ failed \subseteq {r \in recving : status[r] = "remote"} \ failed_recving
  /\ keep \subseteq failed
  /\ phase' = "update"
  /\ failed_recving' = failed_recving \cup failed
  /\ has_computed' = [r \in Req |-> has_computed[r] /\ r \notin failed \ keep]
  /\ UNCHANGED <<status, queueVars, sessionVars, staleVars, grammarVars, recving,
                 sending, finished_recving, stepVars, stopVars>>

PausedInAnyCase(r) ==
  /\ status' = [status EXCEPT ![r] = "streaming"]
  /\ num_waiting_for_streaming_input' = num_waiting_for_streaming_input + 1
  /\ skipped_waiting' = Append(skipped_waiting, r)
  /\ UNCHANGED <<streaming_queue, waiting, sending>>

(* _handle_stopped_request of a session that goes on: it begins its next   *)
(* chunk or waits for one; either way it is queued at once.                *)
ContinueSession(r) ==
  /\ UNCHANGED sending
  /\ IF streaming_queue[r] # <<>>
     THEN /\ status' = [status EXCEPT ![r] = "waiting"]
          /\ streaming_queue' = [streaming_queue EXCEPT ![r] = Tail(@)]
          /\ waiting' = Append(waiting, r)
          /\ UNCHANGED <<num_waiting_for_streaming_input, skipped_waiting>>
     ELSE /\ status' = [status EXCEPT ![r] = "streaming"]
          /\ num_waiting_for_streaming_input' = num_waiting_for_streaming_input + 1
          /\ skipped_waiting' = Append(skipped_waiting, r)
          /\ UNCHANGED <<streaming_queue, waiting>>

FinishStopped(r) ==
  /\ streaming_queue' = [streaming_queue EXCEPT ![r] = IF @ = <<>> THEN @ ELSE Tail(@)]
  /\ \E delay \in {FALSE, Connector} :
       /\ status' = [status EXCEPT ![r] = IF delay THEN "finished" ELSE "gone"]
       /\ sending' = IF delay THEN sending \cup {r} ELSE sending
  /\ UNCHANGED <<waiting, skipped_waiting, num_waiting_for_streaming_input>>

_handle_stopped_request(r) ==
  IF r \in Resumable /\ (streaming_queue[r] = <<>> \/ Head(streaming_queue[r]) = "chunk")
  THEN ContinueSession(r)
  ELSE FinishStopped(r)

(* The share of r in the oldest step; stop says whether its sampled tokens *)
(* meet a stop condition.                                                  *)
TakeOutput(r, stop) ==
  LET is_stale == stale[r] > 0
      dropped  == ~Live(r) \/ (is_stale /\ drop[r])
  IN  /\ phase = "update"
      /\ device[1][r] # "none"
      /\ stop => device[1][r] = "sample" /\ ~dropped
      /\ device' = [device EXCEPT ![1][r] = "none"]
      /\ stale' = [stale EXCEPT ![r] = IF Live(r) /\ is_stale THEN @ - 1 ELSE @]
      /\ IF stop
         THEN /\ _handle_stopped_request(r)
              /\ IF status[r] = "running"
                 THEN stopped_running' = stopped_running \cup {r}
                      /\ UNCHANGED stopped_preempted
                 ELSE stopped_preempted' = stopped_preempted \cup {r}
                      /\ UNCHANGED stopped_running
         ELSE UNCHANGED <<status, waiting, skipped_waiting, streaming_queue,
                          num_waiting_for_streaming_input, sending, stopVars>>
  /\ UNCHANGED <<phase, running, step_skipped, sent, has_computed, preemptions,
                 drop, grammarVars, recving, finished_recving, failed_recving,
                 batch, preempted>>

(* The stopped requests leave the queue they were in. *)
RemoveStopped ==
  /\ phase = "update"
  /\ device[1] = NoStep
  /\ phase' = "errors"
  /\ running' = Without(running, stopped_running)
  /\ waiting' = Without(waiting, stopped_preempted)
  /\ skipped_waiting' = Without(skipped_waiting, stopped_preempted)
  /\ stopped_running' = {} /\ stopped_preempted' = {}
  /\ UNCHANGED <<status, step_skipped, sessionVars, has_computed, staleVars,
                 grammarVars, xferVars, stepVars>>

(* Requests whose grammar did not compile end with an error. *)
FinishErrors ==
  /\ phase = "errors"
  /\ phase' = "xfer"
  /\ \E sends \in SUBSET (IF Connector THEN grammar_errors ELSE {}) :
       finish_requests(grammar_errors, sends)
  /\ grammar_errors' = {}
  /\ UNCHANGED <<step_skipped, streaming_queue, sent, has_computed, staleVars,
                 grammar, stepVars, stopVars>>

(* _update_from_kv_xfer_finished for the completed transfers. *)
_update_from_kv_xfer_finished(received, done) ==
  /\ phase = "xfer"
  /\ received \subseteq recving /\ done \subseteq sending
  /\ phase' = "idle"
  /\ recving' = recving \ received
  /\ sending' = sending \ done
  /\ finished_recving' = finished_recving \cup {r \in received : status[r] = "remote"}
  /\ status' = [r \in Req |-> IF status[r] = "finished" /\ r \in received \cup done
                              THEN "gone" ELSE status[r]]
  /\ device' = Tail(device)
  /\ UNCHANGED <<queueVars, sessionVars, has_computed, staleVars, grammarVars,
                 failed_recving, batch, preempted, stopVars>>

(* reset_prefix_cache(reset_running_requests=True) *)
reset_prefix_cache ==
  /\ MayPreempt
  /\ phase = "idle"
  /\ MaxBatches = 1 => device = <<>>
  /\ running # <<>>
  /\ _preempt_request(Range(running), TRUE)
  /\ UNCHANGED <<phase, stepVars, stopVars>>

Next ==
  \/ BeginSchedule \/ PreemptVictim \/ BeginWaiting \/ EndWaiting \/ EndSchedule
  \/ RemoveStopped \/ FinishErrors \/ reset_prefix_cache
  \/ \E r \in Req :
       \/ add_request(r) \/ Abort(r)
       \/ SkipBlocked(r) \/ SkipReady(r) \/ SkipEncoderPending(r)
       \/ StartLoad(r) \/ BreakAt(r)
       \/ \E result \in {"ready", "error"} : CompileGrammar(r, result)
       \/ \E work \in {"chunk", "sample"} : ScheduleRunning(r, work) \/ Admit(r, work)
       \/ \E stop \in BOOLEAN : TakeOutput(r, stop)
  \/ \E failed \in SUBSET recving : \E keep \in SUBSET failed : BeginUpdate(failed, keep)
  \/ \E received \in SUBSET recving : \E done \in SUBSET sending :
       _update_from_kv_xfer_finished(received, done)

Spec == Init /\ [][Next]_vars

-----------------------------------------------------------------------------
(* Properties *)

Count(q, r) == Cardinality({i \in DOMAIN q : q[i] = r})

(* Between two handlers every live request is in exactly one queue, once:  *)
(* in running when its status is RUNNING, in skipped_waiting when it is    *)
(* blocked, in one of the waiting queues otherwise; other requests are in  *)
(* none.  A request in no queue would never be scheduled again, one in two *)
(* would be scheduled twice.                                               *)
QueuedOnce ==
  phase = "idle" =>
    \A r \in Req :
      /\ Count(running, r) = IF status[r] = "running" THEN 1 ELSE 0
      /\ Count(waiting \o skipped_waiting, r) =
           IF Live(r) /\ status[r] # "running" THEN 1 ELSE 0
      /\ _is_blocked_waiting_status(status[r]) => Count(skipped_waiting, r) = 1

(* num_waiting_for_streaming_input counts the sessions that wait for a     *)
(* chunk; get_num_unfinished_requests is then the number of requests that  *)
(* the engine loop must keep running for.                                  *)
UnfinishedAreCounted ==
  phase = "idle" =>
    /\ num_waiting_for_streaming_input =
         Cardinality({r \in Req : status[r] = "streaming"})
    /\ Len(waiting) + Len(skipped_waiting) - num_waiting_for_streaming_input
         + Len(running) =
         Cardinality({r \in Req : Live(r) /\ status[r] # "streaming"})

(* A session that waits for its client has no update left to begin         *)
(* ("assert not request.streaming_queue").                                 *)
NoUpdateForgotten ==
  \A r \in Req : status[r] = "streaming" => streaming_queue[r] = <<>>

(* Requests and paused sessions together never need more slots of the      *)
(* model runner than there are.                                            *)
SlotsSuffice ==
  phase # "update" => Len(running) + num_waiting_for_streaming_input <= MaxRunning

(* Completions and failures of loads are kept for exactly the requests     *)
(* that still wait for them, and never for one whose load is under way.    *)
CompletionsBelong ==
  /\ finished_recving \cap recving = {}
  /\ finished_recving \cup failed_recving \subseteq {r \in Req : status[r] = "remote"}
  /\ phase = "idle" =>
       \A r \in Req : status[r] = "remote" => r \in recving \cup finished_recving

(* A request that has finished is kept in self.requests only while a       *)
(* transfer that will release it is under way.                             *)
FinishedIsReleased ==
  \A r \in Req : status[r] = "finished" => r \in recving \cup sending

(* What the waiting pass skipped is put back ("re-queue requests skipped   *)
(* in this pass"): between two handlers a live request that is not running *)
(* is in a waiting queue.                                                  *)
SkippedAreRequeued ==
  phase = "idle" =>
    \A r \in Req : Live(r) /\ status[r] # "running" =>
      Count(waiting \o skipped_waiting, r) > 0

(* A session whose next chunk has begun is queued, so that the chunk will  *)
(* be scheduled ("Commence next input chunk.").                            *)
SessionCommences ==
  phase = "idle" =>
    \A r \in Resumable : status[r] = "waiting" =>
      Count(waiting \o skipped_waiting, r) > 0
=============================================================================
