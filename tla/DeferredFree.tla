---------------------------- MODULE DeferredFree ----------------------------
(***************************************************************************)
(* Fenced release of KV-cache blocks in the scheduler (scheduler.py).      *)
(*                                                                         *)
(* With overlapping batches a model step that is still in flight may read  *)
(* or write the blocks of a request that was preempted or finished in the  *)
(* meantime.  A consumer KV connector fills freshly allocated blocks with  *)
(* a load that is NOT ordered after that step, so the scheduler delays the *)
(* return of such blocks to the pool: it counts the non-empty steps it     *)
(* scheduled (sched_step_seq) and processed (processed_step_seq), stamps   *)
(* every scheduled request (last_sched_seq), and parks blocks behind a     *)
(* fence in the FIFO deferred_frees.                                       *)
(*                                                                         *)
(* schedule(), update_from_output() and reset_prefix_cache() run to        *)
(* completion on one thread; phase says which of them is executing, and    *)
(* the iterations of its loops are actions of their own.                   *)
(***************************************************************************)
EXTENDS Naturals, Sequences, FiniteSets

CONSTANTS
  Req,          \* request identities
  Block,        \* physical KV-cache blocks
  Roles,        \* roles of the KV connector, {} when there is none
  MaxBatches,   \* VllmConfig.max_concurrent_batches
  MaxStep       \* bound on the number of steps ever issued

ASSUME ConfigAssumption ==
  /\ Roles \subseteq {"consumer", "producer"}
  /\ MaxBatches \in Nat \ {0}
  /\ MaxStep \in Nat \ {0}

VARIABLES
  phase,              \* the handler that is executing, "idle" between handlers
  status,             \* Request.status, reduced to what ownership depends on
  blocks,             \* the block table kv_cache_manager keeps for a request
  landing,            \* blocks of a request an asynchronous load is filling
  last_sched_seq,     \* Request.last_sched_seq
  sched_step_seq,
  processed_step_seq,
  deferred_frees,     \* FIFO of [fence, blocks]
  batch,              \* keys of num_scheduled_tokens in the running schedule()
  preempted,          \* preempted_reqs is not empty
  cow,                \* source blocks of the copy-on-write copies of this step
  issued, completed,  \* engine: steps handed to the workers / processed
  step                \* engine: what step i touches, and whose it is

handlerVars == <<phase, batch, preempted, cow>>
fenceVars   == <<last_sched_seq, sched_step_seq, processed_step_seq>>
engineVars  == <<issued, completed, step>>
ownerVars   == <<status, blocks, landing>>
vars == <<handlerVars, fenceVars, engineVars, ownerVars, deferred_frees>>

(* The passes of schedule(): over the running requests, over the waiting   *)
(* ones, and over the running ones again, because nothing was scheduled or *)
(* because capacity is left.                                               *)
Passes == {"running", "waiting", "fallback", "leftover"}
Phase  == {"idle", "update", "xfer", "reset"} \cup Passes
(* "absent"    not in self.requests                                        *)
(* "waiting"   WAITING or PREEMPTED, in a queue, holding blocks only after *)
(*             a finished load                                             *)
(* "loading"   WAITING_FOR_REMOTE_KVS, transfer under way                  *)
(* "landed"    WAITING_FOR_REMOTE_KVS, id in finished_recving_kv_req_ids   *)
(* "running"   RUNNING                                                     *)
(* "cancelled" finished while loading, blocks kept for the transfer        *)
(* "sending"   finished, blocks kept for the connector's send              *)
Status == {"absent", "waiting", "loading", "landed", "running",
           "cancelled", "sending"}
Entry  == [fence : Nat, blocks : SUBSET Block]
Step   == [reqs : SUBSET Req, touched : SUBSET Block, seq : Nat]

(* Types, and: what is scheduled in the step being built is running (a     *)
(* victim leaves the step together with its blocks).                       *)
TypeOK ==
  /\ phase \in Phase
  /\ status \in [Req -> Status]
  /\ blocks \in [Req -> SUBSET Block]
  /\ landing \in [Req -> SUBSET Block]
  /\ last_sched_seq \in [Req -> Nat]
  /\ sched_step_seq \in Nat
  /\ processed_step_seq \in Nat
  /\ deferred_frees \in Seq(Entry)
  /\ batch \subseteq {r \in Req : status[r] = "running"}
  /\ preempted \in BOOLEAN
  /\ cow \subseteq Block
  /\ issued \in 0 .. MaxStep
  /\ completed \in 0 .. MaxStep
  /\ step \in [0 .. MaxStep -> Step]

-----------------------------------------------------------------------------
(* self.defer_block_free, set once by the constructor. *)
defer_block_free == MaxBatches > 1 /\ "consumer" \in Roles

(* The references the block pool counts: request block tables, parked      *)
(* entries, and copy sources retained until the end of schedule().         *)
Parked == UNION {deferred_frees[i].blocks : i \in DOMAIN deferred_frees}
Held   == (UNION {blocks[r] : r \in Req}) \cup Parked \cup cow
Free   == Block \ Held

(* Blocks an asynchronous load may be writing at this moment. *)
Landing == UNION {landing[r] : r \in Req}

(* Steps handed to the workers whose output has not been processed. *)
InFlight == completed + 1 .. issued

(* The step that update_from_output() is working on. *)
Current == step[completed]

Init ==
  /\ phase = "idle"
  /\ status = [r \in Req |-> "absent"]
  /\ blocks = [r \in Req |-> {}]
  /\ landing = [r \in Req |-> {}]
  /\ last_sched_seq = [r \in Req |-> 0]
  /\ sched_step_seq = 0
  /\ processed_step_seq = 0
  /\ deferred_frees = <<>>
  /\ batch = {}
  /\ preempted = FALSE
  /\ cow = {}
  /\ issued = 0
  /\ completed = 0
  /\ step = [i \in 0 .. MaxStep |-> [reqs |-> {}, touched |-> {}, seq |-> 0]]

-----------------------------------------------------------------------------
(* Faulty variants, each the shape of a plausible slip in the definition   *)
(* that follows it; no specification uses them.                            *)
FreedWithoutFence(r) == TRUE

_request_blocks_can_be_freed(r) ==
  ~defer_block_free \/ last_sched_seq[r] <= processed_step_seq

(* deferred_frees after _free_request_blocks: unchanged when the blocks go *)
(* straight back to the pool or when there are none to park.               *)
_free_request_blocks(r) ==
  IF _request_blocks_can_be_freed(r) \/ blocks[r] = {}
  THEN deferred_frees
  ELSE Append(deferred_frees, [fence |-> sched_step_seq, blocks |-> blocks[r]])

_free_cow_retained_blocks(retained, fence_seq) ==
  IF ~defer_block_free \/ fence_seq <= processed_step_seq \/ retained = {}
  THEN deferred_frees
  ELSE Append(deferred_frees, [fence |-> fence_seq, blocks |-> retained])

DrainedStrictly(n, processed) ==
  /\ n \in 0 .. Len(deferred_frees)
  /\ \A i \in 1 .. n : deferred_frees[i].fence < processed
  /\ n < Len(deferred_frees) => deferred_frees[n + 1].fence >= processed
  /\ deferred_frees' = SubSeq(deferred_frees, n + 1, Len(deferred_frees))

NeverDrained(n, processed) ==
  /\ n = 0
  /\ UNCHANGED deferred_frees

(* _drain_deferred_frees pops n entries: all those up to the first pending *)
(* fence.                                                                  *)
_drain_deferred_frees(n, processed) ==
  /\ n \in 0 .. Len(deferred_frees)
  /\ \A i \in 1 .. n : deferred_frees[i].fence <= processed
  /\ n < Len(deferred_frees) => deferred_frees[n + 1].fence > processed
  /\ deferred_frees' = SubSeq(deferred_frees, n + 1, Len(deferred_frees))

(* _preempt_request, the part that concerns blocks. *)
_preempt_request(r) ==
  /\ status[r] = "running"
  /\ deferred_frees' = _free_request_blocks(r)
  /\ blocks' = [blocks EXCEPT ![r] = {}]
  /\ status' = [status EXCEPT ![r] = "waiting"]

(* add_request for an id the scheduler does not know. *)
add_request(r) ==
  /\ phase = "idle"
  /\ status[r] = "absent"
  /\ status' = [status EXCEPT ![r] = "waiting"]
  /\ last_sched_seq' = [last_sched_seq EXCEPT ![r] = 0]
  /\ UNCHANGED <<handlerVars, sched_step_seq, processed_step_seq, engineVars,
                 blocks, landing, deferred_frees>>

-----------------------------------------------------------------------------
(* schedule() *)

(* The engine keeps at most max_concurrent_batches steps in flight. *)
BeginSchedule ==
  /\ phase = "idle"
  /\ issued - completed < MaxBatches
  /\ issued < MaxStep
  /\ phase' = "running"
  /\ UNCHANGED <<batch, preempted, cow, fenceVars, engineVars, ownerVars,
                 deferred_frees>>

(* A running request gets the new blocks allocate_slots finds for it. *)
ScheduleRunning(r, fresh) ==
  /\ phase \in {"running", "fallback", "leftover"}
  /\ status[r] = "running"
  /\ r \notin batch
  /\ fresh \subseteq Free
  /\ blocks' = [blocks EXCEPT ![r] = @ \cup fresh]
  /\ batch' = batch \cup {r}
  /\ UNCHANGED <<phase, preempted, cow, fenceVars, engineVars, status, landing,
                 deferred_frees>>

VictimStaysInStep(r) ==
  /\ phase \in {"running", "fallback"}
  /\ _request_blocks_can_be_freed(r)
  /\ _preempt_request(r)
  /\ preempted' = TRUE
  /\ UNCHANGED <<phase, batch, cow, fenceVars, engineVars, landing>>

(* allocate_slots returned None: the victim is preempted, provided its     *)
(* blocks really come back to the pool now.  Under the PRIORITY policy the *)
(* victim may already be part of this step and is taken out of it.         *)
PreemptVictim(r) ==
  /\ phase \in {"running", "fallback"}
  /\ _request_blocks_can_be_freed(r)
  /\ _preempt_request(r)
  /\ batch' = batch \ {r}
  /\ preempted' = TRUE
  /\ UNCHANGED <<phase, cow, fenceVars, engineVars, landing>>

(* The waiting queues are visited only if nothing was preempted. *)
BeginWaiting ==
  /\ phase = "running"
  /\ ~preempted
  /\ phase' = "waiting"
  /\ UNCHANGED <<batch, preempted, cow, fenceVars, engineVars, ownerVars,
                 deferred_frees>>

(* _try_promote_blocked_waiting_request / _update_waiting_for_remote_kv: a *)
(* load that failed without any valid token frees its blocks at once.      *)
PromoteLoaded(r, valid) ==
  /\ phase = "waiting"
  /\ status[r] = "landed"
  /\ status' = [status EXCEPT ![r] = "waiting"]
  /\ blocks' = IF valid THEN blocks ELSE [blocks EXCEPT ![r] = {}]
  /\ UNCHANGED <<handlerVars, fenceVars, engineVars, landing, deferred_frees>>

(* A waiting request joins the running ones.  hits are blocks with cached  *)
(* contents (prefix hit, so possibly shared, never one still being loaded);*)
(* a request that resumes after a load keeps the blocks it has.  With a    *)
(* copy-on-write tail the source is retained for the copy of this step.    *)
AdmitWaiting(r, hits, fresh, source) ==
  /\ phase = "waiting"
  /\ status[r] = "waiting"
  /\ hits \cap Landing = {}
  /\ blocks[r] # {} => hits = {}
  /\ source \cap Landing = {}
  /\ source # {} => fresh # {}
  /\ fresh \subseteq Free \ (hits \cup source)
  /\ blocks[r] \cup hits \cup fresh # {}
  /\ status' = [status EXCEPT ![r] = "running"]
  /\ blocks' = [blocks EXCEPT ![r] = @ \cup hits \cup fresh]
  /\ batch' = batch \cup {r}
  /\ cow' = cow \cup source
  /\ UNCHANGED <<phase, preempted, fenceVars, engineVars, landing,
                 deferred_frees>>

(* load_kv_async: blocks are allocated, the connector starts filling the   *)
(* fresh ones, and the request waits outside running.                      *)
StartLoad(r, hits, fresh) ==
  /\ phase = "waiting"
  /\ "consumer" \in Roles
  /\ status[r] = "waiting"
  /\ blocks[r] = {}
  /\ hits \cap Landing = {}
  /\ fresh # {}
  /\ fresh \subseteq Free \ hits
  /\ status' = [status EXCEPT ![r] = "loading"]
  /\ blocks' = [blocks EXCEPT ![r] = hits \cup fresh]
  /\ landing' = [landing EXCEPT ![r] = fresh]
  /\ UNCHANGED <<handlerVars, fenceVars, engineVars, deferred_frees>>

(* The running requests are visited once more after the waiting ones: a    *)
(* pass for a step that would be empty may preempt, one that uses what is  *)
(* left of the step's capacity may not.                                    *)
BeginAgain ==
  /\ phase = "waiting"
  /\ phase' = IF batch = {} THEN "fallback" ELSE "leftover"
  /\ UNCHANGED <<batch, preempted, cow, fenceVars, engineVars, ownerVars,
                 deferred_frees>>

AdvancedByEveryStep(scheduled) ==
  IF defer_block_free THEN sched_step_seq + 1 ELSE sched_step_seq

(* sched_step_seq after a step with these requests: only a non-empty one   *)
(* advances the counter.                                                   *)
advanced_step_seq(scheduled) ==
  IF defer_block_free /\ scheduled # {} THEN sched_step_seq + 1
                                        ELSE sched_step_seq

(* The end of schedule(): copy sources are released behind the fence of    *)
(* the first non-empty step from here on, then the counter is advanced and *)
(* the requests of the step are stamped with it.                           *)
EndSchedule ==
  LET seq == advanced_step_seq(batch)
  IN  /\ phase \in Passes
      /\ phase = "running" => preempted
      /\ deferred_frees' = _free_cow_retained_blocks(cow, sched_step_seq + 1)
      /\ sched_step_seq' = seq
      /\ last_sched_seq' =
           IF defer_block_free
           THEN [r \in Req |-> IF r \in batch THEN seq ELSE last_sched_seq[r]]
           ELSE last_sched_seq
      /\ issued' = issued + 1
      /\ step' = [step EXCEPT ![issued + 1] =
                    [reqs    |-> batch,
                     touched |-> (UNION {blocks[r] : r \in batch}) \cup cow,
                     seq     |-> seq]]
      /\ phase' = "idle"
      /\ batch' = {}
      /\ preempted' = FALSE
      /\ cow' = {}
      /\ UNCHANGED <<processed_step_seq, completed, ownerVars>>

-----------------------------------------------------------------------------
(* update_from_output(), called once per step in the order of issue *)

BeginUpdate ==
  /\ phase = "idle"
  /\ completed < issued
  /\ completed' = completed + 1
  /\ IF defer_block_free /\ step[completed + 1].reqs # {}
     THEN /\ processed_step_seq' = processed_step_seq + 1
          /\ \E n \in 0 .. Len(deferred_frees) :
               _drain_deferred_frees(n, processed_step_seq + 1)
     ELSE UNCHANGED <<processed_step_seq, deferred_frees>>
  /\ phase' = "update"
  /\ UNCHANGED <<batch, preempted, cow, last_sched_seq, sched_step_seq, issued,
                 step, ownerVars>>

(* _free_request of a request that is not loading: the connector may ask   *)
(* to keep the blocks until its send is over.                              *)
_free_request(r, delay_free_blocks) ==
  /\ delay_free_blocks => Roles # {}
  /\ status' = [status EXCEPT ![r] =
                  IF delay_free_blocks THEN "sending" ELSE "absent"]
  /\ IF delay_free_blocks
     THEN UNCHANGED <<blocks, deferred_frees>>
     ELSE /\ deferred_frees' = _free_request_blocks(r)
          /\ blocks' = [blocks EXCEPT ![r] = {}]

(* A request of the processed step reached a stop condition, while running *)
(* or after having been preempted with deliverable output in flight.       *)
StopRequest(r, delay_free_blocks) ==
  /\ phase = "update"
  /\ r \in Current.reqs
  /\ status[r] \in {"running", "waiting"}
  /\ _free_request(r, delay_free_blocks)
  /\ UNCHANGED <<handlerVars, fenceVars, engineVars, landing>>

BeginXfer ==
  /\ phase = "update"
  /\ phase' = "xfer"
  /\ UNCHANGED <<batch, preempted, cow, fenceVars, engineVars, ownerVars,
                 deferred_frees>>

(* _free_blocks of a finished request whose transfer is over. *)
_free_blocks(r) ==
  /\ deferred_frees' = _free_request_blocks(r)
  /\ blocks' = [blocks EXCEPT ![r] = {}]
  /\ status' = [status EXCEPT ![r] = "absent"]

(* The connector reports the end of a load; it writes no more from here. *)
FinishedRecving(r) ==
  /\ phase = "xfer"
  /\ landing' = [landing EXCEPT ![r] = {}]
  /\ \/ /\ status[r] = "loading"
        /\ status' = [status EXCEPT ![r] = "landed"]
        /\ UNCHANGED <<blocks, deferred_frees>>
     \/ /\ status[r] = "cancelled"
        /\ _free_blocks(r)
  /\ UNCHANGED <<handlerVars, fenceVars, engineVars>>

FinishedSending(r) ==
  /\ phase = "xfer"
  /\ status[r] = "sending"
  /\ _free_blocks(r)
  /\ UNCHANGED <<handlerVars, fenceVars, engineVars, landing>>

(* The step's output object is dropped with the handler. *)
EndUpdate ==
  /\ phase = "xfer"
  /\ phase' = "idle"
  /\ step' = [step EXCEPT ![completed].reqs = {}, ![completed].touched = {}]
  /\ UNCHANGED <<batch, preempted, cow, fenceVars, issued, completed, ownerVars,
                 deferred_frees>>

-----------------------------------------------------------------------------
AbortReleasesLoadingBlocks(r, delay_free_blocks) ==
  /\ phase \in {"idle", "update"}
  /\ status[r] \in {"waiting", "loading", "landed", "running"}
  /\ _free_request(r, delay_free_blocks)
  /\ UNCHANGED <<handlerVars, fenceVars, engineVars, landing>>

(* finish_requests, between two handlers (an abort) or from                *)
(* update_from_output (an error).  A load under way keeps its blocks.      *)
finish_requests(r, delay_free_blocks) ==
  /\ phase \in {"idle", "update"}
  /\ \/ /\ status[r] \in {"waiting", "landed", "running"}
        /\ _free_request(r, delay_free_blocks)
     \/ /\ status[r] = "loading"
        /\ ~delay_free_blocks
        /\ status' = [status EXCEPT ![r] = "cancelled"]
        /\ UNCHANGED <<blocks, deferred_frees>>
  /\ UNCHANGED <<handlerVars, fenceVars, engineVars, landing>>

(* reset_prefix_cache(reset_running_requests=True): every running request  *)
(* is preempted, whatever is in flight, and the pool is then reset, which  *)
(* needs every block back.                                                 *)
BeginReset ==
  /\ phase = "idle"
  /\ phase' = "reset"
  /\ UNCHANGED <<batch, preempted, cow, fenceVars, engineVars, ownerVars,
                 deferred_frees>>

ResetPreempt(r) ==
  /\ phase = "reset"
  /\ _preempt_request(r)
  /\ UNCHANGED <<handlerVars, fenceVars, engineVars, landing>>

ResetDone ==
  /\ phase = "reset"
  /\ \A r \in Req : status[r] # "running"
  /\ phase' = "idle"
  /\ UNCHANGED <<batch, preempted, cow, fenceVars, engineVars, ownerVars,
                 deferred_frees>>

-----------------------------------------------------------------------------
Next ==
  \/ \E r \in Req : add_request(r)
  \/ BeginSchedule
  \/ \E r \in Req, fresh \in SUBSET Block : ScheduleRunning(r, fresh)
  \/ \E r \in Req : PreemptVictim(r)
  \/ BeginWaiting
  \/ \E r \in Req, valid \in BOOLEAN : PromoteLoaded(r, valid)
  \/ \E r \in Req, hits, fresh, source \in SUBSET Block :
       AdmitWaiting(r, hits, fresh, source)
  \/ \E r \in Req, hits, fresh \in SUBSET Block : StartLoad(r, hits, fresh)
  \/ BeginAgain
  \/ EndSchedule
  \/ BeginUpdate
  \/ \E r \in Req, delay \in BOOLEAN : StopRequest(r, delay)
  \/ BeginXfer
  \/ \E r \in Req : FinishedRecving(r)
  \/ \E r \in Req : FinishedSending(r)
  \/ EndUpdate
  \/ \E r \in Req, delay \in BOOLEAN : finish_requests(r, delay)
  \/ BeginReset
  \/ \E r \in Req : ResetPreempt(r)
  \/ ResetDone

Spec == Init /\ [][Next]_vars

(* A started handler runs to its end; every turn of the engine loop, after *)
(* the calls that were queued for it, goes on with the oldest step in      *)
(* flight, which is why calls cannot postpone BeginUpdate for ever (SF).   *)
Fairness ==
  /\ WF_vars(EndSchedule) /\ WF_vars(BeginWaiting)
  /\ SF_vars(BeginUpdate) /\ WF_vars(BeginXfer) /\ WF_vars(EndUpdate)
  /\ WF_vars(\E r \in Req : ResetPreempt(r)) /\ WF_vars(ResetDone)

FairSpec == Spec /\ Fairness

(* The promise made to the connector, with the queue of the engine.        *)
Reuse == INSTANCE BlockReuse WITH
           held    <- Held,
           landing <- Landing,
           device  <- [i \in 1 .. issued - completed |->
                         step[completed + i].touched]

-----------------------------------------------------------------------------
(* No block an asynchronous load may be writing is read or written by a    *)
(* step whose output has not been processed: the race defer_block_free is  *)
(* there to exclude, for every mix of preemption, abort, prefix sharing,   *)
(* copy-on-write and reset.                                                *)
NoOverwrite == \A i \in InFlight : step[i].touched \cap Landing = {}

(* A block that is being filled belongs to the loading request alone, even *)
(* after that request was aborted: it is in no other block table, not      *)
(* parked, and not the source of a copy.                                   *)
LandingExclusive ==
  \A r \in Req :
    /\ landing[r] \subseteq blocks[r]
    /\ landing[r] # {} => status[r] \in {"loading", "cancelled"}
    /\ landing[r] \cap (Parked \cup cow) = {}
    /\ \A q \in Req \ {r} : landing[r] \cap blocks[q] = {}

(* The two counters meet whenever nothing is in flight, although empty     *)
(* steps are issued and processed too: "these stay in sync" (l. 459-460).  *)
CountersInSync == issued = completed => processed_step_seq = sched_step_seq

(* Nothing that could be returned is left at the head of the FIFO, and no  *)
(* fence waits for more than the next non-empty step: so once the pipeline *)
(* is empty, an entry can only remain behind a copy-on-write fence.        *)
DrainedUpToFence ==
  deferred_frees # <<>> =>
    /\ Head(deferred_frees).fence > processed_step_seq
    /\ \A i \in DOMAIN deferred_frees :
         deferred_frees[i].fence <= sched_step_seq + 1

(* Without a consumer connector, or with one batch at a time, no block is  *)
(* ever parked: a preemption gives its blocks to the very next allocation. *)
NothingParkedUnlessNeeded == ~defer_block_free => deferred_frees = <<>>

(* The fenced scheduler keeps the promise BlockReuse states. *)
ImplementsBlockReuse == Reuse!Spec

(* reset_prefix_cache: with every running request preempted and no other   *)
(* request holding blocks, "we can reduce the ref count of all the kv      *)
(* blocks to 0 and thus we can make sure the reset is successful".         *)
ResetSucceeds ==
  (phase = "reset" /\ \A r \in Req : blocks[r] = {}) => Held = {}

(* A parked block no entry of the queue keeps waiting for a step that has  *)
(* not been scheduled.                                                     *)
AwaitsScheduledStep(b) ==
  b \in Parked /\ \A i \in DOMAIN deferred_frees : deferred_frees[i].fence <= sched_step_seq
(* Everything parked comes back once the steps it waits for are processed. *)
ParkedIsReturned == \A b \in Block : AwaitsScheduledStep(b) ~> (b \notin Parked)

-----------------------------------------------------------------------------
(* The strengthening that makes NoOverwrite inductive.                     *)

(* Handlers own their scratch variables; the engine's window is bounded.   *)
HandlerInv ==
  /\ phase \notin Passes => batch = {} /\ cow = {} /\ ~preempted
  /\ phase = "waiting" => ~preempted
  /\ completed <= issued
  /\ issued - completed <= MaxBatches
  /\ phase \in Passes =>
       issued - completed < MaxBatches /\ issued < MaxStep
  /\ "consumer" \notin Roles => Landing = {}
  /\ \A r \in Req : status[r] = "absent" => blocks[r] = {}

(* seq of a step is sched_step_seq when it was issued. *)
SeqInv ==
  /\ defer_block_free =>
       /\ step[completed].seq = processed_step_seq
       /\ step[issued].seq = sched_step_seq
       /\ \A i \in InFlight :
            step[i].seq = step[i - 1].seq + (IF step[i].reqs = {} THEN 0 ELSE 1)
       /\ \A i, j \in completed .. issued : i <= j => step[i].seq <= step[j].seq
       /\ \A r \in Req : last_sched_seq[r] <= sched_step_seq
  /\ ~defer_block_free =>
       processed_step_seq = sched_step_seq /\ deferred_frees = <<>>

(* Whatever a step in flight touches is held by a request that was stamped *)
(* by it or later and is not in a load (a failed load frees its blocks     *)
(* without looking at the stamp), or is parked behind a fence that this    *)
(* step has to pass.                                                       *)
FenceInv ==
  defer_block_free =>
    \A i \in InFlight : \A b \in step[i].touched :
      \/ \E r \in Req : /\ b \in blocks[r]
                       /\ status[r] \notin {"loading", "landed", "cancelled"}
                       /\ last_sched_seq[r] > step[i - 1].seq
      \/ \E k \in DOMAIN deferred_frees :
           b \in deferred_frees[k].blocks
             /\ deferred_frees[k].fence > step[i - 1].seq

(* The inductive invariant. *)
IInv ==
  /\ TypeOK
  /\ HandlerInv
  /\ SeqInv
  /\ LandingExclusive
  /\ FenceInv
  /\ NoOverwrite
=============================================================================
