----------------------------- MODULE MCScheduler -----------------------------
(* Two modules about the scheduler, each in two instances, for TLC; a        *)
(* behaviour is one of the instance "part" names.                            *)
(*   "priority"  ScheduleStep as the configuration file describes it: the    *)
(*               priority policy with drafts and throttled prefills;         *)
(*   "fcfs"      ScheduleStep under FCFS, with the compute-share controller, *)
(*               adapters and boundary checkpoints instead;                  *)
(*   "requests"  RequestQueues with transfers, grammars, preemption and two  *)
(*               steps in flight;                                            *)
(*   "sessions"  RequestQueues with two streaming sessions and a third       *)
(*               request, in single steps.                                   *)
(* The variables of ScheduleStep, and two cells, hold those of RequestQueues *)
(* in the last two.                                                          *)
EXTENDS MCScheduleStep

VARIABLES part, c1, c2
allVars == <<vars, part, c1, c2>>

Fcfs == INSTANCE ScheduleStep WITH
  ByPriority <- FALSE, Adapter <- OneOfEach, ComputeShare <- TRUE, Throttle <- FALSE,
  Checkpoints <- TRUE, InputCap <- 4, DraftSlots <- 0, DraftInput <- 0, MaxDrafts <- 0

Requests == INSTANCE RequestQueues WITH
  Req <- R2, Resumable <- {}, Structured <- {r1}, Connector <- TRUE, InterleavePrefill <- FALSE,
  MayPreempt <- TRUE, MaxRunning <- 2, MaxBatches <- 2, MaxChunks <- 0, MaxPreemptions <- 1,
  status <- left, skipped_waiting <- skipped, step_skipped <- drafts,
  num_waiting_for_streaming_input <- prefill, streaming_queue <- step, sent <- defer_prefills,
  has_computed <- req_index, preemptions <- num_new_tokens, stale <- num_scheduled_tokens,
  drop <- new, grammar <- boundary, grammar_errors <- scheduled_loras, recving <- token_budget,
  sending <- input_budget, finished_recving <- draft_input_budget, failed_recving <- visited,
  batch <- considered, device <- out_of_blocks, stopped_running <- c1, stopped_preempted <- c2
Sessions == INSTANCE RequestQueues WITH
  Req <- R3, Resumable <- R2, Structured <- {}, Connector <- FALSE, InterleavePrefill <- FALSE,
  MayPreempt <- FALSE, MaxRunning <- 2, MaxBatches <- 1, MaxChunks <- 2, MaxPreemptions <- 1,
  status <- left, skipped_waiting <- skipped, step_skipped <- drafts,
  num_waiting_for_streaming_input <- prefill, streaming_queue <- step, sent <- defer_prefills,
  has_computed <- req_index, preemptions <- num_new_tokens, stale <- num_scheduled_tokens,
  drop <- new, grammar <- boundary, grammar_errors <- scheduled_loras, recving <- token_budget,
  sending <- input_budget, finished_recving <- draft_input_budget, failed_recving <- visited,
  batch <- considered, device <- out_of_blocks, stopped_running <- c1, stopped_preempted <- c2
ASSUME InstancesAssumption == Requests!QueuesAssumption /\ Sessions!QueuesAssumption

MCInit == \/ part = "priority" /\ Init /\ c1 = {} /\ c2 = {}
          \/ part = "fcfs" /\ Fcfs!Init /\ c1 = {} /\ c2 = {}
          \/ part = "requests" /\ Requests!Init
          \/ part = "sessions" /\ Sessions!Init
MCNext == \/ part = "priority" /\ Next /\ UNCHANGED <<part, c1, c2>>
          \/ part = "fcfs" /\ Fcfs!Next /\ UNCHANGED <<part, c1, c2>>
          \/ part = "requests" /\ Requests!Next /\ UNCHANGED part
          \/ part = "sessions" /\ Sessions!Next /\ UNCHANGED part
MCSpec == MCInit /\ [][MCNext]_allVars
-----------------------------------------------------------------------------
(* The properties of ScheduleStep; those that do not depend on constants the *)
(* instances differ in are taken from the first.                             *)
Stepping == part \in {"priority", "fcfs"}
\* What a step gives out and takes back balances, within the types of the
\* state and the bounds of its counters, under either policy.
BothBalance ==
  /\ part = "priority" => TypeOK /\ BudgetsBalance
  /\ part = "fcfs" => Fcfs!TypeOK /\ Fcfs!BudgetsBalance
\* A pass leaves out no running request, although evictions shift the list.
EveryoneConsidered == Stepping => NobodyPassedOver
\* An evicted request leaves the step, and under PRIORITY no request is
\* computed in a step that preempted a more important one.
EvictionIsOrdered ==
  /\ Stepping => EvictedIsUnscheduled
  /\ part = "priority" => EvictionFollowsPriority
\* Saved boundary logits are computed in a step of their own.
BoundaryStepIsAlone == Stepping => BoundaryIsAlone
\* A step without work is never the choice of the policy.
EmptyStepIsExplained == Stepping => EmptyStepIsForced
\* The passes over what is left take nothing away from those served before.
LeftoverIsHarmless == [][Stepping => LeftoverKeepsService]_allVars
-----------------------------------------------------------------------------
(* The properties of RequestQueues, of both instances or of the one they     *)
(* concern.                                                                  *)
\* A live request is in exactly one of the queues, within the types of the
\* state and the bounds of its counters, and get_num_unfinished_requests
\* counts the requests that are not paused.
BothQueued ==
  /\ part = "requests" => Requests!TypeOK /\ Requests!QueuedOnce /\ Requests!UnfinishedAreCounted
  /\ part = "sessions" => Sessions!TypeOK /\ Sessions!QueuedOnce /\ Sessions!UnfinishedAreCounted
\* Completions of loads wait only for requests that wait for them, and a
\* finished request is kept only for a transfer under way.
TransfersBelong == part = "requests" => Requests!CompletionsBelong /\ Requests!FinishedIsReleased
\* A session that waits for its client has no update left to begin.
NoSessionForgotten == part = "sessions" => Sessions!NoUpdateForgotten
\* Requests and paused sessions together fit into the model runner's slots.
SlotsSufficeForAll == part = "sessions" => Sessions!SlotsSuffice
=============================================================================
