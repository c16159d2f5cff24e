------------------------------- MODULE MCLive -------------------------------
(* The liveness of the two counting protocols of the scheduler, checked side *)
(* by side: fenced blocks of two requests with two steps in flight, and the  *)
(* output of one request with three steps in flight (pipeline parallelism    *)
(* without asynchronous scheduling). They share no state here; a behaviour   *)
(* is one of the part "which" names, with that part's fairness.              *)
EXTENDS Integers

VARIABLES which, c1, c2, c3, c4, c5, c6, c7, c8, c9, c10, c11, c12, c13, c14
vars == <<which, c1, c2, c3, c4, c5, c6, c7, c8, c9, c10, c11, c12, c13, c14>>

MCBlocks == {"b1", "b2"}
Fence == INSTANCE DeferredFree WITH
  Req <- {"r1", "r2"}, Block <- MCBlocks, Roles <- {"consumer"}, MaxBatches <- 2, MaxStep <- 2,
  phase <- c1, status <- c2, blocks <- c3, landing <- c4, last_sched_seq <- c5, sched_step_seq <- c6,
  processed_step_seq <- c7, deferred_frees <- c8, batch <- c9, preempted <- c10, cow <- c11,
  issued <- c12, completed <- c13, step <- c14
Output == INSTANCE OutputAccounting WITH
  Req <- {"r1"}, Prompt <- 3, MaxOut <- 2, NumSpec <- 0, Async <- FALSE, KVDelivery <- FALSE,
  MaxBatches <- 3, MaxPreemptions <- 3,
  phase <- c1, status <- c2, tokens <- c3, computed <- c4, placeholders <- c5, in_flight <- c6,
  stale <- c7, drop <- c8, preemptions <- c9, spec <- c10, batch <- c11, preempted <- c12,
  device <- c13, known <- c14

Init == (which = "fence" /\ Fence!Init) \/ (which = "output" /\ Output!Init)
OfFence(Action)  == which = "fence" /\ Action /\ UNCHANGED which
OfOutput(Action) == which = "output" /\ Action /\ UNCHANGED which
Next == OfFence(Fence!Next) \/ OfOutput(Output!Next)
\* The fairness DeferredFree and OutputAccounting state. A behaviour has the
\* actions of one part only, so a condition for each part is one for both.
FairSpec ==
  /\ Init /\ [][Next]_vars
  /\ WF_vars(OfFence(Fence!EndSchedule) \/ OfOutput(Output!_update_after_schedule))
  /\ WF_vars(OfFence(Fence!BeginWaiting) \/ OfOutput(Output!BeginWaiting))
  /\ SF_vars(OfFence(Fence!BeginUpdate)
             \/ OfOutput(\E appended \in 0..1, stopped \in BOOLEAN : Output!update_from_output("r1", 0, appended, stopped)))
  /\ WF_vars(OfFence(Fence!BeginXfer)) /\ WF_vars(OfFence(Fence!EndUpdate))
  /\ WF_vars(OfFence(\E r \in {"r1", "r2"} : Fence!ResetPreempt(r))) /\ WF_vars(OfFence(Fence!ResetDone))
-----------------------------------------------------------------------------
\* Everything parked comes back once the steps it waits for are processed.
ParkedIsReturned ==
  \A b \in MCBlocks : (which = "fence" /\ Fence!AwaitsScheduledStep(b)) ~> (which = "fence" /\ b \notin Fence!Parked)
\* The stale output of a preempted request drains, so its resumption is not
\* put off, nor its output dropped, for ever.
StaleDrains ==
  (which = "output" /\ c7["r1"] > 0) ~> (which = "output" /\ (c7["r1"] = 0 \/ c2["r1"] = "finished"))
=============================================================================
