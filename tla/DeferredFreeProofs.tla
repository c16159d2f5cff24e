------------------------- MODULE DeferredFreeProofs -------------------------
(* Proofs about DeferredFree, for every set of requests and blocks, every  *)
(* connector role and every pipeline depth; then that the fenced scheduler *)
(* implements BlockReuse and drains its queue up to the first pending      *)
(* fence.                                                                  *)
EXTENDS DeferredFree, SequenceTheorems, TLAPS

LEMMA InitTypeOK == Init => TypeOK
  <1> SUFFICES ASSUME Init PROVE TypeOK
    OBVIOUS
  <1>1. deferred_frees \in Seq(Entry)
    BY DEF Init
  <1>2. issued \in 0 .. MaxStep /\ completed \in 0 .. MaxStep
    BY ConfigAssumption DEF Init
  <1>3. step \in [0 .. MaxStep -> Step]
    BY DEF Init, Step
  <1>4. batch \subseteq {r \in Req : status[r] = "running"} /\ cow \subseteq Block
    BY DEF Init
  <1> QED BY <1>1, <1>2, <1>3, <1>4 DEF Init, TypeOK, Phase, Passes, Status

(* What _free_request_blocks leaves in the FIFO: all the entries there     *)
(* were, and nothing but the request's blocks in addition, which are       *)
(* parked behind sched_step_seq if a step may still touch them.            *)
LEMMA FreedBlocks ==
  ASSUME TypeOK, NEW r \in Req,
         NEW d, d = _free_request_blocks(r)
  PROVE  /\ d \in Seq(Entry)
         /\ \A k \in DOMAIN deferred_frees :
              k \in DOMAIN d /\ d[k] = deferred_frees[k]
         /\ \A k \in DOMAIN d : d[k].blocks \subseteq Parked \cup blocks[r]
         /\ ~_request_blocks_can_be_freed(r) =>
              \A b \in blocks[r] : \E k \in DOMAIN d :
                b \in d[k].blocks /\ d[k].fence = sched_step_seq
         /\ _request_blocks_can_be_freed(r) => d = deferred_frees
  <1> DEFINE e == [fence |-> sched_step_seq, blocks |-> blocks[r]]
  <1>1. e \in Entry
    BY DEF TypeOK, Entry
  <1>2. \A k \in DOMAIN deferred_frees : deferred_frees[k].blocks \subseteq Parked
    BY DEF Parked
  <1>3. deferred_frees \in Seq(Entry)
    BY DEF TypeOK
  <1>4. CASE _request_blocks_can_be_freed(r) \/ blocks[r] = {}
    <2>1. d = deferred_frees
      BY <1>4 DEF _free_request_blocks
    <2> QED BY <2>1, <1>2, <1>3, <1>4
  <1>5. CASE ~(_request_blocks_can_be_freed(r) \/ blocks[r] = {})
    <2>1. d = Append(deferred_frees, e)
      BY <1>5 DEF _free_request_blocks
    <2>2. /\ d \in Seq(Entry)
          /\ Len(d) = Len(deferred_frees) + 1
          /\ \A k \in 1 .. Len(deferred_frees) : d[k] = deferred_frees[k]
          /\ d[Len(deferred_frees) + 1] = e
      BY <1>1, <1>3, <2>1
    <2>3. DOMAIN d = 1 .. Len(deferred_frees) + 1 /\ DOMAIN deferred_frees = 1 .. Len(deferred_frees)
      BY <1>3, <2>2
    <2>4. Len(deferred_frees) + 1 \in DOMAIN d
      BY <2>3, <1>3
    <2>5. \A k \in DOMAIN d : d[k].blocks \subseteq Parked \cup blocks[r]
      BY <1>2, <2>2, <2>3
    <2>6. \A k \in DOMAIN deferred_frees : k \in DOMAIN d /\ d[k] = deferred_frees[k]
      BY <1>3, <2>2, <2>3
    <2> QED BY <1>5, <2>2, <2>4, <2>5, <2>6
  <1> QED BY <1>4, <1>5

(* Draining keeps a suffix of the FIFO. *)
LEMMA DrainedBlocks ==
  ASSUME TypeOK, NEW processed \in Nat, NEW n \in 0 .. Len(deferred_frees),
         _drain_deferred_frees(n, processed)
  PROVE  /\ deferred_frees' \in Seq(Entry)
         /\ Len(deferred_frees') = Len(deferred_frees) - n
         /\ \A k \in DOMAIN deferred_frees' :
              /\ n + k \in DOMAIN deferred_frees
              /\ deferred_frees'[k] = deferred_frees[n + k]
         /\ \A k \in DOMAIN deferred_frees : deferred_frees[k].fence > processed =>
              /\ k - n \in DOMAIN deferred_frees'
              /\ deferred_frees'[k - n] = deferred_frees[k]
  <1>1. deferred_frees \in Seq(Entry) /\ Len(deferred_frees) \in Nat
    BY DEF TypeOK
  <1>2. deferred_frees' = SubSeq(deferred_frees, n + 1, Len(deferred_frees))
    BY DEF _drain_deferred_frees
  <1>3. /\ deferred_frees' \in Seq(Entry)
        /\ Len(deferred_frees') = Len(deferred_frees) - n
        /\ \A k \in 1 .. Len(deferred_frees) - n :
             deferred_frees'[k] = deferred_frees[n + k]
    BY <1>1, <1>2
  <1>4. /\ DOMAIN deferred_frees = 1 .. Len(deferred_frees)
        /\ DOMAIN deferred_frees' = 1 .. Len(deferred_frees) - n
    BY <1>1, <1>3
  <1>5. ASSUME NEW k \in DOMAIN deferred_frees, deferred_frees[k].fence > processed
        PROVE  /\ k - n \in DOMAIN deferred_frees'
               /\ deferred_frees'[k - n] = deferred_frees[k]
    <2>1. \A i \in 1 .. n : deferred_frees[i].fence <= processed
      BY DEF _drain_deferred_frees
    <2>2. deferred_frees[k].fence \in Nat
      <3>1. deferred_frees[k] \in Entry
        BY <1>1, <1>4
      <3> QED BY <3>1 DEF Entry
    <2>3. k > n
      BY <1>1, <1>4, <1>5, <2>1, <2>2
    <2> QED BY <1>1, <1>3, <1>4, <2>3
  <1> QED BY <1>1, <1>3, <1>4, <1>5

(* Retaining copy sources appends at most one entry. *)
LEMMA RetainedBlocks ==
  ASSUME TypeOK,
         NEW d, d = _free_cow_retained_blocks(cow, sched_step_seq + 1)
  PROVE  /\ d \in Seq(Entry)
         /\ \A k \in DOMAIN deferred_frees :
              k \in DOMAIN d /\ d[k] = deferred_frees[k]
         /\ \A k \in DOMAIN d : d[k].blocks \subseteq Parked \cup cow
         /\ defer_block_free /\ sched_step_seq >= processed_step_seq =>
              \A b \in cow : \E k \in DOMAIN d :
                b \in d[k].blocks /\ d[k].fence = sched_step_seq + 1
         /\ ~defer_block_free => d = deferred_frees
  <1> DEFINE e == [fence |-> sched_step_seq + 1, blocks |-> cow]
             kept == ~defer_block_free \/ sched_step_seq + 1 <= processed_step_seq
                       \/ cow = {}
  <1>1. e \in Entry
    BY DEF TypeOK, Entry
  <1>2. \A k \in DOMAIN deferred_frees : deferred_frees[k].blocks \subseteq Parked
    BY DEF Parked
  <1>3. /\ deferred_frees \in Seq(Entry)
        /\ sched_step_seq \in Nat /\ processed_step_seq \in Nat
    BY DEF TypeOK
  <1>4. CASE kept
    <2>1. d = deferred_frees
      BY <1>4 DEF _free_cow_retained_blocks
    <2>2. defer_block_free /\ sched_step_seq >= processed_step_seq => cow = {}
      BY <1>3, <1>4
    <2> QED BY <2>1, <2>2, <1>2, <1>3
  <1>5. CASE ~kept
    <2>1. d = Append(deferred_frees, e)
      BY <1>5 DEF _free_cow_retained_blocks
    <2>2. /\ d \in Seq(Entry)
          /\ Len(d) = Len(deferred_frees) + 1
          /\ \A k \in 1 .. Len(deferred_frees) : d[k] = deferred_frees[k]
          /\ d[Len(deferred_frees) + 1] = e
      BY <1>1, <1>3, <2>1
    <2>3. DOMAIN d = 1 .. Len(deferred_frees) + 1 /\ DOMAIN deferred_frees = 1 .. Len(deferred_frees)
      BY <1>3, <2>2
    <2>4. Len(deferred_frees) + 1 \in DOMAIN d
      BY <2>3, <1>3
    <2>5. \A k \in DOMAIN d : d[k].blocks \subseteq Parked \cup cow
      BY <1>2, <2>2, <2>3
    <2>6. \A k \in DOMAIN deferred_frees : k \in DOMAIN d /\ d[k] = deferred_frees[k]
      BY <1>3, <2>2, <2>3
    <2> QED BY <1>5, <2>2, <2>4, <2>5, <2>6
  <1> QED BY <1>4, <1>5

(* Every step keeps the types, and what is scheduled is running. *)
LEMMA TypeStep == TypeOK /\ HandlerInv /\ [Next]_vars => TypeOK'
  <1> SUFFICES ASSUME TypeOK, HandlerInv, [Next]_vars PROVE TypeOK'
    OBVIOUS
  <1> USE DEF Status, Phase, Passes
  <1>1. ASSUME NEW r \in Req, add_request(r) PROVE TypeOK'
    BY <1>1 DEF add_request, TypeOK, handlerVars, engineVars
  <1>2. CASE BeginSchedule
    BY <1>2 DEF BeginSchedule, TypeOK, fenceVars, engineVars, ownerVars
  <1>3. ASSUME NEW r \in Req, NEW fresh \in SUBSET Block, ScheduleRunning(r, fresh)
        PROVE  TypeOK'
    BY <1>3 DEF ScheduleRunning, TypeOK, fenceVars, engineVars
  <1>4. ASSUME NEW r \in Req, PreemptVictim(r) PROVE TypeOK'
    <2>1. deferred_frees' \in Seq(Entry)
      BY <1>4, FreedBlocks DEF PreemptVictim, _preempt_request
    <2> QED BY <1>4, <2>1 DEF PreemptVictim, _preempt_request, TypeOK, fenceVars, engineVars
  <1>5. CASE BeginWaiting \/ BeginAgain
    BY <1>5 DEF BeginWaiting, BeginAgain, TypeOK, fenceVars, engineVars, ownerVars
  <1>6. ASSUME NEW r \in Req, NEW valid \in BOOLEAN, PromoteLoaded(r, valid)
        PROVE  TypeOK'
    BY <1>6 DEF PromoteLoaded, TypeOK, handlerVars, fenceVars, engineVars
  <1>7. ASSUME NEW r \in Req, NEW hits \in SUBSET Block, NEW fresh \in SUBSET Block,
               NEW source \in SUBSET Block, AdmitWaiting(r, hits, fresh, source)
        PROVE  TypeOK'
    BY <1>7 DEF AdmitWaiting, TypeOK, fenceVars, engineVars
  <1>8. ASSUME NEW r \in Req, NEW hits \in SUBSET Block, NEW fresh \in SUBSET Block,
               StartLoad(r, hits, fresh)
        PROVE  TypeOK'
    BY <1>8 DEF StartLoad, TypeOK, handlerVars, fenceVars, engineVars
  <1>9. CASE EndSchedule
    <2> DEFINE seq == advanced_step_seq(batch)
               new == [reqs    |-> batch,
                       touched |-> (UNION {blocks[r] : r \in batch}) \cup cow,
                       seq     |-> seq]
    <2>1. deferred_frees' \in Seq(Entry)
      BY <1>9, RetainedBlocks DEF EndSchedule
    <2>2. seq \in Nat
      BY DEF TypeOK, advanced_step_seq
    <2>3. new \in Step
      BY <2>2 DEF Step, TypeOK
    <2>4. issued' \in 0 .. MaxStep /\ step' \in [0 .. MaxStep -> Step]
      <3>1. issued < MaxStep
        BY <1>9 DEF EndSchedule, HandlerInv
      <3> QED BY <2>3, <3>1, <1>9, ConfigAssumption DEF EndSchedule, TypeOK
    <2>5. last_sched_seq' \in [Req -> Nat] /\ sched_step_seq' \in Nat
      BY <1>9, <2>2 DEF EndSchedule, TypeOK
    <2> QED BY <1>9, <2>1, <2>4, <2>5 DEF EndSchedule, TypeOK, ownerVars
  <1>10. CASE BeginUpdate
    <2>1. completed' \in 0 .. MaxStep
      BY <1>10, ConfigAssumption DEF BeginUpdate, TypeOK
    <2>2. CASE defer_block_free /\ step[completed + 1].reqs # {}
      <3>1. PICK n \in 0 .. Len(deferred_frees) :
              _drain_deferred_frees(n, processed_step_seq + 1)
        BY <1>10, <2>2 DEF BeginUpdate
      <3>2. processed_step_seq + 1 \in Nat /\ processed_step_seq' = processed_step_seq + 1
        BY <1>10, <2>2 DEF BeginUpdate, TypeOK
      <3>3. deferred_frees' \in Seq(Entry)
        BY <3>1, <3>2, DrainedBlocks
      <3> QED BY <1>10, <2>1, <3>2, <3>3 DEF BeginUpdate, TypeOK, ownerVars
    <2>3. CASE ~(defer_block_free /\ step[completed + 1].reqs # {})
      BY <1>10, <2>1, <2>3 DEF BeginUpdate, TypeOK, ownerVars
    <2> QED BY <2>2, <2>3
  <1>11. ASSUME NEW r \in Req, NEW delay \in BOOLEAN, _free_request(r, delay),
                phase' = phase, batch' = batch, batch = {},
                UNCHANGED <<preempted, cow, fenceVars, engineVars, landing>>
         PROVE  TypeOK'
    <2>1. deferred_frees' \in Seq(Entry)
      BY <1>11, FreedBlocks DEF _free_request, TypeOK
    <2> QED BY <1>11, <2>1 DEF _free_request, TypeOK, fenceVars, engineVars
  <1>12. ASSUME NEW r \in Req, NEW delay \in BOOLEAN, StopRequest(r, delay)
         PROVE  TypeOK'
    BY <1>11, <1>12 DEF StopRequest, handlerVars, HandlerInv
  <1>13. CASE BeginXfer
    BY <1>13 DEF BeginXfer, TypeOK, fenceVars, engineVars, ownerVars
  <1>14. ASSUME NEW r \in Req, FinishedRecving(r) PROVE TypeOK'
    <2>1. batch = {}
      BY <1>14 DEF FinishedRecving, HandlerInv
    <2>2. CASE status[r] = "loading"
      BY <1>14, <2>1, <2>2
         DEF FinishedRecving, TypeOK, handlerVars, fenceVars, engineVars
    <2>3. CASE status[r] = "cancelled"
      <3>1. deferred_frees' \in Seq(Entry)
        BY <1>14, <2>3, FreedBlocks DEF FinishedRecving, _free_blocks
      <3> QED BY <1>14, <2>1, <2>3, <3>1
            DEF FinishedRecving, _free_blocks, TypeOK, handlerVars, fenceVars, engineVars
    <2> QED BY <1>14, <2>2, <2>3 DEF FinishedRecving
  <1>15. ASSUME NEW r \in Req, FinishedSending(r) PROVE TypeOK'
    <2>1. batch = {}
      BY <1>15 DEF FinishedSending, HandlerInv
    <2>2. deferred_frees' \in Seq(Entry)
      BY <1>15, FreedBlocks DEF FinishedSending, _free_blocks
    <2> QED BY <1>15, <2>1, <2>2
          DEF FinishedSending, _free_blocks, TypeOK, handlerVars, fenceVars, engineVars
  <1>16. CASE EndUpdate
    <2>1. step' \in [0 .. MaxStep -> Step]
      BY <1>16 DEF EndUpdate, TypeOK, Step
    <2> QED BY <1>16, <2>1 DEF EndUpdate, TypeOK, fenceVars, ownerVars
  <1>17. ASSUME NEW r \in Req, NEW delay \in BOOLEAN, finish_requests(r, delay)
         PROVE  TypeOK'
    <2>1. batch = {}
      BY <1>17 DEF finish_requests, HandlerInv
    <2>2. CASE _free_request(r, delay)
      BY <1>11, <1>17, <2>1, <2>2 DEF finish_requests, handlerVars
    <2>3. CASE status' = [status EXCEPT ![r] = "cancelled"]
               /\ UNCHANGED <<blocks, deferred_frees>>
      BY <1>17, <2>1, <2>3
         DEF finish_requests, TypeOK, handlerVars, fenceVars, engineVars
    <2> QED BY <1>17, <2>2, <2>3 DEF finish_requests
  <1>18. CASE BeginReset
    BY <1>18 DEF BeginReset, TypeOK, fenceVars, engineVars, ownerVars
  <1>19. ASSUME NEW r \in Req, ResetPreempt(r) PROVE TypeOK'
    <2>1. batch = {}
      BY <1>19 DEF ResetPreempt, HandlerInv
    <2>2. deferred_frees' \in Seq(Entry)
      BY <1>19, FreedBlocks DEF ResetPreempt, _preempt_request
    <2> QED BY <1>19, <2>1, <2>2
          DEF ResetPreempt, _preempt_request, TypeOK, handlerVars, fenceVars, engineVars
  <1>20. CASE ResetDone
    BY <1>20 DEF ResetDone, TypeOK, fenceVars, engineVars, ownerVars
  <1>21. CASE UNCHANGED vars
    BY <1>21 DEF vars, TypeOK, handlerVars, fenceVars, engineVars, ownerVars
  <1> QED
    BY <1>1, <1>2, <1>3, <1>4, <1>5, <1>6, <1>7, <1>8, <1>9, <1>10, <1>12, <1>13,
       <1>14, <1>15, <1>16, <1>17, <1>18, <1>19, <1>20, <1>21 DEF Next

(* Handlers leave no scratch behind, the window stays within max_concurrent_ *)
(* batches, and a request that left the scheduler owns nothing.            *)
LEMMA HandlerStep == TypeOK /\ HandlerInv /\ [Next]_vars => HandlerInv'
  <1> SUFFICES ASSUME TypeOK, HandlerInv, [Next]_vars PROVE HandlerInv'
    OBVIOUS
  <1> USE DEF Passes
  <1>1. ASSUME NEW r \in Req, add_request(r) PROVE HandlerInv'
    BY <1>1 DEF HandlerInv, Landing, TypeOK, add_request, handlerVars, engineVars
  <1>2. CASE BeginSchedule
    BY <1>2 DEF HandlerInv, Landing, TypeOK, BeginSchedule, fenceVars, engineVars, ownerVars
  <1>3. ASSUME NEW r \in Req, NEW fresh \in SUBSET Block, ScheduleRunning(r, fresh)
        PROVE  HandlerInv'
    BY <1>3 DEF HandlerInv, Landing, TypeOK, ScheduleRunning, fenceVars, engineVars
  <1>4. ASSUME NEW r \in Req, PreemptVictim(r) PROVE HandlerInv'
    BY <1>4 DEF HandlerInv, Landing, TypeOK, PreemptVictim, _preempt_request, fenceVars, engineVars
  <1>5. CASE BeginWaiting \/ BeginAgain
    BY <1>5 DEF HandlerInv, Landing, TypeOK, BeginWaiting, BeginAgain, fenceVars, engineVars, ownerVars
  <1>6. ASSUME NEW r \in Req, NEW valid \in BOOLEAN, PromoteLoaded(r, valid)
        PROVE  HandlerInv'
    BY <1>6 DEF HandlerInv, Landing, TypeOK, PromoteLoaded, handlerVars, fenceVars, engineVars
  <1>7. ASSUME NEW r \in Req, NEW hits \in SUBSET Block, NEW fresh \in SUBSET Block,
               NEW source \in SUBSET Block, AdmitWaiting(r, hits, fresh, source)
        PROVE  HandlerInv'
    BY <1>7 DEF HandlerInv, Landing, TypeOK, AdmitWaiting, fenceVars, engineVars
  <1>8. ASSUME NEW r \in Req, NEW hits \in SUBSET Block, NEW fresh \in SUBSET Block,
               StartLoad(r, hits, fresh)
        PROVE  HandlerInv'
    BY <1>8 DEF HandlerInv, Landing, TypeOK, StartLoad, handlerVars, fenceVars, engineVars
  <1>9. CASE EndSchedule
    BY <1>9, ConfigAssumption DEF HandlerInv, Landing, TypeOK, EndSchedule, ownerVars
  <1>10. CASE BeginUpdate
    BY <1>10, ConfigAssumption DEF HandlerInv, Landing, TypeOK, BeginUpdate, ownerVars
  <1>11. ASSUME NEW r \in Req, NEW delay \in BOOLEAN, StopRequest(r, delay)
         PROVE  HandlerInv'
    BY <1>11 DEF HandlerInv, Landing, TypeOK, StopRequest, _free_request, handlerVars, fenceVars, engineVars
  <1>12. CASE BeginXfer
    BY <1>12 DEF HandlerInv, Landing, TypeOK, BeginXfer, fenceVars, engineVars, ownerVars
  <1>13. ASSUME NEW r \in Req, FinishedRecving(r) PROVE HandlerInv'
    <2>1. Landing' \subseteq Landing
      BY <1>13 DEF FinishedRecving, Landing, TypeOK
    <2>2. \A q \in Req : status'[q] = "absent" => blocks'[q] = {}
      BY <1>13 DEF FinishedRecving, _free_blocks, HandlerInv, TypeOK
    <2> QED BY <1>13, <2>1, <2>2
          DEF FinishedRecving, HandlerInv, handlerVars, engineVars
  <1>14. ASSUME NEW r \in Req, FinishedSending(r) PROVE HandlerInv'
    BY <1>14 DEF HandlerInv, Landing, TypeOK, FinishedSending, _free_blocks, handlerVars, fenceVars, engineVars
  <1>15. CASE EndUpdate
    BY <1>15 DEF HandlerInv, Landing, TypeOK, EndUpdate, fenceVars, ownerVars
  <1>16. ASSUME NEW r \in Req, NEW delay \in BOOLEAN, finish_requests(r, delay)
         PROVE  HandlerInv'
    <2>1. \A q \in Req : status'[q] = "absent" => blocks'[q] = {}
      <3>1. CASE _free_request(r, delay)
        BY <3>1 DEF _free_request, HandlerInv, TypeOK
      <3>2. CASE status' = [status EXCEPT ![r] = "cancelled"]
                 /\ UNCHANGED <<blocks, deferred_frees>>
        BY <3>2 DEF HandlerInv, TypeOK
      <3> QED BY <1>16, <3>1, <3>2 DEF finish_requests
    <2> QED BY <1>16, <2>1
          DEF finish_requests, HandlerInv, Landing, handlerVars, engineVars
  <1>17. CASE BeginReset
    BY <1>17 DEF HandlerInv, Landing, TypeOK, BeginReset, fenceVars, engineVars, ownerVars
  <1>18. ASSUME NEW r \in Req, ResetPreempt(r) PROVE HandlerInv'
    BY <1>18 DEF HandlerInv, Landing, TypeOK, ResetPreempt, _preempt_request, handlerVars, fenceVars, engineVars
  <1>19. CASE ResetDone
    BY <1>19 DEF HandlerInv, Landing, TypeOK, ResetDone, fenceVars, engineVars, ownerVars
  <1>20. CASE UNCHANGED vars
    BY <1>20 DEF HandlerInv, Landing, TypeOK, vars, handlerVars, fenceVars, engineVars, ownerVars
  <1> QED
    BY <1>1, <1>2, <1>3, <1>4, <1>5, <1>6, <1>7, <1>8, <1>9, <1>10, <1>11, <1>12,
       <1>13, <1>14, <1>15, <1>16, <1>17, <1>18, <1>19, <1>20 DEF Next

(* The counters move with the queue of the engine. *)
LEMMA SeqStep ==
  TypeOK /\ HandlerInv /\ SeqInv /\ [Next]_vars => SeqInv'
  <1> SUFFICES ASSUME TypeOK, HandlerInv, SeqInv, [Next]_vars PROVE SeqInv'
    OBVIOUS
  <1>0. /\ issued \in Nat /\ completed \in Nat /\ completed <= issued
        /\ sched_step_seq \in Nat /\ processed_step_seq \in Nat
        /\ \A i \in 0 .. MaxStep : step[i].seq \in Nat
        /\ MaxStep \in Nat /\ issued <= MaxStep /\ step \in [0 .. MaxStep -> Step]
    BY ConfigAssumption DEF TypeOK, HandlerInv, Step
  (* Actions that leave the counters and the queue alone. *)
  <1>1. ASSUME UNCHANGED <<sched_step_seq, processed_step_seq, issued, completed,
                           step>>,
               \A r \in Req : last_sched_seq'[r] \in {last_sched_seq[r], 0},
               ~defer_block_free => deferred_frees' = deferred_frees
        PROVE  SeqInv'
    <2>1. CASE ~defer_block_free
      BY <1>1, <2>1 DEF SeqInv, defer_block_free
    <2>2. CASE defer_block_free
      <3>1. \A r \in Req : last_sched_seq'[r] <= sched_step_seq
        BY <1>0, <1>1, <2>2 DEF SeqInv
      <3>2. /\ step[completed].seq = processed_step_seq
            /\ step[issued].seq = sched_step_seq
            /\ \A i \in InFlight :
                 step[i].seq = step[i - 1].seq + (IF step[i].reqs = {} THEN 0 ELSE 1)
            /\ \A i, j \in completed .. issued : i <= j => step[i].seq <= step[j].seq
        BY <2>2 DEF SeqInv
      <3> QED BY <1>1, <2>2, <3>1, <3>2 DEF SeqInv, InFlight, defer_block_free
    <2> QED BY <2>1, <2>2
  <1>2. CASE EndSchedule
    <2> DEFINE seq == advanced_step_seq(batch)
    <2>1. /\ issued < MaxStep /\ issued' = issued + 1 /\ completed' = completed
          /\ sched_step_seq' = seq /\ processed_step_seq' = processed_step_seq
          /\ step'[issued + 1].seq = seq /\ step'[issued + 1].reqs = batch
          /\ \A i \in 0 .. issued : step'[i] = step[i]
      <3>1. /\ issued < MaxStep /\ issued' = issued + 1 /\ completed' = completed
            /\ sched_step_seq' = seq /\ processed_step_seq' = processed_step_seq
        BY <1>2 DEF EndSchedule, HandlerInv
      <3>2. issued + 1 \in 0 .. MaxStep /\ 0 .. issued \subseteq 0 .. MaxStep
        BY <1>0, <3>1
      <3>3. step' = [step EXCEPT ![issued + 1] =
                       [reqs    |-> batch,
                        touched |-> (UNION {blocks[r] : r \in batch}) \cup cow,
                        seq     |-> seq]]
        BY <1>2 DEF EndSchedule
      <3>4. \A i \in 0 .. issued : i \in 0 .. MaxStep /\ i # issued + 1
        BY <1>0, <3>2
      <3> HIDE DEF seq
      <3> QED BY <1>0, <3>1, <3>2, <3>3, <3>4
    <2>2. CASE ~defer_block_free
      <3>1. deferred_frees' = deferred_frees /\ seq = sched_step_seq
        BY <1>2, <2>2 DEF EndSchedule, _free_cow_retained_blocks, advanced_step_seq
      <3> QED BY <2>1, <2>2, <3>1 DEF SeqInv, defer_block_free
    <2>3. CASE defer_block_free
      <3>1. seq = sched_step_seq + (IF batch = {} THEN 0 ELSE 1)
        BY <1>0, <2>3 DEF advanced_step_seq
      <3>2. \A r \in Req : last_sched_seq'[r] <= seq
        BY <1>0, <1>2, <2>3, <3>1 DEF EndSchedule, SeqInv, TypeOK
      <3>3. /\ step'[completed].seq = processed_step_seq
            /\ step'[issued + 1].seq = seq
        BY <1>0, <2>1, <2>3 DEF SeqInv
      <3>4. \A i \in completed + 1 .. issued + 1 :
              step'[i].seq = step'[i - 1].seq
                               + (IF step'[i].reqs = {} THEN 0 ELSE 1)
        <4>1. ASSUME NEW i \in completed + 1 .. issued
              PROVE  step'[i].seq = step'[i - 1].seq
                               + (IF step'[i].reqs = {} THEN 0 ELSE 1)
          <5>1. i \in InFlight /\ i \in 0 .. issued /\ i - 1 \in 0 .. issued
            BY <1>0 DEF InFlight
          <5>2. step'[i] = step[i] /\ step'[i - 1] = step[i - 1]
            BY <2>1, <5>1
          <5> QED BY <2>3, <5>1, <5>2 DEF SeqInv
        <4>2. step'[issued + 1].seq = step'[issued].seq
                               + (IF step'[issued + 1].reqs = {} THEN 0 ELSE 1)
          BY <1>0, <2>1, <2>3, <3>1 DEF SeqInv
        <4>3. ASSUME NEW i \in completed + 1 .. issued + 1
              PROVE  i \in completed + 1 .. issued \/ i = issued + 1
          BY <1>0
        <4>4. (issued + 1) - 1 = issued
          BY <1>0
        <4>5. ASSUME NEW i \in completed + 1 .. issued + 1
              PROVE  step'[i].seq = step'[i - 1].seq
                               + (IF step'[i].reqs = {} THEN 0 ELSE 1)
          <5>1. CASE i = issued + 1
            BY <4>2, <4>4, <5>1
          <5> QED BY <4>1, <4>3, <4>5, <5>1
        <4> QED BY <4>5
      <3>5. \A i, j \in completed .. issued + 1 : i <= j => step'[i].seq <= step'[j].seq
        <4>1. \A i, j \in completed .. issued : i <= j => step'[i].seq <= step'[j].seq
          BY <1>0, <2>1, <2>3 DEF SeqInv
        <4>2. \A i \in completed .. issued : step'[i].seq <= sched_step_seq
          BY <1>0, <2>1, <2>3, <4>1 DEF SeqInv
        <4>3. \A i \in completed .. issued : step'[i].seq \in Nat
          BY <1>0, <2>1
        <4>4. step'[issued + 1].seq = seq /\ seq >= sched_step_seq /\ seq \in Nat
          BY <1>0, <2>1, <3>1
        <4>5. ASSUME NEW i \in completed .. issued + 1, NEW j \in completed .. issued + 1,
                     i <= j
              PROVE  step'[i].seq <= step'[j].seq
          <5>1. CASE j \in completed .. issued
            <6>1. i \in completed .. issued
              BY <1>0, <4>5, <5>1
            <6> QED BY <4>1, <4>5, <5>1, <6>1
          <5>2. CASE j = issued + 1 /\ i \in completed .. issued
            <6> HIDE DEF seq
            <6> QED BY <1>0, <4>2, <4>3, <4>4, <5>2
          <5>3. CASE j = issued + 1 /\ i = issued + 1
            <6> HIDE DEF seq
            <6> QED BY <4>4, <5>3
          <5> QED BY <1>0, <5>1, <5>2, <5>3
        <4> QED BY <4>5
      <3> QED BY <1>0, <2>1, <2>3, <3>2, <3>3, <3>4, <3>5
            DEF SeqInv, InFlight, defer_block_free
    <2> QED BY <2>2, <2>3
  <1>3. CASE BeginUpdate
    <2>1. /\ completed < issued /\ completed' = completed + 1
          /\ UNCHANGED <<issued, step, last_sched_seq, sched_step_seq>>
      BY <1>3 DEF BeginUpdate
    <2>2. CASE ~defer_block_free
      BY <1>3, <2>2 DEF BeginUpdate, SeqInv, defer_block_free
    <2>3. CASE defer_block_free
      <3>1. step[completed + 1].seq
              = processed_step_seq + (IF step[completed + 1].reqs = {} THEN 0 ELSE 1)
        <4>1. completed + 1 \in InFlight /\ (completed + 1) - 1 = completed
          BY <1>0, <2>1 DEF InFlight
        <4>2. step[completed + 1].seq = step[(completed + 1) - 1].seq
                 + (IF step[completed + 1].reqs = {} THEN 0 ELSE 1)
          BY <2>3, <4>1 DEF SeqInv
        <4>3. step[completed].seq = processed_step_seq
          BY <2>3 DEF SeqInv
        <4> QED BY <4>1, <4>2, <4>3
      <3>2. processed_step_seq' = step[completed + 1].seq
        BY <1>0, <1>3, <2>3, <3>1 DEF BeginUpdate
      <3>3. /\ step[issued].seq = sched_step_seq
            /\ \A i \in completed + 1 .. issued :
                 step[i].seq = step[i - 1].seq + (IF step[i].reqs = {} THEN 0 ELSE 1)
            /\ \A i, j \in completed .. issued : i <= j => step[i].seq <= step[j].seq
            /\ \A r \in Req : last_sched_seq[r] <= sched_step_seq
        BY <2>3 DEF SeqInv, InFlight
      <3>4. /\ \A i \in completed + 2 .. issued : i \in completed + 1 .. issued
            /\ \A i \in completed + 1 .. issued : i \in completed .. issued
            /\ completed' + 1 = completed + 2
        BY <1>0, <2>1
      <3>5. \A i \in completed' + 1 .. issued :
              step[i].seq = step[i - 1].seq + (IF step[i].reqs = {} THEN 0 ELSE 1)
        BY <3>3, <3>4
      <3>6. \A i, j \in completed' .. issued : i <= j => step[i].seq <= step[j].seq
        BY <2>1, <3>3, <3>4
      <3> QED BY <2>1, <2>3, <3>2, <3>3, <3>5, <3>6 DEF SeqInv, InFlight, defer_block_free
    <2> QED BY <2>2, <2>3
  <1>4. CASE EndUpdate
    <2>1. /\ UNCHANGED <<issued, completed, fenceVars, deferred_frees>>
          /\ \A i \in 0 .. MaxStep : step'[i].seq = step[i].seq
          /\ \A i \in InFlight : step'[i] = step[i]
      <3>1. step' = [step EXCEPT ![completed].reqs = {}, ![completed].touched = {}]
            /\ UNCHANGED <<issued, completed, fenceVars, deferred_frees>>
        BY <1>4 DEF EndUpdate
      <3>2. \A i \in 0 .. MaxStep : step'[i].seq = step[i].seq
        BY <1>0, <3>1 DEF Step
      <3>3. \A i \in InFlight : i # completed /\ i \in 0 .. MaxStep
        BY <1>0 DEF InFlight
      <3> QED BY <1>0, <3>1, <3>2, <3>3
    <2>2. /\ completed \in 0 .. MaxStep /\ issued \in 0 .. MaxStep
          /\ \A i \in InFlight : i \in 0 .. MaxStep /\ i - 1 \in 0 .. MaxStep
      BY <1>0 DEF InFlight
    <2>3. InFlight' = InFlight /\ (defer_block_free <=> defer_block_free')
      BY <2>1 DEF InFlight, defer_block_free
    <2>4. \A i \in completed .. issued : i \in 0 .. MaxStep
      BY <1>0, <2>2
    <2> QED BY <2>1, <2>2, <2>3, <2>4 DEF SeqInv, fenceVars
  <1>5. ASSUME NEW r \in Req, add_request(r) PROVE SeqInv'
    BY <1>1, <1>5 DEF add_request, engineVars, TypeOK
  <1>6. CASE UNCHANGED <<fenceVars, engineVars, deferred_frees>>
    BY <1>1, <1>6 DEF fenceVars, engineVars
  <1>7. ASSUME NEW r \in Req, UNCHANGED <<fenceVars, engineVars>>,
               deferred_frees' = _free_request_blocks(r)
        PROVE  SeqInv'
    BY <1>1, <1>7 DEF fenceVars, engineVars, _free_request_blocks,
                      _request_blocks_can_be_freed
  <1> QED
    BY <1>2, <1>3, <1>4, <1>5, <1>6, <1>7
    DEF Next, vars, BeginSchedule, ScheduleRunning, PreemptVictim, _preempt_request,
        BeginWaiting, BeginAgain, PromoteLoaded, AdmitWaiting, StartLoad, StopRequest,
        _free_request, BeginXfer, FinishedRecving, _free_blocks, FinishedSending,
        finish_requests, BeginReset, ResetPreempt, ResetDone

(* A block of the pool is nobody's: not landing, not parked, not a copy    *)
(* source, in no block table.                                              *)
LEMMA FreeIsUnheld ==
  ASSUME LandingExclusive, NEW b \in Free
  PROVE  /\ b \notin Landing /\ b \notin Parked /\ b \notin cow
         /\ \A r \in Req : b \notin blocks[r] /\ b \notin landing[r]
  BY DEF Free, Held, Landing, LandingExclusive

(* Blocks that are being filled stay with the loading request alone. *)
LEMMA LandingStep ==
  TypeOK /\ HandlerInv /\ SeqInv /\ LandingExclusive /\ [Next]_vars
    => LandingExclusive'
  <1> SUFFICES ASSUME TypeOK, HandlerInv, SeqInv, LandingExclusive, [Next]_vars
               PROVE  LandingExclusive'
    OBVIOUS
  <1>0. /\ \A r \in Req : /\ landing[r] \subseteq blocks[r]
                          /\ landing[r] # {} => status[r] \in {"loading", "cancelled"}
                          /\ landing[r] \cap Parked = {} /\ landing[r] \cap cow = {}
        /\ \A r, q \in Req : r # q => landing[r] \cap blocks[q] = {}
    BY DEF LandingExclusive
  (* The blocks of r are released or parked. *)
  <1>1. ASSUME NEW r \in Req,
               landing' = [landing EXCEPT ![r] = {}],
               blocks' = [blocks EXCEPT ![r] = {}],
               deferred_frees' = _free_request_blocks(r), cow' = cow,
               \A q \in Req \ {r} : status'[q] = status[q]
        PROVE  LandingExclusive'
    <2>1. Parked' \subseteq Parked \cup blocks[r]
      BY <1>1, FreedBlocks DEF Parked
    <2>2. ASSUME NEW q \in Req
          PROVE  /\ landing'[q] \subseteq blocks'[q]
                 /\ landing'[q] # {} => status'[q] \in {"loading", "cancelled"}
                 /\ landing'[q] \cap Parked' = {} /\ landing'[q] \cap cow' = {}
                 /\ \A p \in Req : p # q => landing'[q] \cap blocks'[p] = {}
      <3>1. CASE q = r
        BY <1>1, <3>1 DEF TypeOK
      <3>2. CASE q # r
        BY <1>0, <1>1, <2>1, <3>2 DEF TypeOK
      <3> QED BY <3>1, <3>2
    <2> QED BY <2>2 DEF LandingExclusive
  (* landing is as before, and a request that is not loading can change. *)
  <1>2. ASSUME NEW r \in Req, landing[r] = {}, landing' = landing, cow' = cow,
               deferred_frees' = deferred_frees,
               \A q \in Req \ {r} : status'[q] = status[q] /\ blocks'[q] = blocks[q],
               blocks'[r] \cap Landing = {}
        PROVE  LandingExclusive'
    <2>1. ASSUME NEW q \in Req
          PROVE  /\ landing'[q] \subseteq blocks'[q]
                 /\ landing'[q] # {} => status'[q] \in {"loading", "cancelled"}
                 /\ landing'[q] \cap (Parked \cup cow)' = {}
                 /\ \A p \in Req \ {q} : landing'[q] \cap blocks'[p] = {}
      <3>1. CASE q = r
        BY <1>2, <3>1
      <3>2. CASE q # r
        BY <1>0, <1>2, <3>2 DEF Landing, Parked
      <3> QED BY <3>1, <3>2
    <2> QED BY <2>1 DEF LandingExclusive
  (* Requests are left alone, and no landing block is parked or copied. *)
  <1>3. ASSUME UNCHANGED ownerVars, Parked' \cap Landing = {}, cow' \cap Landing = {}
        PROVE  LandingExclusive'
    BY <1>0, <1>3 DEF LandingExclusive, ownerVars, Landing
  <1>4. \A r \in Req : status[r] \notin {"loading", "cancelled"} =>
          landing[r] = {} /\ landing = [landing EXCEPT ![r] = {}]
    BY <1>0 DEF TypeOK
  <1>5. /\ Landing \cap Parked = {} /\ Landing \cap cow = {}
        /\ \A r \in Req : landing[r] = {} => blocks[r] \cap Landing = {}
    BY <1>0 DEF Landing
  <1>6. CASE UNCHANGED <<ownerVars, deferred_frees, cow>>
    BY <1>3, <1>5, <1>6 DEF Parked
  <1>7. ASSUME NEW r \in Req, add_request(r) PROVE LandingExclusive'
    BY <1>2, <1>4, <1>5, <1>7 DEF add_request, handlerVars, engineVars, TypeOK
  <1>8. ASSUME NEW r \in Req, NEW fresh \in SUBSET Block, ScheduleRunning(r, fresh)
        PROVE  LandingExclusive'
    <2>1. fresh \cap Landing = {}
      BY <1>8, FreeIsUnheld DEF ScheduleRunning
    <2>2. landing[r] = {} /\ blocks[r] \cap Landing = {}
      BY <1>4, <1>5, <1>8 DEF ScheduleRunning
    <2>3. /\ blocks' = [blocks EXCEPT ![r] = blocks[r] \cup fresh]
          /\ UNCHANGED <<cow, status, landing, deferred_frees>>
      BY <1>8 DEF ScheduleRunning
    <2>4. /\ blocks'[r] \cap Landing = {}
          /\ \A q \in Req \ {r} : status'[q] = status[q] /\ blocks'[q] = blocks[q]
      BY <2>1, <2>2, <2>3 DEF TypeOK
    <2> QED BY <1>2, <2>2, <2>3, <2>4
  <1>9. ASSUME NEW r \in Req, PreemptVictim(r) PROVE LandingExclusive'
    BY <1>1, <1>4, <1>9 DEF PreemptVictim, _preempt_request, TypeOK
  <1>10. ASSUME NEW r \in Req, NEW valid \in BOOLEAN, PromoteLoaded(r, valid)
         PROVE  LandingExclusive'
    <2>1. blocks'[r] \cap Landing = {} /\ \A q \in Req \ {r} : blocks'[q] = blocks[q]
      BY <1>4, <1>5, <1>10 DEF PromoteLoaded, TypeOK
    <2> QED BY <1>2, <1>4, <1>10, <2>1 DEF PromoteLoaded, handlerVars, TypeOK
  <1>11. ASSUME NEW r \in Req, NEW hits \in SUBSET Block, NEW fresh \in SUBSET Block,
                NEW source \in SUBSET Block, AdmitWaiting(r, hits, fresh, source)
         PROVE  LandingExclusive'
    <2>1. fresh \cap Landing = {}
      BY <1>11, FreeIsUnheld DEF AdmitWaiting
    <2>2. /\ landing[r] = {} /\ landing' = landing /\ deferred_frees' = deferred_frees
          /\ \A q \in Req \ {r} : status'[q] = status[q] /\ blocks'[q] = blocks[q]
          /\ blocks'[r] \cap Landing = {} /\ cow' \cap Landing = {}
      BY <1>4, <1>5, <1>11, <2>1 DEF AdmitWaiting, TypeOK
    <2>3. ASSUME NEW q \in Req
          PROVE  /\ landing'[q] \subseteq blocks'[q]
                 /\ landing'[q] # {} => status'[q] \in {"loading", "cancelled"}
                 /\ landing'[q] \cap (Parked \cup cow)' = {}
                 /\ \A p \in Req \ {q} : landing'[q] \cap blocks'[p] = {}
      <3>1. CASE q = r
        BY <2>2, <3>1
      <3>2. CASE q # r
        BY <1>0, <2>2, <3>2 DEF Landing, Parked
      <3> QED BY <3>1, <3>2
    <2> QED BY <2>3 DEF LandingExclusive
  <1>12. ASSUME NEW r \in Req, NEW hits \in SUBSET Block, NEW fresh \in SUBSET Block,
                StartLoad(r, hits, fresh)
         PROVE  LandingExclusive'
    <2>1. \A b \in fresh : /\ b \notin Landing /\ b \notin Parked /\ b \notin cow
                           /\ \A q \in Req : b \notin blocks[q] /\ b \notin landing[q]
      BY <1>12, FreeIsUnheld DEF StartLoad
    <2>2. /\ landing' = [landing EXCEPT ![r] = fresh]
          /\ blocks' = [blocks EXCEPT ![r] = hits \cup fresh]
          /\ status' = [status EXCEPT ![r] = "loading"]
          /\ deferred_frees' = deferred_frees /\ cow' = cow
          /\ hits \cap Landing = {}
      BY <1>12 DEF StartLoad, handlerVars
    <2>3. ASSUME NEW q \in Req
          PROVE  /\ landing'[q] \subseteq blocks'[q]
                 /\ landing'[q] # {} => status'[q] \in {"loading", "cancelled"}
                 /\ landing'[q] \cap (Parked \cup cow)' = {}
                 /\ \A p \in Req \ {q} : landing'[q] \cap blocks'[p] = {}
      <3>1. CASE q = r
        BY <2>1, <2>2, <3>1 DEF TypeOK, Parked
      <3>2. CASE q # r
        <4>1. landing'[q] = landing[q] /\ blocks'[q] = blocks[q] /\ status'[q] = status[q]
          BY <2>2, <3>2 DEF TypeOK
        <4>2. landing[q] \cap blocks'[r] = {}
          BY <2>1, <2>2, <3>2 DEF TypeOK, Landing
        <4>3. ASSUME NEW p \in Req, p # q PROVE landing[q] \cap blocks'[p] = {}
          <5>1. p # r => blocks'[p] = blocks[p]
            BY <2>2 DEF TypeOK
          <5> QED BY <1>0, <4>2, <4>3, <5>1
        <4>4. landing[q] \cap (Parked \cup cow)' = {}
          BY <1>0, <2>2 DEF Parked
        <4> QED BY <1>0, <4>1, <4>3, <4>4
      <3> QED BY <3>1, <3>2
    <2> QED BY <2>3 DEF LandingExclusive
  <1>13. CASE EndSchedule
    <2>1. Parked' \subseteq Parked \cup cow
      BY <1>13, RetainedBlocks DEF EndSchedule, Parked
    <2> QED BY <1>3, <1>5, <1>13, <2>1 DEF EndSchedule
  <1>14. CASE BeginUpdate
    <2>1. Parked' \subseteq Parked
      <3>1. CASE deferred_frees' = deferred_frees
        BY <3>1 DEF Parked
      <3>2. CASE deferred_frees' # deferred_frees
        <4>1. PICK n \in 0 .. Len(deferred_frees) :
                _drain_deferred_frees(n, processed_step_seq + 1)
          BY <1>14, <3>2 DEF BeginUpdate
        <4>2. processed_step_seq + 1 \in Nat
          BY DEF TypeOK
        <4> QED BY <4>1, <4>2, DrainedBlocks DEF Parked
      <3> QED BY <3>1, <3>2
    <2> QED BY <1>3, <1>5, <1>14, <2>1 DEF BeginUpdate
  <1>15. ASSUME NEW r \in Req, NEW delay \in BOOLEAN, _free_request(r, delay),
                status[r] \notin {"loading", "cancelled"},
                UNCHANGED <<landing, cow>>
         PROVE  LandingExclusive'
    <2>1. CASE delay
      BY <1>2, <1>4, <1>5, <1>15, <2>1 DEF _free_request, TypeOK
    <2>2. CASE ~delay
      BY <1>1, <1>4, <1>15, <2>2 DEF _free_request, TypeOK
    <2> QED BY <2>1, <2>2
  <1>16. ASSUME NEW r \in Req, NEW delay \in BOOLEAN, StopRequest(r, delay)
         PROVE  LandingExclusive'
    BY <1>15, <1>16 DEF StopRequest, handlerVars
  <1>17. ASSUME NEW r \in Req, FinishedRecving(r) PROVE LandingExclusive'
    <2>1. CASE status[r] = "cancelled"
      BY <1>1, <1>17, <2>1 DEF FinishedRecving, _free_blocks, handlerVars, TypeOK
    <2>2. CASE status[r] = "loading"
      <3>1. /\ landing' = [landing EXCEPT ![r] = {}] /\ cow' = cow
            /\ status' = [status EXCEPT ![r] = "landed"]
            /\ UNCHANGED <<blocks, deferred_frees>>
        BY <1>17, <2>2 DEF FinishedRecving, handlerVars
      <3>2. ASSUME NEW q \in Req
            PROVE  /\ landing'[q] \subseteq blocks'[q]
                   /\ landing'[q] # {} => status'[q] \in {"loading", "cancelled"}
                   /\ landing'[q] \cap (Parked \cup cow)' = {}
                   /\ \A p \in Req \ {q} : landing'[q] \cap blocks'[p] = {}
        <4>1. CASE q = r
          BY <3>1, <4>1 DEF TypeOK
        <4>2. CASE q # r
          BY <1>0, <3>1, <4>2 DEF TypeOK, Parked
        <4> QED BY <4>1, <4>2
      <3> QED BY <3>2 DEF LandingExclusive
    <2> QED BY <1>17, <2>1, <2>2 DEF FinishedRecving
  <1>18. ASSUME NEW r \in Req, FinishedSending(r) PROVE LandingExclusive'
    BY <1>1, <1>4, <1>18 DEF FinishedSending, _free_blocks, handlerVars, TypeOK
  <1>19. ASSUME NEW r \in Req, NEW delay \in BOOLEAN, finish_requests(r, delay)
         PROVE  LandingExclusive'
    <2>1. CASE status[r] \in {"waiting", "landed", "running"}
      BY <1>15, <1>19, <2>1 DEF finish_requests, handlerVars
    <2>2. CASE status[r] = "loading"
      <3>1. /\ status' = [status EXCEPT ![r] = "cancelled"]
            /\ UNCHANGED <<landing, blocks, deferred_frees, cow>>
        BY <1>19, <2>2 DEF finish_requests, handlerVars
      <3>2. \A q \in Req : landing[q] # {} => status'[q] \in {"loading", "cancelled"}
        BY <1>0, <3>1 DEF TypeOK
      <3> QED BY <1>0, <3>1, <3>2 DEF LandingExclusive, Parked
    <2> QED BY <1>19, <2>1, <2>2 DEF finish_requests
  <1>20. ASSUME NEW r \in Req, ResetPreempt(r) PROVE LandingExclusive'
    BY <1>1, <1>4, <1>20 DEF ResetPreempt, _preempt_request, handlerVars, TypeOK
  <1>21. CASE EndUpdate
    BY <1>6, <1>21 DEF EndUpdate
  <1> QED
    BY <1>6, <1>7, <1>8, <1>9, <1>10, <1>11, <1>12, <1>13, <1>14, <1>16, <1>17,
       <1>18, <1>19, <1>20, <1>21
    DEF Next, vars, handlerVars, BeginSchedule, BeginWaiting, BeginAgain, BeginXfer, BeginReset,
        ResetDone

(* No step in flight is at or below the fence that was passed last. *)
LEMMA InFlightAboveFence ==
  ASSUME TypeOK, HandlerInv, SeqInv, defer_block_free, NEW i \in InFlight
  PROVE  /\ i \in 0 .. MaxStep /\ i - 1 \in 0 .. MaxStep
         /\ step[i - 1].seq \in Nat /\ step[i - 1].seq >= processed_step_seq
         /\ step[i - 1].seq <= sched_step_seq
         /\ i - 1 \in completed .. issued
  <1>1. /\ i \in 0 .. MaxStep /\ i - 1 \in 0 .. MaxStep
        /\ completed \in completed .. issued /\ i - 1 \in completed .. issued
        /\ issued \in completed .. issued /\ completed <= i - 1 /\ i - 1 <= issued
    BY ConfigAssumption DEF TypeOK, HandlerInv, InFlight
  <1>2. step[i - 1].seq \in Nat
    BY <1>1 DEF TypeOK, Step
  <1> QED BY <1>1, <1>2 DEF SeqInv

(* Touched blocks stay held, or parked behind a fence that is high enough. *)
LEMMA FenceStep ==
  ASSUME TypeOK, HandlerInv, SeqInv, FenceInv, [Next]_vars, TypeOK', HandlerInv', SeqInv'
  PROVE  FenceInv'
  <1> DEFINE idle(r) == status[r] \notin {"loading", "landed", "cancelled"}
             heldBy(r, b, i) == b \in blocks[r] /\ idle(r)
                                  /\ last_sched_seq[r] > step[i - 1].seq
             parkedAt(k, b, i) == b \in deferred_frees[k].blocks
                                    /\ deferred_frees[k].fence > step[i - 1].seq
             covered(b, i) == \/ \E r \in Req : heldBy(r, b, i)
                              \/ \E k \in DOMAIN deferred_frees : parkedAt(k, b, i)
  <1> SUFFICES ASSUME defer_block_free,
                      NEW i \in InFlight', NEW b \in step'[i].touched
               PROVE  covered(b, i)'
    BY DEF FenceInv, defer_block_free
  <1>0. i \in InFlight /\ b \in step[i].touched => covered(b, i)
    BY DEF FenceInv
  <1>01. i \in InFlight => /\ i - 1 \in 0 .. MaxStep /\ step[i - 1].seq \in Nat
                           /\ step[i - 1].seq >= processed_step_seq
                           /\ step[i - 1].seq <= sched_step_seq
    BY InFlightAboveFence
  <1>02. /\ sched_step_seq \in Nat /\ processed_step_seq \in Nat
         /\ last_sched_seq \in [Req -> Nat]
         /\ \A r \in Req : last_sched_seq[r] \in Nat /\ last_sched_seq[r] <= sched_step_seq
    BY DEF TypeOK, SeqInv
  (* The queue stands still and every holder or parked entry stays. *)
  <1>1. ASSUME UNCHANGED engineVars,
               \A r \in Req : blocks[r] # {} /\ idle(r) =>
                 /\ blocks[r] \subseteq blocks'[r] /\ idle(r)'
                 /\ last_sched_seq'[r] = last_sched_seq[r],
               \A k \in DOMAIN deferred_frees :
                 k \in DOMAIN deferred_frees' /\ deferred_frees'[k] = deferred_frees[k]
        PROVE  covered(b, i)'
    <2>1. i \in InFlight /\ b \in step[i].touched /\ step' = step
      BY <1>1 DEF InFlight, engineVars
    <2>2. CASE \E r \in Req : heldBy(r, b, i)
      <3>1. PICK r \in Req : heldBy(r, b, i)
        BY <2>2
      <3>2. heldBy(r, b, i)'
        BY <1>1, <2>1, <3>1
      <3> QED BY <3>2
    <2>3. CASE \E k \in DOMAIN deferred_frees : parkedAt(k, b, i)
      <3>1. PICK k \in DOMAIN deferred_frees : parkedAt(k, b, i)
        BY <2>3
      <3>2. k \in DOMAIN deferred_frees' /\ parkedAt(k, b, i)'
        BY <1>1, <2>1, <3>1
      <3> QED BY <3>2
    <2> QED BY <1>0, <2>1, <2>2, <2>3
  (* The blocks of r are released or parked. *)
  <1>2. ASSUME NEW r \in Req, UNCHANGED <<engineVars, fenceVars>>,
               blocks' = [blocks EXCEPT ![r] = {}],
               deferred_frees' = _free_request_blocks(r),
               \A q \in Req \ {r} : status'[q] = status[q]
        PROVE  covered(b, i)'
    <2>1. i \in InFlight /\ b \in step[i].touched /\ step' = step
          /\ last_sched_seq' = last_sched_seq
      BY <1>2 DEF InFlight, engineVars, fenceVars
    <2>2. \A k \in DOMAIN deferred_frees :
            k \in DOMAIN deferred_frees' /\ deferred_frees'[k] = deferred_frees[k]
      BY <1>2, FreedBlocks
    <2>3. CASE heldBy(r, b, i)
      <3>1. ~_request_blocks_can_be_freed(r)
        BY <1>01, <1>02, <2>1, <2>3 DEF _request_blocks_can_be_freed
      <3>2. PICK k \in DOMAIN deferred_frees' :
              b \in deferred_frees'[k].blocks /\ deferred_frees'[k].fence = sched_step_seq
        BY <1>2, <2>3, <3>1, FreedBlocks
      <3>3. sched_step_seq > step'[i - 1].seq
        BY <1>01, <1>02, <2>1, <2>3
      <3>4. parkedAt(k, b, i)'
        BY <3>2, <3>3
      <3> QED BY <3>4
    <2>4. CASE \E q \in Req \ {r} : heldBy(q, b, i)
      <3>1. PICK q \in Req \ {r} : heldBy(q, b, i)
        BY <2>4
      <3>2. blocks'[q] = blocks[q] /\ status'[q] = status[q]
        BY <1>2, <3>1 DEF TypeOK
      <3>3. heldBy(q, b, i)'
        BY <2>1, <3>1, <3>2
      <3> QED BY <3>3
    <2>5. CASE \E k \in DOMAIN deferred_frees : parkedAt(k, b, i)
      <3>1. PICK k \in DOMAIN deferred_frees : parkedAt(k, b, i)
        BY <2>5
      <3>2. k \in DOMAIN deferred_frees' /\ parkedAt(k, b, i)'
        BY <2>1, <2>2, <3>1
      <3> QED BY <3>2
    <2> QED BY <1>0, <2>1, <2>3, <2>4, <2>5
  <1>3. ASSUME UNCHANGED <<engineVars, fenceVars, ownerVars, deferred_frees>>
        PROVE  covered(b, i)'
    BY <1>1, <1>3 DEF fenceVars, ownerVars
  <1>4. ASSUME NEW r \in Req, add_request(r) PROVE covered(b, i)'
    <2>1. blocks[r] = {} /\ blocks' = blocks /\ deferred_frees' = deferred_frees
      BY <1>4 DEF add_request, HandlerInv
    <2>2. \A q \in Req \ {r} : status'[q] = status[q] /\ last_sched_seq'[q] = last_sched_seq[q]
      BY <1>4 DEF add_request, TypeOK
    <2> QED BY <1>1, <1>4, <2>1, <2>2 DEF add_request
  <1>5. ASSUME NEW r \in Req, NEW fresh \in SUBSET Block, ScheduleRunning(r, fresh)
        PROVE  covered(b, i)'
    BY <1>1, <1>5 DEF ScheduleRunning, TypeOK, fenceVars
  <1>6. ASSUME NEW r \in Req, PreemptVictim(r) PROVE covered(b, i)'
    BY <1>2, <1>6 DEF PreemptVictim, _preempt_request, TypeOK
  <1>7. ASSUME NEW r \in Req, NEW valid \in BOOLEAN, PromoteLoaded(r, valid)
        PROVE  covered(b, i)'
    <2>1. \A q \in Req : idle(q) =>
            q # r /\ blocks'[q] = blocks[q] /\ status'[q] = status[q]
      BY <1>7 DEF PromoteLoaded, TypeOK
    <2> QED BY <1>1, <1>7, <2>1 DEF PromoteLoaded, fenceVars
  <1>8. ASSUME NEW r \in Req, NEW hits \in SUBSET Block, NEW fresh \in SUBSET Block,
               NEW source \in SUBSET Block, AdmitWaiting(r, hits, fresh, source)
        PROVE  covered(b, i)'
    BY <1>1, <1>8 DEF AdmitWaiting, TypeOK, fenceVars
  <1>9. ASSUME NEW r \in Req, NEW hits \in SUBSET Block, NEW fresh \in SUBSET Block,
               StartLoad(r, hits, fresh)
        PROVE  covered(b, i)'
    BY <1>1, <1>9 DEF StartLoad, TypeOK, fenceVars
  <1>10. CASE EndSchedule
    <2> DEFINE seq == advanced_step_seq(batch)
               new == [reqs    |-> batch,
                       touched |-> (UNION {blocks[r] : r \in batch}) \cup cow,
                       seq     |-> seq]
    <2>1. /\ issued < MaxStep /\ issued' = issued + 1 /\ completed' = completed
          /\ step' = [step EXCEPT ![issued + 1] = new]
          /\ UNCHANGED ownerVars
          /\ deferred_frees' = _free_cow_retained_blocks(cow, sched_step_seq + 1)
          /\ last_sched_seq' =
               [r \in Req |-> IF r \in batch THEN seq ELSE last_sched_seq[r]]
      BY <1>10 DEF EndSchedule, HandlerInv
    <2>2. seq = sched_step_seq + (IF batch = {} THEN 0 ELSE 1)
      BY <1>02 DEF advanced_step_seq
    <2>3. \A r \in Req : /\ last_sched_seq'[r] >= last_sched_seq[r]
                         /\ r \in batch => last_sched_seq'[r] = seq /\ seq = sched_step_seq + 1
      BY <1>02, <2>1, <2>2
    <2>4. /\ \A k \in DOMAIN deferred_frees :
               k \in DOMAIN deferred_frees' /\ deferred_frees'[k] = deferred_frees[k]
          /\ sched_step_seq >= processed_step_seq =>
               \A c \in cow : \E k \in DOMAIN deferred_frees' :
                 c \in deferred_frees'[k].blocks
                   /\ deferred_frees'[k].fence = sched_step_seq + 1
      BY <2>1, RetainedBlocks
    <2>5. /\ issued \in Nat /\ completed \in Nat /\ completed <= issued
          /\ issued + 1 \in 0 .. MaxStep
      BY <2>1, ConfigAssumption DEF TypeOK, HandlerInv
    <2>6. CASE i \in InFlight
      <3>1. i # issued + 1 /\ i - 1 # issued + 1
        BY <2>5, <2>6 DEF InFlight
      <3>2. step'[i] = step[i] /\ step'[i - 1] = step[i - 1]
        BY <1>01, <2>1, <2>5, <2>6, <3>1, InFlightAboveFence DEF TypeOK
      <3>3. CASE \E r \in Req : heldBy(r, b, i)
        <4>1. PICK r \in Req : heldBy(r, b, i)
          BY <3>3
        <4>2. last_sched_seq'[r] > step'[i - 1].seq
          <5>1. last_sched_seq'[r] \in Nat
            BY DEF TypeOK
          <5> QED BY <1>01, <1>02, <2>3, <2>6, <3>2, <4>1, <5>1
        <4>3. heldBy(r, b, i)'
          BY <2>1, <4>1, <4>2 DEF ownerVars
        <4> QED BY <4>3
      <3>4. CASE \E k \in DOMAIN deferred_frees : parkedAt(k, b, i)
        <4>1. PICK k \in DOMAIN deferred_frees : parkedAt(k, b, i)
          BY <3>4
        <4>2. k \in DOMAIN deferred_frees' /\ parkedAt(k, b, i)'
          BY <2>4, <3>2, <4>1
        <4> QED BY <4>2
      <3> QED BY <1>0, <2>6, <3>2, <3>3, <3>4
    <2>7. CASE i = issued + 1
      <3>1. i - 1 = issued /\ i - 1 # i /\ issued \in 0 .. MaxStep
        BY <2>5, <2>7, ConfigAssumption
      <3>2. step'[i] = new /\ step'[i - 1] = step[issued]
        BY <2>1, <2>5, <2>7, <3>1 DEF TypeOK
      <3>3. step'[i - 1].seq = sched_step_seq
        BY <3>2 DEF SeqInv
      <3>4. b \in (UNION {blocks[r] : r \in batch}) \cup cow
        BY <3>2
      <3>5. CASE b \in cow
        <4>1. sched_step_seq >= processed_step_seq
          <5>1. completed \in completed .. issued /\ issued \in completed .. issued
            BY <2>5
          <5> QED BY <2>5, <5>1 DEF SeqInv
        <4>2. PICK k \in DOMAIN deferred_frees' :
                b \in deferred_frees'[k].blocks
                  /\ deferred_frees'[k].fence = sched_step_seq + 1
          BY <2>4, <3>5, <4>1
        <4>3. parkedAt(k, b, i)'
          BY <1>02, <3>3, <4>2
        <4> QED BY <4>3
      <3>6. CASE b \in UNION {blocks[r] : r \in batch}
        <4>1. PICK r \in batch : b \in blocks[r]
          BY <3>6
        <4>2. r \in Req /\ status[r] = "running"
          BY DEF TypeOK
        <4>3. last_sched_seq'[r] > step'[i - 1].seq
          BY <1>02, <2>3, <3>3, <4>2
        <4>4. heldBy(r, b, i)'
          BY <2>1, <4>1, <4>2, <4>3 DEF ownerVars
        <4> QED BY <4>2, <4>4
      <3> QED BY <3>4, <3>5, <3>6
    <2>8. i \in InFlight \/ i = issued + 1
      BY <2>1, <2>5 DEF InFlight
    <2> QED BY <2>6, <2>7, <2>8
  <1>11. CASE BeginUpdate
    <2>1. /\ completed < issued /\ completed' = completed + 1
          /\ UNCHANGED <<issued, step, ownerVars, last_sched_seq>>
      BY <1>11 DEF BeginUpdate
    <2>2. i \in InFlight /\ b \in step[i].touched
      BY <2>1, ConfigAssumption DEF InFlight, TypeOK
    <2>3. step[i - 1].seq >= processed_step_seq' /\ processed_step_seq' \in Nat
      <3>1. step'[i - 1].seq >= processed_step_seq'
        <4>1. /\ i - 1 \in completed' .. issued' /\ completed' \in completed' .. issued'
              /\ completed' <= i - 1
          BY <2>1, ConfigAssumption DEF InFlight, TypeOK
        <4> QED BY <4>1 DEF SeqInv, defer_block_free
      <3> QED BY <2>1, <3>1 DEF TypeOK
    <2>4. CASE \E r \in Req : heldBy(r, b, i)
      BY <2>1, <2>4 DEF ownerVars
    <2>5. CASE \E k \in DOMAIN deferred_frees : parkedAt(k, b, i)
      <3>1. PICK k \in DOMAIN deferred_frees : parkedAt(k, b, i)
        BY <2>5
      <3>2. CASE deferred_frees' = deferred_frees
        <4>1. k \in DOMAIN deferred_frees' /\ parkedAt(k, b, i)'
          BY <2>1, <3>1, <3>2
        <4> QED BY <4>1
      <3>3. CASE deferred_frees' # deferred_frees
        <4>1. processed_step_seq' = processed_step_seq + 1
          BY <1>11, <3>3 DEF BeginUpdate
        <4>2. PICK n \in 0 .. Len(deferred_frees) :
                _drain_deferred_frees(n, processed_step_seq + 1)
          BY <1>11, <3>3 DEF BeginUpdate
        <4>3. deferred_frees[k].fence > processed_step_seq + 1
          <5>1. deferred_frees[k].fence \in Nat
            <6>1. deferred_frees[k] \in Entry
              BY <3>1 DEF TypeOK
            <6> QED BY <6>1 DEF Entry
          <5> QED BY <1>01, <1>02, <2>2, <2>3, <3>1, <4>1, <5>1
        <4>4. k - n \in DOMAIN deferred_frees' /\ deferred_frees'[k - n] = deferred_frees[k]
          BY <1>02, <3>1, <4>2, <4>3, DrainedBlocks
        <4>5. parkedAt(k - n, b, i)'
          BY <2>1, <3>1, <4>4
        <4> QED BY <4>4, <4>5
      <3> QED BY <3>2, <3>3
    <2> QED BY <1>0, <2>2, <2>4, <2>5
  <1>12. ASSUME NEW r \in Req, NEW delay \in BOOLEAN, _free_request(r, delay),
                status[r] \in {"waiting", "landed", "running"},
                UNCHANGED <<engineVars, fenceVars>>
         PROVE  covered(b, i)'
    <2>1. CASE delay
      BY <1>1, <1>12, <2>1 DEF _free_request, TypeOK, fenceVars
    <2>2. CASE ~delay
      BY <1>2, <1>12, <2>2 DEF _free_request, TypeOK
    <2> QED BY <2>1, <2>2
  <1>13. ASSUME NEW r \in Req, NEW delay \in BOOLEAN, StopRequest(r, delay)
         PROVE  covered(b, i)'
    BY <1>12, <1>13 DEF StopRequest
  <1>14. ASSUME NEW r \in Req, FinishedRecving(r) PROVE covered(b, i)'
    <2>1. CASE status[r] = "cancelled"
      BY <1>2, <1>14, <2>1 DEF FinishedRecving, _free_blocks, TypeOK
    <2>2. CASE status[r] = "loading"
      BY <1>1, <1>14, <2>2 DEF FinishedRecving, TypeOK, fenceVars
    <2> QED BY <1>14, <2>1, <2>2 DEF FinishedRecving
  <1>15. ASSUME NEW r \in Req, FinishedSending(r) PROVE covered(b, i)'
    BY <1>2, <1>15 DEF FinishedSending, _free_blocks, TypeOK
  <1>16. CASE EndUpdate
    <2>1. /\ step' = [step EXCEPT ![completed].reqs = {}, ![completed].touched = {}]
          /\ UNCHANGED <<issued, completed, fenceVars, ownerVars, deferred_frees>>
      BY <1>16 DEF EndUpdate
    <2>2. i \in InFlight
      BY <2>1 DEF InFlight
    <2>3. i # completed /\ i \in 0 .. MaxStep /\ i - 1 \in 0 .. MaxStep
      BY <2>2, ConfigAssumption, InFlightAboveFence DEF InFlight, TypeOK
    <2>4. step'[i] = step[i] /\ step'[i - 1].seq = step[i - 1].seq
      BY <2>1, <2>3 DEF TypeOK, Step
    <2>5. covered(b, i)
      BY <1>0, <2>2, <2>4
    <2>6. CASE \E r \in Req : heldBy(r, b, i)
      BY <2>1, <2>4, <2>6 DEF ownerVars, fenceVars
    <2>7. CASE \E k \in DOMAIN deferred_frees : parkedAt(k, b, i)
      BY <2>1, <2>4, <2>7
    <2> QED BY <2>5, <2>6, <2>7
  <1>17. ASSUME NEW r \in Req, NEW delay \in BOOLEAN, finish_requests(r, delay)
         PROVE  covered(b, i)'
    <2>1. CASE status[r] \in {"waiting", "landed", "running"}
      BY <1>12, <1>17, <2>1 DEF finish_requests
    <2>2. CASE status[r] = "loading"
      BY <1>1, <1>17, <2>2 DEF finish_requests, TypeOK, fenceVars
    <2> QED BY <1>17, <2>1, <2>2 DEF finish_requests
  <1>18. ASSUME NEW r \in Req, ResetPreempt(r) PROVE covered(b, i)'
    BY <1>2, <1>18 DEF ResetPreempt, _preempt_request, TypeOK
  <1> HIDE DEF covered
  <1> QED
    BY <1>3, <1>4, <1>5, <1>6, <1>7, <1>8, <1>9, <1>10, <1>11, <1>13, <1>14, <1>15,
       <1>16, <1>17, <1>18
    DEF Next, vars, BeginSchedule, BeginWaiting, BeginAgain, BeginXfer, BeginReset, ResetDone

(* A load starts on blocks no step in flight touches, and a step is issued *)
(* only with blocks that are not being loaded.                             *)
LEMMA OverwriteStep ==
  ASSUME TypeOK, HandlerInv, LandingExclusive, FenceInv, NoOverwrite, [Next]_vars
  PROVE  NoOverwrite'
  <1> SUFFICES ASSUME NEW i \in InFlight', NEW b \in step'[i].touched, b \in Landing'
               PROVE  FALSE
    BY DEF NoOverwrite
  <1>0. \A j \in InFlight : b \in step[j].touched => b \notin Landing
    BY DEF NoOverwrite
  (* What is being filled does not grow. *)
  <1>1. ASSUME UNCHANGED engineVars, Landing' \subseteq Landing PROVE FALSE
    BY <1>0, <1>1 DEF engineVars, InFlight
  <1>2. ASSUME NEW r \in Req, NEW hits \in SUBSET Block, NEW fresh \in SUBSET Block,
               StartLoad(r, hits, fresh)
        PROVE  FALSE
    <2>1. i \in InFlight /\ b \in step[i].touched
      BY <1>2 DEF StartLoad, engineVars, InFlight
    <2>2. b \in fresh
      <3>1. landing' = [landing EXCEPT ![r] = fresh]
        BY <1>2 DEF StartLoad
      <3>2. PICK q \in Req : b \in landing'[q]
        BY DEF Landing
      <3>3. q = r
        BY <1>0, <2>1, <3>1, <3>2 DEF TypeOK, Landing
      <3> QED BY <3>1, <3>2, <3>3 DEF TypeOK
    <2>3. b \notin Parked /\ \A q \in Req : b \notin blocks[q]
      BY <1>2, <2>2, FreeIsUnheld DEF StartLoad
    <2>4. CASE defer_block_free
      BY <2>1, <2>3, <2>4 DEF FenceInv, Parked
    <2>5. CASE ~defer_block_free
      <3>1. MaxBatches = 1 /\ issued - completed < MaxBatches /\ completed <= issued
        BY <1>2, <2>5, ConfigAssumption DEF StartLoad, HandlerInv, Passes, defer_block_free
      <3>2. issued = completed
        BY <3>1, ConfigAssumption DEF TypeOK
      <3> QED BY <2>1, <3>2, ConfigAssumption DEF InFlight, TypeOK
    <2> QED BY <2>4, <2>5
  <1>3. CASE EndSchedule
    <2> DEFINE new == [reqs    |-> batch,
                       touched |-> (UNION {blocks[r] : r \in batch}) \cup cow,
                       seq     |-> advanced_step_seq(batch)]
    <2>1. /\ issued < MaxStep /\ issued' = issued + 1 /\ completed' = completed
          /\ step' = [step EXCEPT ![issued + 1] = new]
          /\ UNCHANGED ownerVars
      BY <1>3 DEF EndSchedule, HandlerInv
    <2>2. b \in Landing
      BY <2>1 DEF ownerVars, Landing
    <2>3. issued \in Nat /\ completed \in Nat /\ issued + 1 \in 0 .. MaxStep
      BY <2>1, ConfigAssumption DEF TypeOK
    <2>4. CASE i \in InFlight
      <3>1. i # issued + 1 /\ i \in 0 .. MaxStep
        BY <2>3, <2>4, ConfigAssumption DEF InFlight
      <3>2. step'[i] = step[i]
        BY <2>1, <3>1 DEF TypeOK
      <3> QED BY <1>0, <2>2, <2>4, <3>2
    <2>5. CASE i = issued + 1
      <3>1. step'[i] = new
        BY <2>1, <2>3, <2>5 DEF TypeOK
      <3>2. b \in (UNION {blocks[r] : r \in batch}) \cup cow
        BY <3>1
      <3>3. PICK q \in Req : b \in landing[q]
        BY <2>2 DEF Landing
      <3>4. b \notin cow /\ status[q] \in {"loading", "cancelled"}
            /\ \A p \in Req \ {q} : b \notin blocks[p]
        BY <3>3 DEF LandingExclusive
      <3>5. PICK r \in batch : b \in blocks[r]
        BY <3>2, <3>4
      <3>6. r \in Req /\ status[r] = "running"
        BY DEF TypeOK
      <3> QED BY <3>4, <3>5, <3>6
    <2>6. i \in InFlight \/ i = issued + 1
      BY <2>1, <2>3 DEF InFlight
    <2> QED BY <2>4, <2>5, <2>6
  <1>4. CASE BeginUpdate
    <2>1. /\ completed' = completed + 1
          /\ UNCHANGED <<issued, step, ownerVars>>
      BY <1>4 DEF BeginUpdate
    <2>2. i \in InFlight
      BY <2>1, ConfigAssumption DEF InFlight, TypeOK
    <2> QED BY <1>0, <2>1, <2>2 DEF ownerVars, Landing
  <1>5. CASE EndUpdate
    <2>1. /\ step' = [step EXCEPT ![completed].reqs = {}, ![completed].touched = {}]
          /\ UNCHANGED <<issued, completed, ownerVars>>
      BY <1>5 DEF EndUpdate
    <2>2. i \in InFlight /\ i # completed /\ i \in 0 .. MaxStep
      BY <2>1, ConfigAssumption DEF InFlight, TypeOK
    <2>3. step'[i] = step[i]
      BY <2>1, <2>2 DEF TypeOK
    <2> QED BY <1>0, <2>1, <2>2, <2>3 DEF ownerVars, Landing
  <1>6. CASE UNCHANGED <<engineVars, landing>>
    BY <1>1, <1>6 DEF Landing
  <1>7. ASSUME NEW r \in Req, FinishedRecving(r) PROVE FALSE
    <2>1. landing' = [landing EXCEPT ![r] = {}]
      BY <1>7 DEF FinishedRecving
    <2>2. Landing' \subseteq Landing
      BY <2>1 DEF Landing, TypeOK
    <2> QED BY <1>1, <1>7, <2>2 DEF FinishedRecving
  <1> QED
    BY <1>2, <1>3, <1>4, <1>5, <1>6, <1>7
    DEF Next, vars, add_request, BeginSchedule, ScheduleRunning, PreemptVictim,
        BeginWaiting, BeginAgain, PromoteLoaded, AdmitWaiting, StopRequest, BeginXfer,
        FinishedSending, finish_requests, BeginReset, ResetPreempt, ResetDone, ownerVars

LEMMA InitIInv == Init => IInv
  <1> SUFFICES ASSUME Init PROVE IInv
    OBVIOUS
  <1>1. TypeOK
    BY InitTypeOK
  <1>2. HandlerInv
    BY ConfigAssumption DEF Init, HandlerInv, Landing
  <1>3. InFlight = {}
    BY DEF Init, InFlight
  <1>4. SeqInv
    <2>1. \A i \in 0 .. MaxStep : step[i].seq = 0
      BY DEF Init
    <2>2. issued = 0 /\ completed = 0 /\ sched_step_seq = 0 /\ processed_step_seq = 0
          /\ deferred_frees = <<>> /\ \A r \in Req : last_sched_seq[r] = 0
      BY DEF Init
    <2>3. 0 \in 0 .. MaxStep /\ \A j \in 0 .. 0 : j = 0
      BY ConfigAssumption
    <2> QED BY <1>3, <2>1, <2>2, <2>3 DEF SeqInv
  <1>5. LandingExclusive
    BY DEF Init, LandingExclusive
  <1> QED BY <1>1, <1>2, <1>3, <1>4, <1>5 DEF IInv, FenceInv, NoOverwrite

LEMMA Inductive == IInv /\ [Next]_vars => IInv'
  <1> SUFFICES ASSUME IInv, [Next]_vars PROVE IInv'
    OBVIOUS
  <1>1. TypeOK /\ HandlerInv /\ SeqInv /\ LandingExclusive /\ FenceInv /\ NoOverwrite
    BY DEF IInv
  <1>2. TypeOK' /\ HandlerInv'
    BY <1>1, TypeStep, HandlerStep
  <1>3. SeqInv'
    BY <1>1, SeqStep
  <1>4. LandingExclusive'
    BY <1>1, LandingStep
  <1>5. FenceInv'
    BY <1>1, <1>2, <1>3, FenceStep
  <1>6. NoOverwrite'
    BY <1>1, OverwriteStep
  <1> QED BY <1>2, <1>3, <1>4, <1>5, <1>6 DEF IInv

(* The strengthened invariant holds in every reachable state of the        *)
(* scheduler, for every pipeline depth and every mix of requests.          *)
THEOREM Invariance == Spec => []IInv
  <1>1. Init => IInv
    BY InitIInv
  <1>2. IInv /\ [Next]_vars => IInv'
    BY Inductive
  <1> QED BY <1>1, <1>2, PTL DEF Spec

(* The scheduler's variables keep their types, and what a step under       *)
(* construction schedules is running: a victim leaves the step with its    *)
(* blocks.                                                                 *)
THEOREM TypeCorrect == Spec => []TypeOK
  <1>1. IInv => TypeOK
    BY DEF IInv
  <1> QED BY <1>1, Invariance, PTL

(* No asynchronous load ever writes a block that an unprocessed model step *)
(* may still read or write (defer_block_free, scheduler.py:208-214).       *)
THEOREM NeverOverwritten == Spec => []NoOverwrite
  <1>1. IInv => NoOverwrite
    BY DEF IInv
  <1> QED BY <1>1, Invariance, PTL

(* A block that is being filled belongs to its loading request alone.      *)
THEOREM LandingIsExclusive == Spec => []LandingExclusive
  <1>1. IInv => LandingExclusive
    BY DEF IInv
  <1> QED BY <1>1, Invariance, PTL

(* The two step counters are equal whenever nothing is in flight.          *)
THEOREM CountersStayInSync == Spec => []CountersInSync
  <1>1. IInv => CountersInSync
    <2> SUFFICES ASSUME IInv, issued = completed
                 PROVE  processed_step_seq = sched_step_seq
      BY DEF CountersInSync
    <2> QED BY DEF IInv, SeqInv
  <1> QED BY <1>1, Invariance, PTL

(* Without deferral nothing is ever parked.                                *)
THEOREM NothingIsParked == Spec => []NothingParkedUnlessNeeded
  <1>1. IInv => NothingParkedUnlessNeeded
    BY DEF IInv, SeqInv, NothingParkedUnlessNeeded
  <1> QED BY <1>1, Invariance, PTL

-----------------------------------------------------------------------------
(* The fenced scheduler implements BlockReuse.                             *)

(* Whoever holds a block, it is a block; what is being filled is held.     *)
OwnersHoldBlocks ==
  Held \subseteq Block /\ Parked \subseteq Block /\ Landing \subseteq Held

LEMMA Ownership == TypeOK /\ LandingExclusive => OwnersHoldBlocks
  <1> SUFFICES ASSUME TypeOK, LandingExclusive PROVE OwnersHoldBlocks
    OBVIOUS
  <1>1. \A i \in DOMAIN deferred_frees : deferred_frees[i].blocks \subseteq Block
    <2>1. \A i \in DOMAIN deferred_frees : deferred_frees[i] \in Entry
      BY DEF TypeOK
    <2> QED BY <2>1 DEF Entry
  <1>2. Parked \subseteq Block
    BY <1>1 DEF Parked
  <1>3. Held \subseteq Block
    BY <1>2 DEF TypeOK, Held
  <1>4. Landing \subseteq Held
    BY DEF LandingExclusive, Held, Landing
  <1> QED BY <1>2, <1>3, <1>4 DEF OwnersHoldBlocks

LEMMA OwnershipNext == TypeOK' /\ LandingExclusive' => OwnersHoldBlocks'
  BY Ownership, PTL

(* The queue of BlockReuse: what the steps in flight touch. *)
Pipeline == [i \in 1 .. issued - completed |-> step[completed + i].touched]

PipelineIsASequence ==
  /\ issued - completed \in Nat
  /\ Pipeline \in Seq(SUBSET Block) /\ Len(Pipeline) = issued - completed
  /\ \A i \in 1 .. issued - completed :
       completed + i \in InFlight /\ Pipeline[i] = step[completed + i].touched

LEMMA PipelineSequence == TypeOK /\ HandlerInv => PipelineIsASequence
  <1> SUFFICES ASSUME TypeOK, HandlerInv PROVE PipelineIsASequence
    OBVIOUS
  <1>1. issued - completed \in Nat
    BY ConfigAssumption DEF TypeOK, HandlerInv
  <1>2. \A i \in 1 .. issued - completed : completed + i \in 0 .. MaxStep /\ completed + i \in InFlight
    BY ConfigAssumption DEF TypeOK, HandlerInv, InFlight
  <1>3. \A i \in 1 .. issued - completed : step[completed + i].touched \in SUBSET Block
    BY <1>2 DEF TypeOK, Step
  <1>4. Pipeline \in [1 .. issued - completed -> SUBSET Block]
    BY <1>3 DEF Pipeline
  <1>5. Pipeline \in Seq(SUBSET Block) /\ Len(Pipeline) = issued - completed
    BY <1>1, <1>4
  <1> QED BY <1>1, <1>2, <1>5 DEF Pipeline, PipelineIsASequence

LEMMA PipelineSequenceNext == TypeOK' /\ HandlerInv' => PipelineIsASequence'
  BY PipelineSequence, PTL

(* A change of ownership that starts and ends no load, and no step. *)
LEMMA OwnStep ==
  ASSUME OwnersHoldBlocks', Landing' = Landing, Pipeline' = Pipeline
  PROVE  Reuse!Own
  BY DEF OwnersHoldBlocks, Pipeline, Reuse!Own

(* The end of schedule() hands the step over. *)
LEMMA SubmitStep ==
  ASSUME IInv, IInv', EndSchedule
  PROVE  \E T \in SUBSET Block : Reuse!Submit(T)
  <1>0. PICK T : T = step'[issued + 1].touched
    OBVIOUS
  <1>1. PipelineIsASequence /\ PipelineIsASequence' /\ OwnersHoldBlocks'
    BY PipelineSequence, PipelineSequenceNext, OwnershipNext DEF IInv
  <1>2. /\ issued' = issued + 1 /\ completed' = completed /\ landing' = landing
        /\ issued \in Nat /\ completed \in Nat /\ completed <= issued
        /\ issued + 1 \in 0 .. MaxStep /\ issued + 1 \in InFlight'
    BY ConfigAssumption DEF EndSchedule, ownerVars, IInv, TypeOK, HandlerInv, InFlight
  <1>3. \A i \in InFlight : step'[i] = step[i]
    BY <1>2 DEF EndSchedule, InFlight
  <1>4. Landing' = Landing
    BY <1>2 DEF Landing
  <1>5. T \cap Landing = {}
    BY <1>0, <1>2, <1>4 DEF IInv, NoOverwrite
  <1>6. T \in SUBSET Block
    BY <1>0, <1>2 DEF IInv, TypeOK, Step
  <1>7. Pipeline' = Append(Pipeline, T)
    <2>1. /\ Append(Pipeline, T) \in Seq(SUBSET Block)
          /\ Len(Append(Pipeline, T)) = issued - completed + 1
          /\ \A i \in 1 .. issued - completed : Append(Pipeline, T)[i] = step[completed + i].touched
          /\ Append(Pipeline, T)[issued - completed + 1] = T
      BY <1>1, <1>6 DEF PipelineIsASequence
    <2>2. /\ Pipeline' \in Seq(SUBSET Block) /\ Len(Pipeline') = issued - completed + 1
          /\ \A i \in 1 .. issued - completed + 1 : Pipeline'[i] = step'[completed + i].touched
      BY <1>1, <1>2 DEF PipelineIsASequence
    <2>3. \A i \in 1 .. issued - completed : step'[completed + i].touched = step[completed + i].touched
      BY <1>1, <1>3 DEF PipelineIsASequence
    <2>4. completed + (issued - completed + 1) = issued + 1
      BY <1>2
    <2>5. Pipeline'[issued - completed + 1] = Append(Pipeline, T)[issued - completed + 1]
      <3>1. issued - completed + 1 \in 1 .. issued - completed + 1
        BY <1>2
      <3> QED BY <1>0, <2>1, <2>2, <2>4, <3>1
    <2>6. \A i \in 1 .. issued - completed : Pipeline'[i] = Append(Pipeline, T)[i]
      <3>1. \A i \in 1 .. issued - completed : i \in 1 .. issued - completed + 1
        BY <1>2
      <3> QED BY <2>1, <2>2, <2>3, <3>1
    <2>7. \A i \in 1 .. issued - completed + 1 : i \in 1 .. issued - completed \/ i = issued - completed + 1
      BY <1>2
    <2>8. \A i \in 1 .. issued - completed + 1 : Pipeline'[i] = Append(Pipeline, T)[i]
      BY <2>5, <2>6, <2>7
    <2> QED BY <2>1, <2>2, <2>8, SeqEqual
  <1>8. Reuse!Submit(T)
    BY <1>1, <1>4, <1>5, <1>7 DEF Reuse!Submit, OwnersHoldBlocks, Pipeline
  <1> QED BY <1>6, <1>8

(* update_from_output() takes the oldest step, and drains. *)
LEMMA CompleteStep ==
  ASSUME IInv, IInv', BeginUpdate
  PROVE  Reuse!Complete
  <1>1. PipelineIsASequence /\ PipelineIsASequence' /\ OwnersHoldBlocks'
    BY PipelineSequence, PipelineSequenceNext, OwnershipNext DEF IInv
  <1>2. /\ issued' = issued /\ completed' = completed + 1 /\ landing' = landing
        /\ blocks' = blocks /\ cow' = cow /\ step' = step
        /\ issued \in Nat /\ completed \in Nat /\ completed < issued
    BY ConfigAssumption DEF BeginUpdate, ownerVars, IInv, TypeOK
  <1>3. Landing' = Landing
    BY <1>2 DEF Landing
  <1>4. Parked' \subseteq Parked
    <2>1. CASE defer_block_free /\ step[completed + 1].reqs # {}
      <3>1. PICK n \in 0 .. Len(deferred_frees) : _drain_deferred_frees(n, processed_step_seq + 1)
        BY <2>1 DEF BeginUpdate
      <3>2. \A k \in DOMAIN deferred_frees' :
              n + k \in DOMAIN deferred_frees /\ deferred_frees'[k] = deferred_frees[n + k]
        <4>1. processed_step_seq + 1 \in Nat /\ TypeOK
          BY DEF IInv, TypeOK
        <4> QED BY <3>1, <4>1, DrainedBlocks
      <3> QED BY <3>2 DEF Parked
    <2>2. CASE ~(defer_block_free /\ step[completed + 1].reqs # {})
      BY <2>2 DEF BeginUpdate, Parked
    <2> QED BY <2>1, <2>2
  <1>5. Held' \subseteq Held
    BY <1>2, <1>4 DEF Held
  <1>6. Pipeline # <<>> /\ Pipeline' = Tail(Pipeline)
    <2>1. Pipeline # <<>>
      BY <1>1, <1>2 DEF PipelineIsASequence
    <2>2. /\ Tail(Pipeline) \in Seq(SUBSET Block) /\ Len(Tail(Pipeline)) = issued - completed - 1
          /\ \A i \in 1 .. Len(Tail(Pipeline)) : Tail(Pipeline)[i] = Pipeline[i + 1]
      BY <1>1, <2>1, HeadTailProperties DEF PipelineIsASequence
    <2>3. /\ Pipeline' \in Seq(SUBSET Block) /\ Len(Pipeline') = issued - completed - 1
          /\ \A i \in 1 .. issued - completed - 1 : Pipeline'[i] = step[completed + 1 + i].touched
      BY <1>1, <1>2 DEF PipelineIsASequence
    <2>4. \A i \in 1 .. issued - completed - 1 : Pipeline[i + 1] = step[completed + 1 + i].touched
      <3>1. \A i \in 1 .. issued - completed - 1 :
              i + 1 \in 1 .. issued - completed /\ completed + (i + 1) = completed + 1 + i
        BY <1>2
      <3> QED BY <1>1, <3>1 DEF PipelineIsASequence
    <2>5. \A i \in 1 .. issued - completed - 1 : Pipeline'[i] = Tail(Pipeline)[i]
      BY <2>2, <2>3, <2>4
    <2> QED BY <2>1, <2>2, <2>3, <2>5, SeqEqual
  <1> QED BY <1>1, <1>3, <1>5, <1>6 DEF Reuse!Complete, OwnersHoldBlocks, Pipeline

(* A load starts on blocks of the pool. *)
LEMMA StartFillStep ==
  ASSUME IInv, IInv', NEW r \in Req, NEW hits \in SUBSET Block, NEW fresh \in SUBSET Block,
         StartLoad(r, hits, fresh)
  PROVE  Reuse!StartFill(fresh)
  <1>1. PipelineIsASequence /\ PipelineIsASequence' /\ OwnersHoldBlocks'
    BY PipelineSequence, PipelineSequenceNext, OwnershipNext DEF IInv
  <1>2. /\ issued' = issued /\ completed' = completed /\ step' = step /\ cow' = cow
        /\ deferred_frees' = deferred_frees
        /\ status[r] = "waiting" /\ blocks[r] = {} /\ fresh \subseteq Free
        /\ blocks' = [blocks EXCEPT ![r] = hits \cup fresh]
        /\ landing' = [landing EXCEPT ![r] = fresh]
    BY DEF StartLoad, engineVars, handlerVars
  <1>3. landing[r] = {}
    BY <1>2 DEF IInv, LandingExclusive
  <1>4. Landing' = Landing \cup fresh
    BY <1>2, <1>3 DEF Landing, IInv, TypeOK
  <1>5. fresh \cap Held = {}
    BY <1>2 DEF Free
  <1>6. Held \cup fresh \subseteq Held'
    <2>1. Parked' = Parked
      BY <1>2 DEF Parked
    <2>2. \A q \in Req : blocks[q] \subseteq blocks'[q]
      BY <1>2 DEF IInv, TypeOK
    <2>3. fresh \subseteq blocks'[r]
      BY <1>2 DEF IInv, TypeOK
    <2> QED BY <1>2, <2>1, <2>2, <2>3 DEF Held
  <1>7. Pipeline' = Pipeline
    BY <1>2 DEF Pipeline
  <1>8. \A i \in 1 .. issued - completed : Pipeline[i] \cap fresh = {}
    <2>1. \A i \in 1 .. issued - completed : step'[completed + i].touched \cap Landing' = {}
      BY <1>1, <1>2 DEF PipelineIsASequence, IInv, NoOverwrite, InFlight
    <2> QED BY <1>1, <1>2, <1>4, <2>1 DEF PipelineIsASequence
  <1>9. fresh \cap UNION {Pipeline[i] : i \in DOMAIN Pipeline} = {}
    BY <1>1, <1>8 DEF PipelineIsASequence
  <1> QED BY <1>1, <1>4, <1>5, <1>6, <1>7, <1>9
          DEF Reuse!StartFill, Reuse!Touched, OwnersHoldBlocks, Pipeline

(* A load ends, and an aborted request lets its blocks go. *)
LEMMA EndFillStep ==
  ASSUME IInv, IInv', NEW r \in Req, FinishedRecving(r)
  PROVE  Reuse!EndFill(landing[r])
  <1>1. OwnersHoldBlocks'
    BY OwnershipNext DEF IInv
  <1>2. /\ issued' = issued /\ completed' = completed /\ step' = step /\ cow' = cow
        /\ landing' = [landing EXCEPT ![r] = {}]
    BY DEF FinishedRecving, engineVars, handlerVars
  <1>3. \A q \in Req \ {r} : landing[q] \cap landing[r] = {}
    BY DEF IInv, LandingExclusive
  <1>4. Landing' = Landing \ landing[r] /\ landing[r] \subseteq Landing
    BY <1>2, <1>3 DEF Landing, IInv, TypeOK
  <1>5. Held' \subseteq Held
    <2>1. CASE blocks' = blocks /\ deferred_frees' = deferred_frees
      BY <1>2, <2>1 DEF Held, Parked
    <2>2. CASE _free_blocks(r)
      <3>1. Parked' \subseteq Parked \cup blocks[r]
        BY <2>2, FreedBlocks DEF IInv, _free_blocks, Parked
      <3>2. \A q \in Req : blocks'[q] \subseteq blocks[q]
        BY <2>2 DEF IInv, TypeOK, _free_blocks
      <3> QED BY <1>2, <3>1, <3>2 DEF Held
    <2> QED BY <2>1, <2>2 DEF FinishedRecving
  <1>6. Pipeline' = Pipeline
    BY <1>2 DEF Pipeline
  <1> QED BY <1>1, <1>4, <1>5, <1>6 DEF Reuse!EndFill, OwnersHoldBlocks, Pipeline

(* Each action of the scheduler is a step of BlockReuse, or none. *)
LEMMA RefinementStep == IInv /\ IInv' /\ [Next]_vars => [Reuse!Next]_(Reuse!vars)
  <1> SUFFICES ASSUME IInv, IInv', [Next]_vars PROVE [Reuse!Next]_(Reuse!vars)
    OBVIOUS
  <1>1. OwnersHoldBlocks'
    BY OwnershipNext DEF IInv
  <1>2. ASSUME landing' = landing, UNCHANGED engineVars PROVE Reuse!Next
    <2>1. Landing' = Landing
      BY <1>2 DEF Landing
    <2>2. Pipeline' = Pipeline
      BY <1>2 DEF engineVars, Pipeline
    <2> QED BY <1>1, <2>1, <2>2, OwnStep DEF Reuse!Next
  <1>3. CASE EndSchedule
    BY <1>3, SubmitStep DEF Reuse!Next
  <1>4. CASE BeginUpdate
    BY <1>4, CompleteStep DEF Reuse!Next
  <1>5. ASSUME NEW r \in Req, NEW hits \in SUBSET Block, NEW fresh \in SUBSET Block,
               StartLoad(r, hits, fresh)
        PROVE  Reuse!Next
    BY <1>5, StartFillStep DEF Reuse!Next
  <1>6. ASSUME NEW r \in Req, FinishedRecving(r) PROVE Reuse!Next
    <2>1. landing[r] \in SUBSET Block
      BY DEF IInv, TypeOK
    <2>2. PICK B \in SUBSET Block : B = landing[r]
      BY <2>1
    <2>3. Reuse!EndFill(landing[r])
      BY <1>6, EndFillStep
    <2> QED BY <2>2, <2>3 DEF Reuse!Next, Reuse!EndFill
  <1>7. CASE EndUpdate
    <2>1. /\ step' = [step EXCEPT ![completed].reqs = {}, ![completed].touched = {}]
          /\ UNCHANGED <<issued, completed, ownerVars>>
      BY <1>7 DEF EndUpdate
    <2>2. \A i \in 1 .. issued - completed : completed + i \in 0 .. MaxStep /\ completed + i # completed
      BY ConfigAssumption DEF IInv, TypeOK, HandlerInv
    <2>3. \A i \in 1 .. issued - completed : step'[completed + i] = step[completed + i]
      BY <2>1, <2>2 DEF IInv, TypeOK
    <2>4. Pipeline' = Pipeline
      <3>1. \A i \in 1 .. issued - completed :
              step'[completed + i].touched = step[completed + i].touched
        BY <2>3
      <3>2. issued' = issued /\ completed' = completed
        BY <2>1
      <3> QED BY <3>1, <3>2 DEF Pipeline
    <2>5. Landing' = Landing
      BY <2>1 DEF ownerVars, Landing
    <2> QED BY <1>1, <2>4, <2>5, OwnStep DEF Reuse!Next
  <1>8. CASE UNCHANGED vars
    <2>1. /\ blocks' = blocks /\ deferred_frees' = deferred_frees /\ cow' = cow
          /\ landing' = landing /\ UNCHANGED engineVars
      BY <1>8 DEF vars, ownerVars, handlerVars
    <2>2. Held' = Held
      BY <2>1 DEF Held, Parked
    <2>3. Landing' = Landing /\ Pipeline' = Pipeline
      BY <2>1 DEF Landing, engineVars, Pipeline
    <2> QED BY <2>2, <2>3 DEF Reuse!vars, Pipeline
  <1> QED
    BY <1>2, <1>3, <1>4, <1>5, <1>6, <1>7, <1>8
    DEF Next, add_request, BeginSchedule, ScheduleRunning, PreemptVictim,
        BeginWaiting, BeginAgain, PromoteLoaded, AdmitWaiting, StopRequest, BeginXfer,
        FinishedSending, finish_requests, BeginReset, ResetPreempt, ResetDone, ownerVars

LEMMA RefinementInit == Init => Reuse!Init
  <1> SUFFICES ASSUME Init PROVE Reuse!Init
    OBVIOUS
  <1>1. Held = {}
    <2>1. Parked = {}
      BY DEF Init, Parked
    <2> QED BY <2>1 DEF Init, Held
  <1>2. Landing = {}
    BY DEF Init, Landing
  <1>3. Pipeline = <<>>
    <2>1. issued - completed = 0
      BY DEF Init
    <2>2. Pipeline = [i \in 1 .. 0 |-> step[completed + i].touched]
      BY <2>1 DEF Pipeline
    <2> QED BY <2>2
  <1> QED BY <1>1, <1>2, <1>3 DEF Reuse!Init, Pipeline

(* Whatever is preempted, aborted, shared, copied or reset, a connector    *)
(* starts to fill only blocks that nobody holds and no step in flight      *)
(* touches, what it fills stays held until it is done, and no step that    *)
(* touches it is issued: the scheduler implements BlockReuse.              *)
THEOREM Implementation == Spec => ImplementsBlockReuse
  <1>1. Init => Reuse!Init
    BY RefinementInit
  <1>2. IInv /\ IInv' /\ [Next]_vars => [Reuse!Next]_(Reuse!vars)
    BY RefinementStep
  <1> QED BY <1>1, <1>2, Invariance, PTL DEF Spec, Reuse!Spec, ImplementsBlockReuse

-----------------------------------------------------------------------------
(* What is parked next waits behind a step that is not processed and, at   *)
(* the latest, the next one that is not empty.                             *)
LEMMA AppendKeepsOrder ==
  ASSUME TypeOK, DrainedUpToFence,
         NEW fence \in Nat, fence > processed_step_seq, fence <= sched_step_seq + 1,
         NEW B, deferred_frees' = Append(deferred_frees, [fence |-> fence, blocks |-> B]),
         processed_step_seq' = processed_step_seq,
         sched_step_seq' \in Nat, sched_step_seq' >= sched_step_seq
  PROVE  DrainedUpToFence'
  <1> DEFINE e == [fence |-> fence, blocks |-> B]
             D == deferred_frees'
  <1>1. deferred_frees \in Seq(Entry) /\ Len(deferred_frees) \in Nat
    BY DEF TypeOK
  <1>2. /\ Len(D) = Len(deferred_frees) + 1
        /\ DOMAIN D = 1 .. Len(deferred_frees) + 1
        /\ \A k \in 1 .. Len(deferred_frees) : D[k] = deferred_frees[k]
        /\ D[Len(deferred_frees) + 1] = e
    BY <1>1
  <1>3. \A k \in 1 .. Len(deferred_frees) :
          deferred_frees[k].fence \in Nat /\ deferred_frees[k].fence <= sched_step_seq + 1
    <2>1. \A k \in 1 .. Len(deferred_frees) : deferred_frees[k] \in Entry
      BY <1>1
    <2>2. \A k \in 1 .. Len(deferred_frees) : deferred_frees # <<>> /\ k \in DOMAIN deferred_frees
      BY <1>1
    <2> QED BY <2>1, <2>2 DEF Entry, DrainedUpToFence
  <1>4. D[1].fence > processed_step_seq
    <2>1. CASE deferred_frees = <<>>
      BY <1>2, <2>1
    <2>2. CASE deferred_frees # <<>>
      <3>1. 1 \in 1 .. Len(deferred_frees) /\ Head(deferred_frees) = deferred_frees[1]
        BY <1>1, <2>2
      <3> QED BY <1>2, <2>2, <3>1 DEF DrainedUpToFence
    <2> QED BY <2>1, <2>2
  <1>5. \A k \in DOMAIN D : D[k].fence <= sched_step_seq' + 1
    <2>1. \A k \in DOMAIN D : k \in 1 .. Len(deferred_frees) \/ k = Len(deferred_frees) + 1
      BY <1>1, <1>2
    <2>2. sched_step_seq \in Nat
      BY DEF TypeOK
    <2> QED BY <1>2, <1>3, <2>1, <2>2
  <1>6. Head(D) = D[1]
    BY <1>1, <1>2
  <1> QED BY <1>4, <1>5, <1>6 DEF DrainedUpToFence

(* Releasing a request parks nothing, or parks it behind the last step.    *)
LEMMA ReleaseKeepsOrder ==
  ASSUME IInv, DrainedUpToFence, NEW r \in Req,
         deferred_frees' = _free_request_blocks(r), UNCHANGED fenceVars
  PROVE  DrainedUpToFence'
  <1>1. TypeOK /\ SeqInv
    BY DEF IInv
  <1>2. CASE _request_blocks_can_be_freed(r) \/ blocks[r] = {}
    BY <1>2 DEF _free_request_blocks, DrainedUpToFence, fenceVars
  <1>3. CASE ~(_request_blocks_can_be_freed(r) \/ blocks[r] = {})
    <2>1. deferred_frees' = Append(deferred_frees, [fence |-> sched_step_seq, blocks |-> blocks[r]])
      BY <1>3 DEF _free_request_blocks
    <2>2. /\ sched_step_seq \in Nat /\ processed_step_seq \in Nat /\ last_sched_seq[r] \in Nat
          /\ last_sched_seq[r] > processed_step_seq /\ last_sched_seq[r] <= sched_step_seq
      BY <1>1, <1>3 DEF _request_blocks_can_be_freed, TypeOK, SeqInv
    <2> QED BY <1>1, <2>1, <2>2, AppendKeepsOrder DEF fenceVars
  <1> QED BY <1>2, <1>3

LEMMA DrainedStep == IInv /\ DrainedUpToFence /\ [Next]_vars => DrainedUpToFence'
  <1> SUFFICES ASSUME IInv, DrainedUpToFence, [Next]_vars PROVE DrainedUpToFence'
    OBVIOUS
  <1>0. /\ TypeOK /\ SeqInv
        /\ sched_step_seq \in Nat /\ processed_step_seq \in Nat
    BY DEF IInv, TypeOK
  <1>1. ASSUME UNCHANGED <<deferred_frees, sched_step_seq, processed_step_seq>>
        PROVE  DrainedUpToFence'
    BY <1>1 DEF DrainedUpToFence
  <1>2. ASSUME NEW r \in Req, NEW delay \in BOOLEAN, _free_request(r, delay), UNCHANGED fenceVars
        PROVE  DrainedUpToFence'
    BY <1>1, <1>2, ReleaseKeepsOrder DEF _free_request, fenceVars
  <1>3. CASE EndSchedule
    <2>1. /\ deferred_frees' = _free_cow_retained_blocks(cow, sched_step_seq + 1)
          /\ sched_step_seq' = advanced_step_seq(batch) /\ processed_step_seq' = processed_step_seq
      BY <1>3 DEF EndSchedule
    <2>2. sched_step_seq' \in Nat /\ sched_step_seq' >= sched_step_seq
      BY <1>0, <2>1 DEF advanced_step_seq
    <2>3. CASE deferred_frees' = deferred_frees
      <3>1. \A i \in DOMAIN deferred_frees : deferred_frees[i].fence \in Nat
        <4>1. \A i \in DOMAIN deferred_frees : deferred_frees[i] \in Entry
          BY <1>0 DEF TypeOK
        <4> QED BY <4>1 DEF Entry
      <3> QED BY <1>0, <2>1, <2>2, <2>3, <3>1 DEF DrainedUpToFence
    <2>4. CASE deferred_frees' # deferred_frees
      <3>1. /\ deferred_frees' = Append(deferred_frees, [fence |-> sched_step_seq + 1, blocks |-> cow])
            /\ ~(sched_step_seq + 1 <= processed_step_seq)
        BY <2>1, <2>4 DEF _free_cow_retained_blocks
      <3>2. sched_step_seq + 1 \in Nat /\ sched_step_seq + 1 > processed_step_seq
            /\ sched_step_seq + 1 <= sched_step_seq + 1
        BY <1>0, <3>1
      <3> QED BY <1>0, <2>1, <2>2, <3>1, <3>2, AppendKeepsOrder
    <2> QED BY <2>3, <2>4
  <1>4. CASE BeginUpdate
    <2>1. CASE defer_block_free /\ step[completed + 1].reqs # {}
      <3>1. processed_step_seq' = processed_step_seq + 1 /\ sched_step_seq' = sched_step_seq
        BY <1>4, <2>1 DEF BeginUpdate
      <3>2. PICK n \in 0 .. Len(deferred_frees) : _drain_deferred_frees(n, processed_step_seq + 1)
        BY <1>4, <2>1 DEF BeginUpdate
      <3>3. /\ deferred_frees' \in Seq(Entry)
            /\ Len(deferred_frees') = Len(deferred_frees) - n
            /\ \A k \in DOMAIN deferred_frees' :
                 n + k \in DOMAIN deferred_frees /\ deferred_frees'[k] = deferred_frees[n + k]
        <4>1. processed_step_seq + 1 \in Nat
          BY <1>0
        <4> QED BY <1>0, <3>2, <4>1, DrainedBlocks
      <3>4. ASSUME deferred_frees' # <<>> PROVE Head(deferred_frees').fence > processed_step_seq'
        <4>1. /\ 1 \in DOMAIN deferred_frees' /\ Head(deferred_frees') = deferred_frees'[1]
              /\ Len(deferred_frees') > 0
          BY <3>3, <3>4
        <4>2. Head(deferred_frees') = deferred_frees[n + 1]
          BY <3>3, <4>1
        <4>3. n < Len(deferred_frees)
          BY <1>0, <3>3, <4>1 DEF TypeOK
        <4> QED BY <3>1, <3>2, <4>2, <4>3 DEF _drain_deferred_frees
      <3>5. \A k \in DOMAIN deferred_frees' : deferred_frees'[k].fence <= sched_step_seq' + 1
        <4>1. \A j \in DOMAIN deferred_frees : deferred_frees # <<>>
          OBVIOUS
        <4> QED BY <3>1, <3>3, <4>1 DEF DrainedUpToFence
      <3> QED BY <3>4, <3>5 DEF DrainedUpToFence
    <2>2. CASE ~(defer_block_free /\ step[completed + 1].reqs # {})
      BY <1>1, <1>4, <2>2 DEF BeginUpdate
    <2> QED BY <2>1, <2>2
  <1>5. ASSUME NEW r \in Req, PreemptVictim(r) \/ ResetPreempt(r) PROVE DrainedUpToFence'
    BY <1>5, ReleaseKeepsOrder DEF PreemptVictim, ResetPreempt, _preempt_request
  <1>6. ASSUME NEW r \in Req, NEW delay \in BOOLEAN,
               StopRequest(r, delay) \/ finish_requests(r, delay)
        PROVE  DrainedUpToFence'
    BY <1>1, <1>2, <1>6 DEF StopRequest, finish_requests, fenceVars
  <1>7. ASSUME NEW r \in Req, FinishedRecving(r) \/ FinishedSending(r) PROVE DrainedUpToFence'
    BY <1>1, <1>7, ReleaseKeepsOrder DEF FinishedRecving, FinishedSending, _free_blocks, fenceVars
  <1> QED
    BY <1>1, <1>3, <1>4, <1>5, <1>6, <1>7
    DEF Next, vars, add_request, BeginSchedule, ScheduleRunning, BeginWaiting, BeginAgain,
        PromoteLoaded, AdmitWaiting, StartLoad, BeginXfer, EndUpdate, BeginReset,
        ResetDone, fenceVars

(* At every moment the head of the FIFO waits for a step that has not been *)
(* processed, and nothing in it waits for more than the next step that     *)
(* schedules a token: no block is stranded behind a fence already passed.  *)
THEOREM DrainedToFence == Spec => []DrainedUpToFence
  <1>1. Init => DrainedUpToFence
    BY DEF Init, DrainedUpToFence
  <1>2. IInv /\ DrainedUpToFence /\ [Next]_vars => DrainedUpToFence'
    BY DrainedStep
  <1> QED BY <1>1, <1>2, Invariance, PTL DEF Spec
=============================================================================
