------------------------- MODULE RequestQueuesProofs -------------------------
(* Proofs about RequestQueues, for every set of requests and sessions, with *)
(* or without a connector, grammars, the interleave controller and          *)
(* preemption.                                                              *)
EXTENDS RequestQueues, InductionProofs

(* Functions of requests; what is in a session's queue. *)
QueueTypes ==
  /\ DOMAIN status = Req
  /\ streaming_queue \in [Req -> Seq({"chunk", "end"})]

(* Whoever waits for a load has it under way or reported complete. *)
LoadsTracked == \A r \in Req : status[r] = "remote" => r \in recving \cup finished_recving

QueuesInv == QueueTypes /\ LoadsTracked /\ FinishedIsReleased /\ NoUpdateForgotten

LEMMA QueuesInit == Init => QueuesInv
  <1> SUFFICES ASSUME Init PROVE QueuesInv
    OBVIOUS
  <1>1. status = [r \in Req |-> "absent"] /\ streaming_queue = [r \in Req |-> <<>>]
    BY DEF Init
  <1>2. QueueTypes
    BY <1>1 DEF QueueTypes
  <1> QED BY <1>1, <1>2 DEF QueuesInv, LoadsTracked, FinishedIsReleased, NoUpdateForgotten

(* What does not touch a status leaves the invariant alone if no transfer  *)
(* is taken for complete or dropped, and no session is given an update.    *)
LEMMA QueuesUnchanged ==
  ASSUME QueuesInv, UNCHANGED <<status, streaming_queue, recving, sending>>,
         finished_recving \subseteq finished_recving'
  PROVE  QueuesInv'
  BY DEF QueuesInv, QueueTypes, LoadsTracked, FinishedIsReleased, NoUpdateForgotten

(* A request the waiting pass considers leaves finished_recving and, if it *)
(* waited for the load, the state of waiting with it.                      *)
LEMMA QueuesConsidered ==
  ASSUME QueuesInv, NEW r \in Req, Consider(r),
         NEW s, s = promoted(r) \/ s = "running",
         status' = [status EXCEPT ![r] = s],
         UNCHANGED <<streaming_queue, recving, sending>>
  PROVE  QueuesInv'
  <1>1. s # "remote"
    BY DEF promoted, _is_blocked_waiting_status
  <1>2. s = "finished" => status[r] = "finished"
    BY DEF promoted, _is_blocked_waiting_status
  <1>3. s # "streaming"
    BY DEF promoted, _is_blocked_waiting_status
  <1> QED BY <1>1, <1>2, <1>3 DEF Consider, QueuesInv, QueueTypes, LoadsTracked, FinishedIsReleased, NoUpdateForgotten

(* finish_requests keeps a request only for a load under way, or for a send. *)
LEMMA QueuesFinish ==
  ASSUME QueuesInv, NEW R, NEW sends, finish_requests(R, sends), streaming_queue' = streaming_queue
  PROVE  QueuesInv'
  <1> DEFINE S == {r \in R : Live(r)}
  <1>1. /\ sends \subseteq S /\ recving' = recving /\ sending' = sending \cup sends
        /\ finished_recving' = finished_recving \ {r \in S : status[r] = "remote"}
        /\ status' = [r \in Req |-> IF r \notin S THEN status[r]
                                    ELSE IF delay_free_blocks(r, sends) THEN "finished" ELSE "gone"]
    BY DEF finish_requests, discarded
  <1>2. \A r \in Req : IF r \in S THEN status'[r] \in {"finished", "gone"} ELSE status'[r] = status[r]
    BY <1>1
  <1>3. ASSUME NEW r \in Req, status'[r] = "finished" PROVE r \in recving' \cup sending'
    <2>1. CASE r \notin S
      BY <1>1, <1>2, <1>3, <2>1 DEF QueuesInv, FinishedIsReleased
    <2>2. CASE r \in S
      <3>1. delay_free_blocks(r, sends)
        BY <1>1, <1>3, <2>2
      <3> QED BY <1>1, <3>1 DEF delay_free_blocks, QueuesInv, LoadsTracked
    <2> QED BY <2>1, <2>2
  <1>4. LoadsTracked'
    BY <1>1, <1>2 DEF QueuesInv, LoadsTracked
  <1>5. NoUpdateForgotten'
    BY <1>2 DEF QueuesInv, NoUpdateForgotten
  <1>6. QueueTypes'
    BY <1>1 DEF QueuesInv, QueueTypes
  <1> QED BY <1>3, <1>4, <1>5, <1>6 DEF QueuesInv, FinishedIsReleased

(* A new request or an update of a session. *)
LEMMA QueuesAdded ==
  ASSUME QueuesInv, NEW r \in Req, NewRequest(r) \/ UpdateSession(r)
  PROVE  QueuesInv'
  <1>1. CASE NewRequest(r)
    <2>1. /\ \/ status' = [status EXCEPT ![r] = "grammar"]
             \/ status' = [status EXCEPT ![r] = "waiting"]
          /\ UNCHANGED <<streaming_queue, recving, sending, finished_recving>>
      BY <1>1 DEF NewRequest, sessionVars, xferVars
    <2> QED BY <2>1 DEF QueuesInv, QueueTypes, LoadsTracked, FinishedIsReleased, NoUpdateForgotten
  <1>2. CASE UpdateSession(r)
    <2>1. PICK update \in {"chunk", "end"} :
            IF status[r] # "streaming"
            THEN /\ streaming_queue' = [streaming_queue EXCEPT ![r] = Append(@, update)]
                 /\ UNCHANGED <<status, sending>>
            ELSE /\ UNCHANGED streaming_queue
                 /\ \/ status' = [status EXCEPT ![r] = "waiting"] /\ UNCHANGED sending
                    \/ \E delay \in {FALSE, Connector} :
                         /\ status' = [status EXCEPT ![r] = IF delay THEN "finished" ELSE "gone"]
                         /\ sending' = IF delay THEN sending \cup {r} ELSE sending
      BY <1>2 DEF UpdateSession
    <2>2. UNCHANGED <<recving, finished_recving>>
      BY <1>2 DEF UpdateSession
    <2>3. CASE status[r] # "streaming"
      <3>1. streaming_queue' = [streaming_queue EXCEPT ![r] = Append(@, update)] /\ UNCHANGED <<status, sending>>
        BY <2>1, <2>3
      <3>2. Append(streaming_queue[r], update) \in Seq({"chunk", "end"})
        BY DEF QueuesInv, QueueTypes
      <3> QED BY <2>2, <2>3, <3>1, <3>2 DEF QueuesInv, QueueTypes, LoadsTracked, FinishedIsReleased, NoUpdateForgotten
    <2>4. CASE status[r] = "streaming"
      BY <2>1, <2>2, <2>4 DEF QueuesInv, QueueTypes, LoadsTracked, FinishedIsReleased, NoUpdateForgotten
    <2> QED BY <2>3, <2>4
  <1> QED BY <1>1, <1>2

(* A stopped session waits only when it has nothing left to begin. *)
LEMMA QueuesStopped ==
  ASSUME QueuesInv, NEW r \in Req, _handle_stopped_request(r), UNCHANGED <<recving, finished_recving>>
  PROVE  QueuesInv'
  <1>1. streaming_queue[r] \in Seq({"chunk", "end"})
    BY DEF QueuesInv, QueueTypes
  <1>2. CASE ContinueSession(r)
    <2>1. CASE streaming_queue[r] # <<>>
      <3>1. /\ status' = [status EXCEPT ![r] = "waiting"] /\ sending' = sending
            /\ streaming_queue' = [streaming_queue EXCEPT ![r] = Tail(@)]
        BY <1>2, <2>1 DEF ContinueSession
      <3>2. Tail(streaming_queue[r]) \in Seq({"chunk", "end"})
        BY <1>1, <2>1
      <3> QED BY <3>1, <3>2 DEF QueuesInv, QueueTypes, LoadsTracked, FinishedIsReleased, NoUpdateForgotten
    <2>2. CASE streaming_queue[r] = <<>>
      <3>1. status' = [status EXCEPT ![r] = "streaming"] /\ UNCHANGED <<sending, streaming_queue>>
        BY <1>2, <2>2 DEF ContinueSession
      <3> QED BY <2>2, <3>1 DEF QueuesInv, QueueTypes, LoadsTracked, FinishedIsReleased, NoUpdateForgotten
    <2> QED BY <2>1, <2>2
  <1>3. CASE FinishStopped(r)
    <2>1. PICK delay \in {FALSE, Connector} :
            /\ status' = [status EXCEPT ![r] = IF delay THEN "finished" ELSE "gone"]
            /\ sending' = IF delay THEN sending \cup {r} ELSE sending
      BY <1>3 DEF FinishStopped
    <2>2. streaming_queue' = [streaming_queue EXCEPT ![r] = IF @ = <<>> THEN @ ELSE Tail(@)]
      BY <1>3 DEF FinishStopped
    <2>3. (IF streaming_queue[r] = <<>> THEN streaming_queue[r] ELSE Tail(streaming_queue[r]))
            \in Seq({"chunk", "end"})
      BY <1>1
    <2> QED BY <2>1, <2>2, <2>3 DEF QueuesInv, QueueTypes, LoadsTracked, FinishedIsReleased, NoUpdateForgotten
  <1> QED BY <1>2, <1>3 DEF _handle_stopped_request

LEMMA QueuesStep == QueuesInv /\ [Next]_vars => QueuesInv'
  <1> SUFFICES ASSUME QueuesInv, [Next]_vars PROVE QueuesInv'
    OBVIOUS
  <1> USE DEF sessionVars, xferVars
  <1>1. CASE BeginSchedule \/ BeginWaiting \/ EndSchedule \/ RemoveStopped
    BY <1>1, QueuesUnchanged DEF BeginSchedule, BeginWaiting, EndSchedule, RemoveStopped
  <1>2. CASE EndWaiting
    BY <1>2, QueuesUnchanged DEF EndWaiting, EndPass
  <1>3. CASE FinishErrors
    <2>1. PICK sends : finish_requests(grammar_errors, sends)
      BY <1>3 DEF FinishErrors
    <2> QED BY <1>3, <2>1, QueuesFinish DEF FinishErrors
  <1>4. ASSUME NEW R, NEW drops, _preempt_request(R, drops) PROVE QueuesInv'
    <2>1. /\ status' = [r \in Req |-> IF r \in R THEN "preempted" ELSE status[r]]
          /\ UNCHANGED <<streaming_queue, recving, sending, finished_recving>>
      BY <1>4 DEF _preempt_request
    <2> QED BY <2>1 DEF QueuesInv, QueueTypes, LoadsTracked, FinishedIsReleased, NoUpdateForgotten
  <1>5. CASE PreemptVictim \/ reset_prefix_cache
    BY <1>4, <1>5 DEF PreemptVictim, reset_prefix_cache
  <1>6. ASSUME NEW r \in Req, add_request(r) PROVE QueuesInv'
    BY <1>6, QueuesAdded DEF add_request
  <1>7. ASSUME NEW r \in Req, Abort(r) PROVE QueuesInv'
    <2>1. PICK sends : finish_requests({r}, sends)
      BY <1>7 DEF Abort
    <2> QED BY <1>7, <2>1, QueuesFinish DEF Abort
  <1>8. ASSUME NEW r \in Req, SkipBlocked(r) PROVE QueuesInv'
    BY <1>8, QueuesUnchanged DEF SkipBlocked
  <1>9. ASSUME NEW r \in Req, SkipReady(r) \/ SkipEncoderPending(r) PROVE QueuesInv'
    BY <1>9, QueuesConsidered DEF SkipReady, SkipEncoderPending
  <1>10. ASSUME NEW r \in Req, StartLoad(r) PROVE QueuesInv'
    <2>1. /\ status' = [status EXCEPT ![r] = "remote"] /\ recving' = recving \cup {r}
          /\ finished_recving' = finished_recving \ {r}
          /\ UNCHANGED <<streaming_queue, sending>>
      BY <1>10 DEF StartLoad, Consider
    <2> QED BY <2>1 DEF QueuesInv, QueueTypes, LoadsTracked, FinishedIsReleased, NoUpdateForgotten
  <1>11. ASSUME NEW r \in Req, BreakAt(r) PROVE QueuesInv'
    BY <1>11, QueuesConsidered DEF BreakAt, EndPass
  <1>12. ASSUME NEW r \in Req, NEW result, CompileGrammar(r, result) PROVE QueuesInv'
    BY <1>12, QueuesUnchanged DEF CompileGrammar
  <1>13. ASSUME NEW r \in Req, NEW work, ScheduleRunning(r, work) PROVE QueuesInv'
    BY <1>13, QueuesUnchanged DEF ScheduleRunning
  <1>14. ASSUME NEW r \in Req, NEW work, Admit(r, work) PROVE QueuesInv'
    BY <1>14, QueuesConsidered DEF Admit
  <1>15. ASSUME NEW r \in Req, NEW stop \in BOOLEAN, TakeOutput(r, stop) PROVE QueuesInv'
    <2>1. CASE stop
      BY <1>15, <2>1, QueuesStopped DEF TakeOutput
    <2>2. CASE ~stop
      BY <1>15, <2>2, QueuesUnchanged DEF TakeOutput
    <2> QED BY <2>1, <2>2
  <1>16. ASSUME NEW failed, NEW keep, BeginUpdate(failed, keep) PROVE QueuesInv'
    BY <1>16, QueuesUnchanged DEF BeginUpdate
  <1>17. ASSUME NEW received, NEW done, _update_from_kv_xfer_finished(received, done)
         PROVE  QueuesInv'
    <2>1. /\ recving' = recving \ received /\ sending' = sending \ done
          /\ finished_recving' = finished_recving \cup {r \in received : status[r] = "remote"}
          /\ status' = [r \in Req |-> IF status[r] = "finished" /\ r \in received \cup done
                                      THEN "gone" ELSE status[r]]
          /\ streaming_queue' = streaming_queue
      BY <1>17 DEF _update_from_kv_xfer_finished
    <2> QED BY <2>1 DEF QueuesInv, QueueTypes, LoadsTracked, FinishedIsReleased, NoUpdateForgotten
  <1>18. CASE UNCHANGED vars
    BY <1>18, QueuesUnchanged DEF vars
  <1> QED BY <1>1, <1>2, <1>3, <1>5, <1>6, <1>7, <1>8, <1>9, <1>10, <1>11, <1>12, <1>13,
             <1>14, <1>15, <1>16, <1>17, <1>18 DEF Next

LEMMA QueuesInvariance == Spec => []QueuesInv
  <1>1. Init => QueuesInv
    BY QueuesInit
  <1>2. QueuesInv /\ [Next]_vars => QueuesInv'
    BY QueuesStep
  <1> QED BY <1>1, <1>2, PTL DEF Spec

(* A request that has finished but is kept in self.requests always has a   *)
(* transfer under way that will release it: no order of aborts, stops,     *)
(* failed loads and completions leaks its blocks (_free_request,           *)
(* _update_from_kv_xfer_finished).                                         *)
THEOREM FinishedAlwaysReleased == Spec => []FinishedIsReleased
  <1>1. QueuesInv => FinishedIsReleased
    BY DEF QueuesInv
  <1> QED BY <1>1, QueuesInvariance, PTL

(* A session never waits for its client while an update is queued for it   *)
(* ("assert not request.streaming_queue").                                 *)
THEOREM UpdatesNeverForgotten == Spec => []NoUpdateForgotten
  <1>1. QueuesInv => NoUpdateForgotten
    BY DEF QueuesInv
  <1> QED BY <1>1, QueuesInvariance, PTL

-----------------------------------------------------------------------------
(***************************************************************************)
(* Every request is where its status says, in one queue and once; the      *)
(* counters count what they stand for; the slots suffice.  For every set   *)
(* of requests and sessions, any bounds, any number of steps in flight,    *)
(* under the hypotheses of Configured.                                     *)
(*                                                                         *)
(* The invariant Placed has five parts.  Typed is the type of the state    *)
(* and what each phase leaves behind.  Listed says which queue lists whom, *)
(* the queue of the skipped and the stopped requests of the handler under  *)
(* way included.  SharesInv ties the shares of a request in the steps in   *)
(* flight to its status: without it a stopped request could be waiting for *)
(* a load or in two queues.  Counted and Awaited concern slots and loads.  *)
(***************************************************************************)

(* Queues as sequences: what the operations on them list. *)

(* u lists what is kept of the beginnings of q, up to the first n requests. *)
Keeps(u, q, R, n) ==
  /\ u \in [0 .. n -> Seq(Req)]
  /\ u[0] = <<>>
  /\ \A i \in 1 .. n :
       u[i] = IF q[i] \in R THEN u[i - 1] ELSE Append(u[i - 1], q[i])

LEMMA KeepsExist ==
  ASSUME NEW q \in Seq(Req), NEW R
  PROVE  \E u : Keeps(u, q, R, Len(q))
<1>. DEFINE T == {n \in Nat : n <= Len(q) => \E u : Keeps(u, q, R, n)}
<1>1. 0 \in T
  <2>. DEFINE z == [i \in 0 .. 0 |-> <<>>]
  <2>1. z \in [0 .. 0 -> Seq(Req)] /\ z[0] = <<>>
    OBVIOUS
  <2>2. 1 .. 0 = {}
    OBVIOUS
  <2>3. Keeps(z, q, R, 0)
    <3>. HIDE DEF z
    <3>1. QED
      BY <2>1, <2>2 DEF Keeps
  <2>4. QED
    BY <2>3
<1>2. ASSUME NEW n \in Nat, n \in T PROVE n + 1 \in T
  <2>1. SUFFICES ASSUME n + 1 <= Len(q) PROVE \E u : Keeps(u, q, R, n + 1)
    OBVIOUS
  <2>2. PICK u : Keeps(u, q, R, n)
    BY <1>2, <2>1
  <2>. DEFINE last == IF q[n + 1] \in R THEN u[n] ELSE Append(u[n], q[n + 1])
              v == [i \in 0 .. n + 1 |-> IF i = n + 1 THEN last ELSE u[i]]
  <2>3. q[n + 1] \in Req
    BY <2>1
  <2>4. u[n] \in Seq(Req) /\ u[0] = <<>> /\ \A i \in 0 .. n : u[i] \in Seq(Req)
    BY <2>2 DEF Keeps
  <2>5. last \in Seq(Req)
    BY <2>3, <2>4
  <2>6. v \in [0 .. n + 1 -> Seq(Req)] /\ v[0] = <<>>
    <3>. HIDE DEF last
    <3>1. QED
      BY <2>4, <2>5
  <2>7. ASSUME NEW i \in 1 .. n + 1
        PROVE  v[i] = IF q[i] \in R THEN v[i - 1] ELSE Append(v[i - 1], q[i])
    <3>1. CASE i = n + 1
      <4>1. v[i] = last /\ v[i - 1] = u[n]
        BY <3>1
      <4>2. QED
        BY <3>1, <4>1
    <3>2. CASE i \in 1 .. n
      <4>1. v[i] = u[i] /\ v[i - 1] = u[i - 1]
        BY <3>2
      <4>2. QED
        BY <2>2, <3>2, <4>1 DEF Keeps
    <3>3. QED
      BY <3>1, <3>2
  <2>8. Keeps(v, q, R, n + 1)
    BY <2>6, <2>7 DEF Keeps
  <2>9. QED
    BY <2>8
<1>3. Nat \subseteq T
  <2>. HIDE DEF T
  <2>1. QED
    BY <1>1, <1>2, InductiveSet
<1>4. QED
  BY <1>3

LEMMA WithoutIsKept ==
  ASSUME NEW q \in Seq(Req), NEW R
  PROVE  \E u : Keeps(u, q, R, Len(q)) /\ Without(q, R) = u[Len(q)]
<1>1. PICK u : Keeps(u, q, R, Len(q))
  BY KeepsExist
<1>. DEFINE Next0(f) == [i \in 0 .. Len(q) |->
                          IF i = 0 THEN <<>>
                          ELSE IF q[i] \in R THEN f[i - 1] ELSE Append(f[i - 1], q[i])]
            kept == CHOOSE f : f = Next0(f)
<1>2. u = Next0(u)
  <2>1. ASSUME NEW i \in 0 .. Len(q)
        PROVE  u[i] = IF i = 0 THEN <<>>
                      ELSE IF q[i] \in R THEN u[i - 1] ELSE Append(u[i - 1], q[i])
    <3>1. i = 0 \/ i \in 1 .. Len(q)
      OBVIOUS
    <3>2. QED
      BY <1>1, <3>1 DEF Keeps
  <2>2. u = [i \in 0 .. Len(q) |-> u[i]]
    BY <1>1 DEF Keeps
  <2>3. QED
    BY <2>1, <2>2, Zenon
<1>3. kept = Next0(kept)
  <2>. HIDE DEF Next0
  <2>1. QED
    BY <1>2
<1>. HIDE DEF kept
<1>4. \A i \in 0 .. Len(q) :
        kept[i] = IF i = 0 THEN <<>>
                  ELSE IF q[i] \in R THEN kept[i - 1] ELSE Append(kept[i - 1], q[i])
  BY <1>3, Zenon
<1>5. kept[Len(q)] = u[Len(q)]
  <2>. DEFINE T == {n \in Nat : n <= Len(q) => kept[n] = u[n]}
  <2>1. 0 \in T
    BY <1>1, <1>4 DEF Keeps
  <2>2. ASSUME NEW n \in Nat, n \in T PROVE n + 1 \in T
    <3>1. SUFFICES ASSUME n + 1 <= Len(q) PROVE kept[n + 1] = u[n + 1]
      OBVIOUS
    <3>2. kept[n] = u[n]
      BY <2>2, <3>1
    <3>3. n + 1 \in 1 .. Len(q) /\ n + 1 \in 0 .. Len(q) /\ n + 1 - 1 = n /\ n + 1 # 0
      BY <3>1
    <3>4. kept[n + 1] = IF q[n + 1] \in R THEN kept[n + 1 - 1] ELSE Append(kept[n + 1 - 1], q[n + 1])
      BY <1>4, <3>3
    <3>5. u[n + 1] = IF q[n + 1] \in R THEN u[n + 1 - 1] ELSE Append(u[n + 1 - 1], q[n + 1])
      BY <1>1, <3>3 DEF Keeps
    <3>6. QED
      BY <3>2, <3>3, <3>4, <3>5
  <2>3. Nat \subseteq T
    <3>. HIDE DEF T
    <3>1. QED
      BY <2>1, <2>2, InductiveSet
  <2>4. QED
    BY <2>3
<1>6. QED
  BY <1>1, <1>5 DEF Without, kept

(* What remove_requests keeps. *)
LEMMA WithoutLists ==
  ASSUME NEW q \in Seq(Req), NEW R
  PROVE  /\ Without(q, R) \in Seq(Req)
         /\ Range(Without(q, R)) = Range(q) \ R
         /\ IsInjective(q) => IsInjective(Without(q, R))
<1>1. PICK u : Keeps(u, q, R, Len(q)) /\ Without(q, R) = u[Len(q)]
  BY WithoutIsKept
<1>. DEFINE First(n) == {q[i] : i \in 1 .. n}
            Good(n) == /\ Range(u[n]) = First(n) \ R
                       /\ IsInjective(q) => IsInjective(u[n])
            T == {n \in Nat : n <= Len(q) => Good(n)}
<1>2. \A n \in 0 .. Len(q) : u[n] \in Seq(Req)
  BY <1>1 DEF Keeps
<1>3. 0 \in T
  <2>1. u[0] = <<>>
    BY <1>1 DEF Keeps
  <2>2. DOMAIN u[0] = {}
    BY <2>1
  <2>3. First(0) = {}
    OBVIOUS
  <2>4. Range(u[0]) = {} /\ IsInjective(u[0])
    BY <2>2 DEF Range, IsInjective
  <2>5. QED
    BY <2>3, <2>4
<1>4. ASSUME NEW n \in Nat, n \in T PROVE n + 1 \in T
  <2>1. SUFFICES ASSUME n + 1 <= Len(q) PROVE Good(n + 1)
    OBVIOUS
  <2>2. Good(n)
    BY <1>4, <2>1
  <2>3. n + 1 \in 1 .. Len(q) /\ n \in 0 .. Len(q) /\ n + 1 - 1 = n
    BY <2>1
  <2>4. q[n + 1] \in Req /\ u[n] \in Seq(Req)
    BY <1>2, <2>3
  <2>5. u[n + 1] = IF q[n + 1] \in R THEN u[n] ELSE Append(u[n], q[n + 1])
    <3>1. u[n + 1] = IF q[n + 1] \in R THEN u[n + 1 - 1] ELSE Append(u[n + 1 - 1], q[n + 1])
      BY <1>1, <2>3 DEF Keeps
    <3>2. QED
      BY <2>3, <3>1
  <2>6. First(n + 1) = First(n) \cup {q[n + 1]}
    BY <2>3
  <2>7. CASE q[n + 1] \in R
    <3>1. u[n + 1] = u[n]
      BY <2>5, <2>7
    <3>. HIDE DEF First
    <3>2. QED
      BY <2>2, <2>6, <2>7, <3>1
  <2>8. CASE q[n + 1] \notin R
    <3>1. u[n + 1] = Append(u[n], q[n + 1])
      BY <2>5, <2>8
    <3>2. IsInjective(q) => q[n + 1] \notin First(n)
      <4>1. \A i \in 1 .. n : i \in DOMAIN q /\ n + 1 \in DOMAIN q /\ i # n + 1
        BY <2>1
      <4>2. QED
        BY <4>1 DEF IsInjective
    <3>. HIDE DEF First
    <3>3. IsInjective(q) => q[n + 1] \notin Range(u[n])
      BY <2>2, <3>2
    <3>4. QED
      BY <2>2, <2>4, <2>6, <2>8, <3>1, <3>3, AppendLists
  <2>9. QED
    BY <2>7, <2>8
<1>5. Nat \subseteq T
  <2>. HIDE DEF T
  <2>1. QED
    BY <1>3, <1>4, InductiveSet
<1>6. Good(Len(q)) /\ Len(q) \in 0 .. Len(q)
  BY <1>5
<1>7. First(Len(q)) = Range(q)
  BY DEF Range
<1>8. QED
  <2>. HIDE DEF First
  <2>1. QED
    BY <1>1, <1>2, <1>6, <1>7

LEMMA CountedOnce ==
  ASSUME NEW q \in Seq(Req), IsInjective(q), NEW r
  PROVE  Count(q, r) = IF r \in Range(q) THEN 1 ELSE 0
<1>. DEFINE places == {i \in DOMAIN q : q[i] = r}
<1>1. CASE r \in Range(q)
  <2>1. PICK i \in DOMAIN q : q[i] = r
    BY <1>1 DEF Range
  <2>2. places = {i}
    BY <2>1 DEF IsInjective
  <2>3. QED
    BY <1>1, <2>2, FS_Singleton DEF Count
<1>2. CASE r \notin Range(q)
  <2>1. places = {}
    BY <1>2 DEF Range
  <2>2. QED
    BY <1>2, <2>1, FS_EmptySet DEF Count
<1>3. QED
  BY <1>1, <1>2

-----------------------------------------------------------------------------
(* The types of the state, part by part, and what each phase of the         *)
(* scheduler leaves behind.                                                 *)

Statuses == {"absent", "waiting", "grammar", "remote", "streaming",
             "running", "preempted", "finished", "gone"}

(* The types of the state, by the part of it that a handler touches; that  *)
(* of num_waiting_for_streaming_input follows from what it counts.         *)
StatusTyped ==
  /\ status \in [Req -> Statuses]
  /\ has_computed \in [Req -> BOOLEAN] /\ drop \in [Req -> BOOLEAN]
  /\ preemptions \in [Req -> 0 .. MaxPreemptions]
  /\ grammar \in [Req -> {"compiling", "ready", "error"}]

ListsTyped ==
  /\ running \in Seq(Req) /\ waiting \in Seq(Req)
  /\ skipped_waiting \in Seq(Req) /\ step_skipped \in Seq(Req)

SessionsTyped ==
  /\ streaming_queue \in [Req -> Seq({"chunk", "end"})]
  /\ sent \in [Req -> 0 .. MaxChunks]

SetsTyped ==
  /\ grammar_errors \subseteq Req /\ recving \subseteq Req /\ sending \subseteq Req
  /\ finished_recving \subseteq Req /\ failed_recving \subseteq Req
  /\ stopped_running \subseteq Req /\ stopped_preempted \subseteq Req

(* Steps are handed over, taken and dropped by the handlers whose turn it  *)
(* is, and what a handler collects is put away when it ends.               *)
StepsTyped ==
  /\ phase \in {"idle", "running", "waiting", "extra", "update", "errors", "xfer"}
  /\ preempted \in BOOLEAN
  /\ batch \in [Req -> Work]
  /\ device \in Seq([Req -> Work]) /\ Len(device) <= MaxBatches
  /\ stale \in [Req -> 0 .. MaxBatches]
  /\ phase \in {"idle", "update", "errors", "xfer"} => \A r \in Req : batch[r] = "none"
  /\ phase \in {"running", "waiting", "extra"} => Len(device) < MaxBatches
  /\ phase \in {"update", "errors", "xfer"} => device # <<>>
  /\ phase \in {"errors", "xfer"} => \A r \in Req : device[1][r] = "none"

HandlersTidy ==
  /\ phase # "waiting" => step_skipped = <<>>
  /\ phase # "update" => stopped_running = {} /\ stopped_preempted = {}

Typed == StatusTyped /\ ListsTyped /\ SessionsTyped /\ SetsTyped /\ StepsTyped /\ HandlersTidy

LEMMA TypedInit ==
  ASSUME QueuesAssumption, Init
  PROVE  Typed
<1>1. StatusTyped
  <2>1. /\ status = [r \in Req |-> "absent"] /\ has_computed = [r \in Req |-> FALSE]
        /\ drop = [r \in Req |-> FALSE] /\ preemptions = [r \in Req |-> 0]
        /\ grammar = [r \in Req |-> "compiling"]
    BY DEF Init
  <2>2. QED
    BY <2>1 DEF StatusTyped, Statuses, QueuesAssumption
<1>2. ListsTyped
  BY DEF Init, ListsTyped
<1>3. SessionsTyped
  <2>1. /\ streaming_queue = [r \in Req |-> <<>>] /\ sent = [r \in Req |-> 0]
    BY DEF Init
  <2>2. QED
    BY <2>1 DEF SessionsTyped, QueuesAssumption
<1>4. SetsTyped
  BY DEF Init, SetsTyped
<1>5. StepsTyped
  <2>1. /\ phase = "idle" /\ preempted = FALSE /\ batch = [r \in Req |-> "none"]
        /\ device = <<>> /\ stale = [r \in Req |-> 0]
    BY DEF Init, NoStep
  <2>2. batch \in [Req -> Work] /\ \A r \in Req : batch[r] = "none"
    BY <2>1 DEF Work
  <2>3. device \in Seq([Req -> Work]) /\ Len(device) = 0
    BY <2>1
  <2>4. stale \in [Req -> 0 .. MaxBatches] /\ 0 <= MaxBatches
    BY <2>1 DEF QueuesAssumption
  <2>5. QED
    BY <2>1, <2>2, <2>3, <2>4 DEF StepsTyped
<1>6. HandlersTidy
  BY DEF Init, HandlersTidy
<1>7. QED
  BY <1>1, <1>2, <1>3, <1>4, <1>5, <1>6 DEF Typed

-----------------------------------------------------------------------------
(* The next state, part by part. *)

LEMMA PromotedTyped ==
  ASSUME StatusTyped, NEW r \in Req
  PROVE  promoted(r) \in Statuses
  BY DEF promoted, StatusTyped, Statuses

LEMMA StatusStep ==
  ASSUME QueuesAssumption, Typed, [Next]_vars
  PROVE  StatusTyped'
<1>. USE DEF StatusTyped
<1>0. StatusTyped
  BY DEF Typed
<1>1. CASE \/ BeginSchedule \/ BeginWaiting \/ EndWaiting \/ EndSchedule \/ RemoveStopped
           \/ UNCHANGED vars
  BY <1>0, <1>1 DEF BeginSchedule, BeginWaiting, EndWaiting, EndPass, EndSchedule, RemoveStopped,
     vars, staleVars, grammarVars
<1>2. ASSUME NEW R, NEW drops \in BOOLEAN, _preempt_request(R, drops) PROVE StatusTyped'
  <2>1. /\ \A r \in R : preemptions[r] < MaxPreemptions
        /\ status' = [r \in Req |-> IF r \in R THEN "preempted" ELSE status[r]]
        /\ has_computed' = [r \in Req |-> has_computed[r] /\ r \notin R]
        /\ preemptions' = [r \in Req |-> preemptions[r] + (IF r \in R THEN 1 ELSE 0)]
        /\ drop' = [r \in Req |-> IF r \in R THEN drops \/ (drop[r] /\ stale[r] > 0)
                                  ELSE drop[r]]
        /\ grammar' = grammar
    BY <1>2 DEF _preempt_request, grammarVars
  <2>2. ASSUME NEW r \in Req
        PROVE  preemptions[r] + (IF r \in R THEN 1 ELSE 0) \in 0 .. MaxPreemptions
    BY <1>0, <2>1 DEF QueuesAssumption
  <2>3. preemptions' \in [Req -> 0 .. MaxPreemptions]
    BY <2>1, <2>2
  <2>4. status' \in [Req -> Statuses]
    BY <1>0, <2>1 DEF Statuses
  <2>5. has_computed' \in [Req -> BOOLEAN]
    BY <2>1, Zenon
  <2>6. ASSUME NEW r \in Req
        PROVE  (IF r \in R THEN drops \/ (drop[r] /\ stale[r] > 0) ELSE drop[r]) \in BOOLEAN
    BY <1>0, <1>2
  <2>7. drop' \in [Req -> BOOLEAN]
    BY <2>1, <2>6
  <2>8. QED
    BY <1>0, <2>1, <2>3, <2>4, <2>5, <2>7
<1>3. CASE PreemptVictim \/ reset_prefix_cache
  BY <1>2, <1>3 DEF PreemptVictim, reset_prefix_cache
<1>4. ASSUME NEW R, NEW sends, finish_requests(R, sends),
             UNCHANGED <<has_computed, staleVars, grammar>>
      PROVE  StatusTyped'
  <2>1. status' = [r \in Req |-> IF r \notin {x \in R : Live(x)} THEN status[r]
                                 ELSE IF delay_free_blocks(r, sends) THEN "finished" ELSE "gone"]
    BY <1>4 DEF finish_requests
  <2>2. status' \in [Req -> Statuses]
    BY <1>0, <2>1 DEF Statuses
  <2>3. QED
    BY <1>0, <1>4, <2>2 DEF staleVars
<1>5. CASE FinishErrors
  BY <1>4, <1>5 DEF FinishErrors
<1>6. ASSUME NEW r \in Req, Abort(r) PROVE StatusTyped'
  BY <1>4, <1>6 DEF Abort, grammarVars
<1>7. ASSUME NEW r \in Req, add_request(r) PROVE StatusTyped'
  <2>1. /\ \/ status' = status
           \/ \E s \in Statuses : status' = [status EXCEPT ![r] = s]
        /\ UNCHANGED <<has_computed, staleVars, grammarVars>>
    <3>1. CASE NewRequest(r)
      BY <1>7, <3>1 DEF add_request, NewRequest, Statuses
    <3>2. CASE UpdateSession(r)
      BY <1>7, <3>2 DEF add_request, UpdateSession, Statuses
    <3>3. QED
      BY <1>7, <3>1, <3>2 DEF add_request
  <2>2. QED
    BY <1>0, <2>1 DEF staleVars, grammarVars
<1>8. ASSUME NEW r \in Req, SkipBlocked(r) PROVE StatusTyped'
  BY <1>0, <1>8 DEF SkipBlocked, staleVars
<1>9. ASSUME NEW r \in Req, SkipReady(r) \/ SkipEncoderPending(r) \/ BreakAt(r) PROVE StatusTyped'
  <2>1. status' = [status EXCEPT ![r] = promoted(r)] /\ UNCHANGED <<has_computed, staleVars, grammarVars>>
    BY <1>9 DEF SkipReady, SkipEncoderPending, BreakAt, EndPass
  <2>2. QED
    BY <1>0, <2>1, PromotedTyped DEF staleVars, grammarVars
<1>10. ASSUME NEW r \in Req, NEW work, StartLoad(r) \/ Admit(r, work) PROVE StatusTyped'
  <2>1. /\ \/ status' = [status EXCEPT ![r] = "remote"] \/ status' = [status EXCEPT ![r] = "running"]
        /\ has_computed' = [has_computed EXCEPT ![r] = TRUE]
        /\ UNCHANGED <<staleVars, grammarVars>>
    BY <1>10 DEF StartLoad, Admit
  <2>2. QED
    BY <1>0, <2>1 DEF staleVars, grammarVars, Statuses
<1>11. ASSUME NEW r \in Req, NEW result \in {"ready", "error"}, CompileGrammar(r, result)
       PROVE  StatusTyped'
  BY <1>0, <1>11 DEF CompileGrammar, staleVars
<1>12. ASSUME NEW r \in Req, NEW work, ScheduleRunning(r, work) PROVE StatusTyped'
  BY <1>0, <1>12 DEF ScheduleRunning, staleVars, grammarVars
<1>13. ASSUME NEW r \in Req, NEW stop \in BOOLEAN, TakeOutput(r, stop) PROVE StatusTyped'
  <2>1. UNCHANGED <<has_computed, preemptions, drop, grammarVars>>
    BY <1>13 DEF TakeOutput
  <2>2. \/ status' = status
        \/ \E s \in Statuses : status' = [status EXCEPT ![r] = s]
    <3>1. CASE stop
      BY <1>13, <3>1 DEF TakeOutput, _handle_stopped_request, ContinueSession, FinishStopped, Statuses
    <3>2. CASE ~stop
      BY <1>13, <3>2 DEF TakeOutput
    <3>3. QED
      BY <3>1, <3>2
  <2>3. QED
    BY <1>0, <2>1, <2>2 DEF grammarVars
<1>14. ASSUME NEW failed, NEW keep, BeginUpdate(failed, keep) PROVE StatusTyped'
  <2>1. /\ has_computed' = [r \in Req |-> has_computed[r] /\ r \notin failed \ keep]
        /\ UNCHANGED <<status, staleVars, grammarVars>>
    BY <1>14 DEF BeginUpdate
  <2>2. has_computed' \in [Req -> BOOLEAN]
    BY <2>1, Zenon
  <2>3. QED
    BY <1>0, <2>1, <2>2 DEF staleVars, grammarVars
<1>15. ASSUME NEW received, NEW done, _update_from_kv_xfer_finished(received, done)
       PROVE  StatusTyped'
  <2>1. /\ status' = [r \in Req |-> IF status[r] = "finished" /\ r \in received \cup done
                                    THEN "gone" ELSE status[r]]
        /\ UNCHANGED <<has_computed, staleVars, grammarVars>>
    BY <1>15 DEF _update_from_kv_xfer_finished
  <2>2. QED
    BY <1>0, <2>1 DEF staleVars, grammarVars, Statuses
<1>16. QED
  BY <1>1, <1>3, <1>5, <1>6, <1>7, <1>8, <1>9, <1>10, <1>11, <1>12, <1>13, <1>14, <1>15 DEF Next

LEMMA ListsStep ==
  ASSUME Typed, [Next]_vars
  PROVE  ListsTyped'
<1>0. ListsTyped
  BY DEF Typed
<1>1. CASE \/ BeginSchedule \/ BeginWaiting \/ EndSchedule \/ UNCHANGED vars
  BY <1>0, <1>1 DEF BeginSchedule, BeginWaiting, EndSchedule, vars, queueVars, ListsTyped
<1>2. CASE RemoveStopped
  BY <1>0, <1>2, WithoutLists DEF RemoveStopped, ListsTyped
<1>3. ASSUME NEW R, NEW drops, _preempt_request(R, drops) PROVE ListsTyped'
  <2>1. /\ running' = Without(running, R)
        /\ waiting' = Without(running, Req \ R) \o waiting
        /\ UNCHANGED <<skipped_waiting, step_skipped>>
    BY <1>3 DEF _preempt_request
  <2>2. running' \in Seq(Req) /\ Without(running, Req \ R) \in Seq(Req)
    BY <1>0, <2>1, WithoutLists DEF ListsTyped
  <2>3. waiting' \in Seq(Req)
    BY <1>0, <2>1, <2>2, ConcatLists DEF ListsTyped
  <2>4. QED
    BY <1>0, <2>1, <2>2, <2>3 DEF ListsTyped
<1>4. CASE PreemptVictim \/ reset_prefix_cache
  BY <1>3, <1>4 DEF PreemptVictim, reset_prefix_cache
<1>5. ASSUME NEW R, NEW sends, finish_requests(R, sends), UNCHANGED step_skipped
      PROVE  ListsTyped'
  BY <1>0, <1>5, WithoutLists DEF finish_requests, ListsTyped
<1>6. CASE FinishErrors
  BY <1>5, <1>6 DEF FinishErrors
<1>7. ASSUME NEW r \in Req, Abort(r) PROVE ListsTyped'
  BY <1>5, <1>7 DEF Abort
<1>8. ASSUME NEW r \in Req, add_request(r) PROVE ListsTyped'
  <2>1. running' = running /\ step_skipped' = step_skipped
    BY <1>8 DEF add_request
  <2>2. CASE NewRequest(r)
    <3>1. \A q \in Seq(Req) : Append(q, r) \in Seq(Req)
      OBVIOUS
    <3>2. QED
      BY <1>0, <2>1, <2>2, <3>1 DEF NewRequest, ListsTyped
  <2>3. CASE UpdateSession(r)
    <3>1. \/ UNCHANGED <<waiting, skipped_waiting>>
          \/ /\ waiting' = Without(waiting, {r})
             /\ skipped_waiting' = Without(skipped_waiting, {r})
      BY <2>3 DEF UpdateSession
    <3>2. QED
      BY <1>0, <2>1, <3>1, WithoutLists DEF ListsTyped
  <2>4. QED
    BY <1>8, <2>2, <2>3 DEF add_request
<1>9. ASSUME NEW r \in Req, PutAside(r), running' = running PROVE ListsTyped'
  BY <1>0, <1>9, WithoutLists, AppendLists DEF PutAside, ListsTyped
<1>10. ASSUME NEW r \in Req, SkipBlocked(r) \/ SkipReady(r) \/ StartLoad(r) PROVE ListsTyped'
  BY <1>9, <1>10 DEF SkipBlocked, SkipReady, StartLoad
<1>11. ASSUME NEW r \in Req, SkipEncoderPending(r) PROVE ListsTyped'
  <2>1. r \in Range(skipped_waiting) \cup Range(waiting)
    <3>1. r \in Selected
      BY <1>11 DEF SkipEncoderPending, Consider
    <3>2. CASE InterleavePrefill
      BY <3>1, <3>2 DEF Selected
    <3>3. CASE ~InterleavePrefill
      BY <1>0, <3>1, <3>3, TailLists DEF Selected, Heads, ListsTyped
    <3>4. QED
      BY <3>2, <3>3
  <2>2. ASSUME NEW q \in Seq(Req), r \in Range(q) PROVE Tail(q) \in Seq(Req)
    <3>1. q # <<>>
      BY <2>2 DEF Range
    <3>2. QED
      BY <3>1, TailLists
  <2>3. /\ running' = running /\ step_skipped' = Append(step_skipped, r)
        /\ \/ r \in Range(skipped_waiting) /\ skipped_waiting' = Tail(skipped_waiting)
                /\ waiting' = waiting
           \/ r \notin Range(skipped_waiting) /\ waiting' = Tail(waiting)
                /\ skipped_waiting' = skipped_waiting
    BY <1>11 DEF SkipEncoderPending
  <2>4. step_skipped' \in Seq(Req)
    BY <1>0, <2>3, AppendLists DEF ListsTyped
  <2>5. waiting' \in Seq(Req) /\ skipped_waiting' \in Seq(Req)
    BY <1>0, <2>1, <2>2, <2>3 DEF ListsTyped
  <2>6. QED
    BY <1>0, <2>3, <2>4, <2>5 DEF ListsTyped
<1>12. ASSUME NEW r \in Req, NEW work, Admit(r, work) PROVE ListsTyped'
  BY <1>0, <1>12, WithoutLists, AppendLists DEF Admit, ListsTyped
<1>13. ASSUME EndPass PROVE ListsTyped'
  <2>1. /\ running' = running /\ waiting' = waiting /\ step_skipped' = <<>>
        /\ skipped_waiting' = step_skipped \o skipped_waiting
    BY <1>13 DEF EndPass, requeued
  <2>2. QED
    BY <1>0, <2>1, ConcatLists DEF ListsTyped
<1>14. CASE EndWaiting
  BY <1>13, <1>14 DEF EndWaiting
<1>15. ASSUME NEW r \in Req, BreakAt(r) PROVE ListsTyped'
  BY <1>13, <1>15 DEF BreakAt
<1>16. ASSUME NEW r \in Req, NEW result, CompileGrammar(r, result) PROVE ListsTyped'
  BY <1>0, <1>16 DEF CompileGrammar, queueVars, ListsTyped
<1>17. ASSUME NEW r \in Req, NEW work, ScheduleRunning(r, work) PROVE ListsTyped'
  BY <1>0, <1>17 DEF ScheduleRunning, queueVars, ListsTyped
<1>18. ASSUME NEW r \in Req, NEW stop \in BOOLEAN, TakeOutput(r, stop) PROVE ListsTyped'
  <2>1. running' = running /\ step_skipped' = step_skipped
    BY <1>18 DEF TakeOutput
  <2>2. /\ waiting' = waiting \/ waiting' = Append(waiting, r)
        /\ skipped_waiting' = skipped_waiting \/ skipped_waiting' = Append(skipped_waiting, r)
    <3>1. CASE stop
      BY <1>18, <3>1 DEF TakeOutput, _handle_stopped_request, ContinueSession, FinishStopped
    <3>2. CASE ~stop
      BY <1>18, <3>2 DEF TakeOutput
    <3>3. QED
      BY <3>1, <3>2
  <2>3. \A q \in Seq(Req) : Append(q, r) \in Seq(Req)
    OBVIOUS
  <2>4. QED
    BY <1>0, <2>1, <2>2, <2>3 DEF ListsTyped
<1>19. ASSUME NEW failed, NEW keep, BeginUpdate(failed, keep) PROVE ListsTyped'
  BY <1>0, <1>19 DEF BeginUpdate, queueVars, ListsTyped
<1>20. ASSUME NEW received, NEW done, _update_from_kv_xfer_finished(received, done)
       PROVE  ListsTyped'
  BY <1>0, <1>20 DEF _update_from_kv_xfer_finished, queueVars, ListsTyped
<1>21. QED
  BY <1>1, <1>2, <1>4, <1>6, <1>7, <1>8, <1>10, <1>11, <1>12, <1>14, <1>15, <1>16, <1>17,
     <1>18, <1>19, <1>20 DEF Next

LEMMA SessionsStep ==
  ASSUME QueuesAssumption, Typed, [Next]_vars
  PROVE  SessionsTyped'
<1>. USE DEF SessionsTyped, sessionVars
<1>0. SessionsTyped
  BY DEF Typed
<1>1. CASE \/ BeginSchedule \/ BeginWaiting \/ EndSchedule \/ EndWaiting \/ RemoveStopped \/ FinishErrors
           \/ UNCHANGED vars
  BY <1>0, <1>1 DEF BeginSchedule, BeginWaiting, EndSchedule, EndWaiting, EndPass, RemoveStopped,
     FinishErrors, vars
<1>2. CASE PreemptVictim \/ reset_prefix_cache
  BY <1>0, <1>2 DEF PreemptVictim, reset_prefix_cache, _preempt_request
<1>3. ASSUME NEW r \in Req, add_request(r) PROVE SessionsTyped'
  <2>1. CASE NewRequest(r)
    BY <1>0, <2>1 DEF NewRequest
  <2>2. CASE UpdateSession(r)
    <3>1. PICK update \in {"chunk", "end"} :
            /\ sent' = [sent EXCEPT ![r] = IF update = "end" THEN MaxChunks ELSE @ + 1]
            /\ \/ streaming_queue' = streaming_queue
               \/ streaming_queue' = [streaming_queue EXCEPT ![r] = Append(@, update)]
      BY <2>2 DEF UpdateSession
    <3>2. (IF update = "end" THEN MaxChunks ELSE sent[r] + 1) \in 0 .. MaxChunks
      BY <1>0, <2>2 DEF UpdateSession, QueuesAssumption
    <3>3. Append(streaming_queue[r], update) \in Seq({"chunk", "end"})
      BY <1>0
    <3>4. QED
      BY <1>0, <3>1, <3>2, <3>3
  <2>3. QED
    BY <1>3, <2>1, <2>2 DEF add_request
<1>4. ASSUME NEW r \in Req, Abort(r) PROVE SessionsTyped'
  BY <1>0, <1>4 DEF Abort
<1>5. ASSUME NEW r \in Req,
             SkipBlocked(r) \/ SkipReady(r) \/ SkipEncoderPending(r) \/ StartLoad(r) \/ BreakAt(r)
      PROVE  SessionsTyped'
  BY <1>0, <1>5 DEF SkipBlocked, SkipReady, SkipEncoderPending, StartLoad, BreakAt, EndPass
<1>6. ASSUME NEW r \in Req, NEW work, Admit(r, work) \/ ScheduleRunning(r, work) PROVE SessionsTyped'
  BY <1>0, <1>6 DEF Admit, ScheduleRunning
<1>7. ASSUME NEW r \in Req, NEW result, CompileGrammar(r, result) PROVE SessionsTyped'
  BY <1>0, <1>7 DEF CompileGrammar
<1>8. ASSUME NEW r \in Req, NEW stop \in BOOLEAN, TakeOutput(r, stop) PROVE SessionsTyped'
  <2>1. /\ sent' = sent
        /\ \/ streaming_queue' = streaming_queue
           \/ /\ streaming_queue[r] # <<>>
              /\ streaming_queue' = [streaming_queue EXCEPT ![r] = Tail(@)]
           \/ streaming_queue' = [streaming_queue EXCEPT ![r] = IF @ = <<>> THEN @ ELSE Tail(@)]
    BY <1>8 DEF TakeOutput, _handle_stopped_request, ContinueSession, FinishStopped
  <2>2. /\ streaming_queue[r] # <<>> => Tail(streaming_queue[r]) \in Seq({"chunk", "end"})
        /\ streaming_queue[r] \in Seq({"chunk", "end"})
    BY <1>0
  <2>3. QED
    BY <1>0, <2>1, <2>2
<1>9. ASSUME NEW failed, NEW keep, BeginUpdate(failed, keep) PROVE SessionsTyped'
  BY <1>0, <1>9 DEF BeginUpdate
<1>10. ASSUME NEW received, NEW done, _update_from_kv_xfer_finished(received, done)
       PROVE  SessionsTyped'
  BY <1>0, <1>10 DEF _update_from_kv_xfer_finished
<1>11. QED
  BY <1>1, <1>2, <1>3, <1>4, <1>5, <1>6, <1>7, <1>8, <1>9, <1>10 DEF Next

LEMMA SetsStep ==
  ASSUME Typed, [Next]_vars
  PROVE  SetsTyped'
<1>. USE DEF SetsTyped, xferVars, grammarVars, stopVars
<1>0. SetsTyped
  BY DEF Typed
<1>1. CASE \/ BeginSchedule \/ BeginWaiting \/ EndSchedule \/ EndWaiting \/ RemoveStopped
           \/ UNCHANGED vars
  BY <1>0, <1>1 DEF BeginSchedule, BeginWaiting, EndSchedule, EndWaiting, EndPass, RemoveStopped, vars
<1>2. CASE PreemptVictim \/ reset_prefix_cache
  BY <1>0, <1>2 DEF PreemptVictim, reset_prefix_cache, _preempt_request
<1>3. ASSUME NEW r \in Req, add_request(r) PROVE SetsTyped'
  <2>1. sending' \subseteq sending \cup {r} /\ UNCHANGED <<recving, finished_recving, failed_recving>>
    BY <1>3 DEF add_request, NewRequest, UpdateSession
  <2>2. QED
    BY <1>0, <1>3, <2>1 DEF add_request
<1>4. ASSUME NEW R \in SUBSET Req, NEW sends, finish_requests(R, sends), stopVars' = stopVars,
             grammar_errors' \subseteq grammar_errors
      PROVE  SetsTyped'
  <2>. DEFINE S == {r \in R : Live(r)}
  <2>1. /\ sends \subseteq S /\ sending' = sending \cup sends /\ recving' = recving
        /\ finished_recving' = discarded(finished_recving, S)
        /\ failed_recving' = discarded(failed_recving, S)
    BY <1>4 DEF finish_requests
  <2>2. S \subseteq Req
    OBVIOUS
  <2>. HIDE DEF S
  <2>3. finished_recving' \subseteq finished_recving /\ failed_recving' \subseteq failed_recving
    BY <2>1 DEF discarded
  <2>4. QED
    BY <1>0, <1>4, <2>1, <2>2, <2>3
<1>5. CASE FinishErrors
  BY <1>0, <1>4, <1>5 DEF FinishErrors
<1>6. ASSUME NEW r \in Req, Abort(r) PROVE SetsTyped'
  BY <1>4, <1>6 DEF Abort
<1>7. ASSUME NEW r \in Req,
             SkipBlocked(r) \/ SkipReady(r) \/ SkipEncoderPending(r) \/ StartLoad(r) \/ BreakAt(r)
      PROVE  SetsTyped'
  BY <1>0, <1>7 DEF SkipBlocked, SkipReady, SkipEncoderPending, StartLoad, BreakAt, EndPass, Consider
<1>8. ASSUME NEW r \in Req, NEW work, Admit(r, work) \/ ScheduleRunning(r, work) PROVE SetsTyped'
  BY <1>0, <1>8 DEF Admit, ScheduleRunning, Consider
<1>9. ASSUME NEW r \in Req, NEW result, CompileGrammar(r, result) PROVE SetsTyped'
  BY <1>0, <1>9 DEF CompileGrammar
<1>10. ASSUME NEW r \in Req, NEW stop \in BOOLEAN, TakeOutput(r, stop) PROVE SetsTyped'
  <2>1. /\ sending' \subseteq sending \cup {r}
        /\ stopped_running' \subseteq stopped_running \cup {r}
        /\ stopped_preempted' \subseteq stopped_preempted \cup {r}
        /\ UNCHANGED <<grammar_errors, recving, finished_recving, failed_recving>>
    BY <1>10 DEF TakeOutput, _handle_stopped_request, ContinueSession, FinishStopped
  <2>2. QED
    BY <1>0, <2>1
<1>11. ASSUME NEW failed \in SUBSET recving, NEW keep, BeginUpdate(failed, keep) PROVE SetsTyped'
  BY <1>0, <1>11 DEF BeginUpdate
<1>12. ASSUME NEW received \in SUBSET recving, NEW done, _update_from_kv_xfer_finished(received, done)
       PROVE  SetsTyped'
  BY <1>0, <1>12 DEF _update_from_kv_xfer_finished
<1>13. QED
  BY <1>1, <1>2, <1>3, <1>5, <1>6, <1>7, <1>8, <1>9, <1>10, <1>11, <1>12 DEF Next

LEMMA TidyStep ==
  ASSUME Typed, [Next]_vars
  PROVE  HandlersTidy'
<1>. USE DEF HandlersTidy, queueVars, stopVars
<1>0. HandlersTidy
  BY DEF Typed
<1>1. CASE \/ BeginSchedule \/ BeginWaiting \/ EndSchedule \/ EndWaiting \/ RemoveStopped \/ FinishErrors
           \/ UNCHANGED vars
  BY <1>0, <1>1 DEF BeginSchedule, BeginWaiting, EndSchedule, EndWaiting, EndPass, RemoveStopped,
     FinishErrors, vars
<1>2. CASE PreemptVictim \/ reset_prefix_cache
  BY <1>0, <1>2 DEF PreemptVictim, reset_prefix_cache, _preempt_request
<1>3. ASSUME NEW r \in Req, add_request(r) \/ Abort(r) PROVE HandlersTidy'
  BY <1>0, <1>3 DEF add_request, Abort
<1>4. ASSUME NEW r \in Req,
             SkipBlocked(r) \/ SkipReady(r) \/ SkipEncoderPending(r) \/ StartLoad(r) \/ BreakAt(r)
      PROVE  HandlersTidy'
  BY <1>0, <1>4 DEF SkipBlocked, SkipReady, SkipEncoderPending, StartLoad, BreakAt, EndPass, Consider
<1>5. ASSUME NEW r \in Req, NEW work, Admit(r, work) \/ ScheduleRunning(r, work) PROVE HandlersTidy'
  BY <1>0, <1>5 DEF Admit, ScheduleRunning, Consider
<1>6. ASSUME NEW r \in Req, NEW result, CompileGrammar(r, result) PROVE HandlersTidy'
  BY <1>0, <1>6 DEF CompileGrammar
<1>7. ASSUME NEW r \in Req, NEW stop \in BOOLEAN, TakeOutput(r, stop) PROVE HandlersTidy'
  BY <1>0, <1>7 DEF TakeOutput
<1>8. ASSUME NEW failed, NEW keep, BeginUpdate(failed, keep) PROVE HandlersTidy'
  BY <1>0, <1>8 DEF BeginUpdate
<1>9. ASSUME NEW received, NEW done, _update_from_kv_xfer_finished(received, done)
      PROVE  HandlersTidy'
  BY <1>0, <1>9 DEF _update_from_kv_xfer_finished
<1>10. QED
  BY <1>1, <1>2, <1>3, <1>4, <1>5, <1>6, <1>7, <1>8, <1>9 DEF Next

(* Some of the first n places. *)
LEMMA SomePlaces ==
  ASSUME NEW n \in Nat, NEW S \in SUBSET (1 .. n)
  PROVE  IsFiniteSet(S) /\ Cardinality(S) \in 0 .. n
<1>1. IsFiniteSet(1 .. n) /\ Cardinality(1 .. n) = n
  BY FS_Interval
<1>2. IsFiniteSet(S) /\ Cardinality(S) <= n
  BY <1>1, FS_Subset
<1>3. Cardinality(S) \in Nat
  BY <1>2, FS_CardinalityType
<1>4. QED
  BY <1>2, <1>3

(* No request has more shares in flight than there are steps. *)
LEMMA InFlightBounded ==
  ASSUME QueuesAssumption, Typed, NEW r \in Req
  PROVE  InFlight(r) \in 0 .. MaxBatches
<1>1. device \in Seq([Req -> Work]) /\ Len(device) <= MaxBatches
  BY DEF Typed, StepsTyped
<1>2. {i \in DOMAIN device : device[i][r] # "none"} \in SUBSET (1 .. Len(device)) /\ Len(device) \in Nat
  BY <1>1
<1>3. InFlight(r) \in 0 .. Len(device)
  BY <1>2, SomePlaces DEF InFlight
<1>4. QED
  BY <1>1, <1>2, <1>3 DEF QueuesAssumption

LEMMA StepsStep ==
  ASSUME QueuesAssumption, Typed, [Next]_vars
  PROVE  StepsTyped'
<1>. USE DEF StepsTyped, stepVars, staleVars
<1>0. StepsTyped /\ SetsTyped
  BY DEF Typed
<1>1. CASE \/ BeginSchedule \/ BeginWaiting \/ EndWaiting \/ FinishErrors \/ UNCHANGED vars
  BY <1>0, <1>1 DEF BeginSchedule, BeginWaiting, EndWaiting, EndPass, FinishErrors, vars
<1>2. CASE RemoveStopped
  <2>1. \A r \in Req : device[1][r] = "none"
    BY <1>2 DEF RemoveStopped, NoStep
  <2>2. QED
    BY <1>0, <1>2, <2>1 DEF RemoveStopped
<1>3. CASE EndSchedule
  <2>1. /\ phase' = "idle" /\ preempted' = FALSE /\ stale' = stale
        /\ device' = Append(device, batch) /\ batch' = NoStep /\ Len(device) < MaxBatches
    BY <1>0, <1>3 DEF EndSchedule
  <2>2. device' \in Seq([Req -> Work]) /\ Len(device') = Len(device) + 1 /\ Len(device) \in Nat
    BY <1>0, <2>1
  <2>3. batch' \in [Req -> Work] /\ \A r \in Req : batch'[r] = "none"
    BY <2>1 DEF NoStep, Work
  <2>4. Len(device') <= MaxBatches
    BY <2>1, <2>2 DEF QueuesAssumption
  <2>5. QED
    BY <1>0, <2>1, <2>2, <2>3, <2>4
<1>4. ASSUME NEW R, NEW drops, _preempt_request(R, drops), UNCHANGED <<phase, batch, device>>,
             preempted' \in BOOLEAN
      PROVE  StepsTyped'
  <2>1. stale' = [r \in Req |-> IF r \in R THEN InFlight(r) ELSE stale[r]]
    BY <1>4 DEF _preempt_request
  <2>2. stale' \in [Req -> 0 .. MaxBatches]
    BY <1>0, <2>1, InFlightBounded
  <2>3. QED
    BY <1>0, <1>4, <2>2
<1>5. CASE PreemptVictim \/ reset_prefix_cache
  BY <1>0, <1>4, <1>5 DEF PreemptVictim, reset_prefix_cache
<1>6. ASSUME NEW r \in Req, add_request(r) \/ Abort(r) PROVE StepsTyped'
  BY <1>0, <1>6 DEF add_request, Abort
<1>7. ASSUME NEW r \in Req,
             SkipBlocked(r) \/ SkipReady(r) \/ SkipEncoderPending(r) \/ StartLoad(r) \/ BreakAt(r)
      PROVE  StepsTyped'
  BY <1>0, <1>7 DEF SkipBlocked, SkipReady, SkipEncoderPending, StartLoad, BreakAt, EndPass, Consider
<1>8. ASSUME NEW r \in Req, NEW work, Admit(r, work) \/ ScheduleRunning(r, work) PROVE StepsTyped'
  <2>1. /\ phase \in {"running", "waiting", "extra"} /\ work \in {"chunk", "sample"}
        /\ batch' = [batch EXCEPT ![r] = work] /\ UNCHANGED <<phase, preempted, device, stale>>
    BY <1>8 DEF Admit, ScheduleRunning, Consider
  <2>2. batch' \in [Req -> Work]
    BY <1>0, <2>1 DEF Work
  <2>3. QED
    BY <1>0, <2>1, <2>2
<1>9. ASSUME NEW r \in Req, NEW result, CompileGrammar(r, result) PROVE StepsTyped'
  BY <1>0, <1>9 DEF CompileGrammar
<1>10. ASSUME NEW r \in Req, NEW stop \in BOOLEAN, TakeOutput(r, stop) PROVE StepsTyped'
  <2>1. /\ phase = "update" /\ UNCHANGED <<phase, batch, preempted>>
        /\ device' = [device EXCEPT ![1] = [@ EXCEPT ![r] = "none"]]
        /\ stale' = [stale EXCEPT ![r] = IF Live(r) /\ stale[r] > 0 THEN @ - 1 ELSE @]
    BY <1>10 DEF TakeOutput
  <2>2. 1 \in DOMAIN device /\ device[1] \in [Req -> Work]
    BY <1>0, <2>1
  <2>3. [device[1] EXCEPT ![r] = "none"] \in [Req -> Work]
    BY <2>2 DEF Work
  <2>4. device' \in Seq([Req -> Work]) /\ Len(device') = Len(device)
    BY <1>0, <2>1, <2>2, <2>3
  <2>5. (IF Live(r) /\ stale[r] > 0 THEN stale[r] - 1 ELSE stale[r]) \in 0 .. MaxBatches
    BY <1>0 DEF QueuesAssumption
  <2>6. stale' \in [Req -> 0 .. MaxBatches]
    BY <1>0, <2>1, <2>5
  <2>7. device' # <<>>
    BY <1>0, <2>1, <2>4
  <2>8. QED
    BY <1>0, <2>1, <2>4, <2>6, <2>7
<1>11. ASSUME NEW failed, NEW keep, BeginUpdate(failed, keep) PROVE StepsTyped'
  BY <1>0, <1>11 DEF BeginUpdate
<1>12. ASSUME NEW received, NEW done, _update_from_kv_xfer_finished(received, done)
       PROVE  StepsTyped'
  <2>1. /\ phase = "xfer" /\ phase' = "idle" /\ device' = Tail(device)
        /\ UNCHANGED <<batch, preempted, stale>>
    BY <1>12 DEF _update_from_kv_xfer_finished
  <2>2. device # <<>>
    BY <1>0, <2>1
  <2>3. device' \in Seq([Req -> Work]) /\ Len(device') = Len(device) - 1 /\ Len(device) \in Nat
    BY <1>0, <2>1, <2>2
  <2>4. Len(device') <= MaxBatches
    BY <1>0, <2>3 DEF QueuesAssumption
  <2>5. QED
    BY <1>0, <2>1, <2>3, <2>4
<1>13. QED
  BY <1>1, <1>2, <1>3, <1>5, <1>6, <1>7, <1>8, <1>9, <1>10, <1>11, <1>12 DEF Next

LEMMA TypedStep ==
  ASSUME QueuesAssumption, Typed, [Next]_vars
  PROVE  Typed'
BY StatusStep, ListsStep, SessionsStep, SetsStep, StepsStep, TidyStep DEF Typed

-----------------------------------------------------------------------------
(* The shares of a request in the steps in flight. *)

(* The settings for which the promises below are made; the runs             *)
(* request_interleaved and request_session_preempted show what happens to   *)
(* the queues outside them.                                                 *)
Configured ==
  /\ QueuesAssumption
  /\ ~InterleavePrefill
  /\ MayPreempt => Resumable = {}

Waits(r) == Live(r) /\ status[r] # "running"

(* The queues hold each request once, and those its status says; what a    *)
(* handler has stopped leaves them at its end.                             *)
Listed ==
  /\ IsInjective(running) /\ IsInjective(waiting)
  /\ IsInjective(skipped_waiting) /\ IsInjective(step_skipped)
  /\ Range(waiting) \cap Range(skipped_waiting) = {}
  /\ Range(waiting) \cap Range(step_skipped) = {}
  /\ Range(skipped_waiting) \cap Range(step_skipped) = {}
  /\ \A r \in Req :
       /\ (r \in Range(running)) <=> (status[r] = "running" \/ r \in stopped_running)
       /\ (r \in Range(waiting) \cup Range(skipped_waiting) \cup Range(step_skipped)) <=>
            (Waits(r) \/ r \in stopped_preempted)
       /\ _is_blocked_waiting_status(status[r]) => r \notin Range(waiting)
       /\ r \in stopped_running => status[r] # "running"
       /\ r \in stopped_preempted => ~Live(r)

(* The places, up to i, of the steps that hold a share of r. *)
Upto(r, i) == {j \in 1 .. i : device[j][r] # "none"}

(* The oldest stale[r] shares of a request belong to earlier residencies,  *)
(* and it may be told only while it runs or its output is dropped; of the  *)
(* others only the last samples.                                           *)
SharesFit(r) ==
  /\ status[r] = "absent" => InFlight(r) = 0 /\ stale[r] = 0 /\ batch[r] = "none"
  /\ Waits(r) => InFlight(r) = stale[r] /\ batch[r] = "none"
  /\ status[r] \in {"running", "remote"} => stale[r] = 0 \/ drop[r]
  /\ status[r] = "running" =>
       \A i \in DOMAIN device :
         device[i][r] = "sample" /\ Cardinality(Upto(r, i)) > stale[r] =>
           /\ batch[r] = "none"
           /\ \A j \in DOMAIN device : j > i => device[j][r] = "none"
  /\ ~MayPreempt => stale[r] = 0

SharesInv == \A r \in Req : SharesFit(r)

LEMMA SharesInit == Init => SharesInv
<1>. SUFFICES ASSUME Init, NEW r \in Req PROVE SharesFit(r)
  BY DEF SharesInv
<1>1. /\ status = [x \in Req |-> "absent"] /\ stale = [x \in Req |-> 0]
      /\ batch = [x \in Req |-> "none"] /\ device = <<>>
  BY DEF Init, NoStep
<1>2. DOMAIN device = {}
  BY <1>1
<1>3. InFlight(r) = 0
  <2>1. {i \in DOMAIN device : device[i][r] # "none"} = {}
    BY <1>2
  <2>2. QED
    BY <2>1, FS_EmptySet DEF InFlight
<1>4. QED
  BY <1>1, <1>2, <1>3 DEF SharesFit, Waits, Live

LEMMA UptoFacts ==
  ASSUME Typed, NEW r \in Req, NEW i \in DOMAIN device
  PROVE  /\ IsFiniteSet(Upto(r, i)) /\ Cardinality(Upto(r, i)) \in Nat
         /\ Cardinality(Upto(r, i)) <= InFlight(r) /\ InFlight(r) \in Nat
         /\ device[i][r] # "none" => Cardinality(Upto(r, i)) > 0
<1>1. device \in Seq([Req -> Work])
  BY DEF Typed, StepsTyped
<1>2. DOMAIN device = 1 .. Len(device) /\ Len(device) \in Nat
  BY <1>1
<1>. DEFINE shares == {j \in DOMAIN device : device[j][r] # "none"}
<1>3. shares \in SUBSET (1 .. Len(device)) /\ Upto(r, i) \in SUBSET shares
  BY <1>2 DEF Upto
<1>4. device[i][r] # "none" => i \in Upto(r, i)
  BY <1>2 DEF Upto
<1>5. InFlight(r) = Cardinality(shares)
  BY DEF InFlight
<1>. HIDE DEF shares
<1>6. IsFiniteSet(shares) /\ Cardinality(shares) \in Nat
  BY <1>2, <1>3, SomePlaces
<1>7. IsFiniteSet(Upto(r, i)) /\ Cardinality(Upto(r, i)) <= Cardinality(shares)
  BY <1>3, <1>6, FS_Subset
<1>8. Cardinality(Upto(r, i)) \in Nat /\ (Cardinality(Upto(r, i)) = 0 => Upto(r, i) = {})
  BY <1>7, FS_CardinalityType, FS_EmptySet
<1>9. QED
  BY <1>4, <1>5, <1>6, <1>7, <1>8

(* What leaves the shares of r and its standing alone. *)
LEMMA SharesUnchanged ==
  ASSUME Typed, NEW r \in Req, SharesFit(r), DOMAIN device' = DOMAIN device,
         \A i \in DOMAIN device : device'[i][r] = device[i][r], batch'[r] = batch[r],
         status'[r] = status[r], stale'[r] = stale[r], drop'[r] = drop[r]
  PROVE  SharesFit(r)'
<1>1. DOMAIN device = 1 .. Len(device) /\ Len(device) \in Nat
  BY DEF Typed, StepsTyped
<1>2. InFlight(r)' = InFlight(r) /\ Waits(r)' = Waits(r)
  BY DEF InFlight, Waits, Live
<1>3. \A i \in DOMAIN device : Upto(r, i)' = Upto(r, i)
  BY <1>1 DEF Upto
<1>4. QED
  BY <1>2, <1>3 DEF SharesFit

(* What r waits for does not matter to its shares, unless it is a load. *)
LEMMA SharesWaiting ==
  ASSUME NEW r \in Req, SharesFit(r), device' = device, batch'[r] = batch[r],
         status[r] = "absent" \/ Waits(r), Waits(r)', stale'[r] = stale[r], drop'[r] = drop[r],
         status'[r] = "remote" => stale[r] = 0 \/ drop[r]
  PROVE  SharesFit(r)'
<1>1. InFlight(r)' = InFlight(r)
  BY DEF InFlight
<1>2. status'[r] # "absent" /\ status'[r] # "running"
  BY DEF Waits, Live
<1>3. QED
  BY <1>1, <1>2 DEF SharesFit

(* Nothing is said of the shares of a request that has ended. *)
LEMMA SharesEnded ==
  ASSUME NEW r \in Req, status'[r] \in {"finished", "gone"}, ~MayPreempt => stale'[r] = 0
  PROVE  SharesFit(r)'
BY DEF SharesFit, Waits, Live

(* Some of the places 2 .. n + 1, moved one place to the front. *)
LEMMA ShiftedPlaces ==
  ASSUME NEW n \in Nat, NEW S \in SUBSET (2 .. n + 1), NEW T,
         T = {j \in 1 .. n : j + 1 \in S}
  PROVE  Cardinality(T) = Cardinality(S)
<1>. DEFINE f == [j \in T |-> j + 1]
<1>1. T \in SUBSET (1 .. n)
  OBVIOUS
<1>2. IsFiniteSet(T)
  BY <1>1, SomePlaces
<1>3. f \in Bijection(T, S)
  <2>1. f \in [T -> S] /\ DOMAIN f = T
    OBVIOUS
  <2>2. \A i, j \in T : f[i] = f[j] => i = j
    BY <1>1
  <2>3. ASSUME NEW x \in S PROVE \E j \in T : f[j] = x
    <3>1. x \in 2 .. n + 1
      OBVIOUS
    <3>2. x - 1 \in 1 .. n /\ (x - 1) + 1 = x
      BY <3>1
    <3>3. x - 1 \in T
      BY <3>2
    <3>4. QED
      BY <3>2, <3>3
  <2>. HIDE DEF f
  <2>4. f \in Injection(T, S)
    BY <2>1, <2>2 DEF Injection, IsInjective
  <2>5. f \in Surjection(T, S)
    BY <2>1, <2>3 DEF Surjection
  <2>6. QED
    BY <2>4, <2>5 DEF Bijection
<1>4. ExistsBijection(T, S)
  BY <1>3 DEF ExistsBijection
<1>5. QED
  BY <1>2, <1>4, FS_Bijection

(* The actions that touch a request's shares. *)

LEMMA SharesHanded ==
  ASSUME Configured, Typed, SharesInv, EndSchedule
  PROVE  SharesInv'
<1>. SUFFICES ASSUME NEW r \in Req PROVE SharesFit(r)'
  BY DEF SharesInv
<1>1. /\ device' = Append(device, batch) /\ batch'[r] = "none"
      /\ status' = status /\ stale' = stale /\ drop' = drop
  BY DEF EndSchedule, staleVars, NoStep
<1>2. device \in Seq([Req -> Work]) /\ batch \in [Req -> Work] /\ SharesFit(r)
  BY DEF Typed, StepsTyped, SharesInv
<1>3. /\ DOMAIN device = 1 .. Len(device) /\ DOMAIN device' = 1 .. Len(device) + 1
      /\ Len(device) \in Nat /\ device'[Len(device) + 1] = batch
      /\ \A i \in 1 .. Len(device) : device'[i] = device[i]
  BY <1>1, <1>2
<1>4. Waits(r)' = Waits(r)
  BY <1>1 DEF Waits, Live
<1>5. ASSUME batch[r] = "none" PROVE InFlight(r)' = InFlight(r)
  <2>1. {i \in DOMAIN device' : device'[i][r] # "none"} = {i \in DOMAIN device : device[i][r] # "none"}
    BY <1>3, <1>5
  <2>2. QED
    BY <2>1 DEF InFlight
<1>6. \A i \in DOMAIN device : Upto(r, i)' = Upto(r, i)
  BY <1>3 DEF Upto
<1>7. ASSUME status[r] = "running", NEW i \in DOMAIN device', device'[i][r] = "sample",
             Cardinality(Upto(r, i)') > stale[r], NEW j \in DOMAIN device', j > i
      PROVE  device'[j][r] = "none"
  <2>1. i \in DOMAIN device
    BY <1>3, <1>7
  <2>2. device[i][r] = "sample" /\ Cardinality(Upto(r, i)) > stale[r]
    BY <1>3, <1>6, <1>7, <2>1
  <2>3. batch[r] = "none" /\ \A k \in DOMAIN device : k > i => device[k][r] = "none"
    BY <1>2, <1>7, <2>1, <2>2 DEF SharesFit
  <2>4. j = Len(device) + 1 \/ j \in DOMAIN device
    BY <1>3, <1>7
  <2>5. QED
    BY <1>3, <1>7, <2>3, <2>4
<1>8. QED
  BY <1>1, <1>2, <1>4, <1>5, <1>7 DEF SharesFit

LEMMA SharesTaken ==
  ASSUME Configured, Typed, SharesInv, NEW r \in Req, NEW stop \in BOOLEAN, TakeOutput(r, stop)
  PROVE  /\ SharesInv'
         /\ stop /\ status[r] # "running" => status[r] # "remote" /\ r \notin Resumable
<1>1. /\ device[1][r] # "none" /\ device # <<>>
      /\ stop => /\ device[1][r] = "sample" /\ Live(r)
                 /\ stale[r] > 0 => ~drop[r]
      /\ device' = [device EXCEPT ![1] = [@ EXCEPT ![r] = "none"]]
      /\ stale' = [stale EXCEPT ![r] = IF Live(r) /\ stale[r] > 0 THEN @ - 1 ELSE @]
      /\ drop' = drop /\ batch' = batch
  BY DEF TakeOutput, Typed, StepsTyped
<1>2. /\ device \in Seq([Req -> Work]) /\ stale \in [Req -> 0 .. MaxBatches]
      /\ status \in [Req -> Statuses]
  BY DEF Typed, StepsTyped, StatusTyped
<1>3. /\ 1 \in DOMAIN device /\ DOMAIN device = 1 .. Len(device) /\ DOMAIN device' = DOMAIN device
      /\ device[1] \in [Req -> Work]
      /\ Len(device) \in Nat
  BY <1>1, <1>2
<1>4. \A i \in DOMAIN device, x \in Req :
        device'[i][x] = IF i = 1 /\ x = r THEN "none" ELSE device[i][x]
  BY <1>1, <1>3
<1>5. /\ ~stop => status' = status
      /\ stop /\ status[r] = "running" =>
           \E s \in {"waiting", "streaming", "finished", "gone"} : status' = [status EXCEPT ![r] = s]
      /\ stop /\ r \notin Resumable =>
           \E s \in {"finished", "gone"} : status' = [status EXCEPT ![r] = s]
      /\ stop => \E s \in Statuses : status' = [status EXCEPT ![r] = s]
  BY DEF TakeOutput, _handle_stopped_request, ContinueSession, FinishStopped, Statuses
<1>6. ASSUME NEW x \in Req, x # r PROVE SharesFit(x)'
  <2>1. status'[x] = status[x]
    BY <1>2, <1>5, <1>6
  <2>2. stale'[x] = stale[x]
    BY <1>1, <1>2, <1>6
  <2>3. QED
    BY <1>1, <1>3, <1>4, <1>6, <2>1, <2>2, SharesUnchanged DEF SharesInv
<1>7. SharesFit(r) /\ stale[r] \in Nat
      /\ stale'[r] = IF Live(r) /\ stale[r] > 0 THEN stale[r] - 1 ELSE stale[r]
  BY <1>1, <1>2 DEF SharesInv
<1>8. /\ InFlight(r) \in Nat \ {0} /\ InFlight(r)' = InFlight(r) - 1
      /\ \A i \in DOMAIN device : /\ Cardinality(Upto(r, i)) \in Nat
                                   /\ Cardinality(Upto(r, i)') = Cardinality(Upto(r, i)) - 1
  <2>1. Cardinality(Upto(r, 1)) > 0 /\ Cardinality(Upto(r, 1)) <= InFlight(r) /\ InFlight(r) \in Nat
        /\ Cardinality(Upto(r, 1)) \in Nat
    BY <1>1, <1>3, UptoFacts
  <2>. DEFINE shares == {i \in DOMAIN device : device[i][r] # "none"}
  <2>2. shares \in SUBSET (1 .. Len(device)) /\ 1 \in shares
    BY <1>1, <1>3
  <2>3. IsFiniteSet(shares)
    <3>. HIDE DEF shares
    <3>1. QED
      BY <1>3, <2>2, SomePlaces
  <2>4. {i \in DOMAIN device' : device'[i][r] # "none"} = shares \ {1}
    BY <1>3, <1>4
  <2>5. Cardinality(shares \ {1}) = Cardinality(shares) - 1
    <3>. HIDE DEF shares
    <3>1. QED
      BY <2>2, <2>3, FS_RemoveElement
  <2>6. InFlight(r)' = InFlight(r) - 1
    BY <2>4, <2>5 DEF InFlight
  <2>7. ASSUME NEW i \in DOMAIN device
        PROVE  /\ Cardinality(Upto(r, i)) \in Nat
               /\ Cardinality(Upto(r, i)') = Cardinality(Upto(r, i)) - 1
    <3>1. IsFiniteSet(Upto(r, i)) /\ Cardinality(Upto(r, i)) \in Nat
      BY UptoFacts
    <3>2. 1 \in Upto(r, i)
      BY <1>1, <1>3 DEF Upto
    <3>3. Upto(r, i)' = Upto(r, i) \ {1}
      BY <1>3, <1>4 DEF Upto
    <3>4. QED
      BY <3>1, <3>2, <3>3, FS_RemoveElement
  <2>8. InFlight(r) # 0
    BY <2>1
  <2>9. QED
    BY <2>1, <2>6, <2>7, <2>8
<1>9. CASE ~Live(r)
  <2>1. ~stop /\ status[r] # "absent"
    BY <1>1, <1>7, <1>8, <1>9 DEF SharesFit
  <2>2. status'[r] \in {"finished", "gone"} /\ stale'[r] = stale[r]
    BY <1>5, <1>7, <1>9, <2>1 DEF Live
  <2>3. SharesFit(r)'
    BY <1>7, <2>2, SharesEnded DEF SharesFit
  <2>4. QED
    BY <1>6, <2>1, <2>3 DEF SharesInv
<1>10. CASE Waits(r)
  <2>1. /\ Live(r) /\ stale[r] = InFlight(r) /\ stale[r] > 0 /\ MayPreempt /\ Resumable = {}
        /\ stale'[r] = InFlight(r)' /\ batch[r] = "none"
    BY <1>7, <1>8, <1>10 DEF SharesFit, Waits, Configured
  <2>2. stop => status[r] # "remote"
    BY <1>1, <1>7, <2>1 DEF SharesFit
  <2>3. CASE stop
    <3>1. status'[r] \in {"finished", "gone"}
      BY <1>2, <1>5, <2>1, <2>3
    <3>2. SharesFit(r)'
      BY <2>1, <3>1, SharesEnded
    <3>3. QED
      BY <1>6, <2>1, <2>2, <3>2 DEF SharesInv
  <2>4. CASE ~stop
    <3>1. status' = status /\ Waits(r)'
      BY <1>5, <1>10, <2>4 DEF Waits, Live
    <3>2. SharesFit(r)'
      BY <1>1, <1>7, <1>10, <2>1, <3>1 DEF SharesFit, Waits, Live
    <3>3. QED
      BY <1>6, <2>4, <3>2 DEF SharesInv
  <2>5. QED
    BY <2>3, <2>4
<1>11. CASE status[r] = "running"
  <2>1. Live(r) /\ (stale[r] = 0 \/ drop[r])
    BY <1>7, <1>11 DEF Live, SharesFit
  <2>2. CASE ~stop
    <3>1. status' = status
      BY <1>5, <2>2
    <3>2. ASSUME NEW i \in DOMAIN device', device'[i][r] = "sample", Cardinality(Upto(r, i)') > stale'[r]
          PROVE  batch'[r] = "none" /\ \A j \in DOMAIN device' : j > i => device'[j][r] = "none"
      <4>1. i \in DOMAIN device /\ i # 1 /\ device[i][r] = "sample"
        BY <1>3, <1>4, <3>2
      <4>2. Cardinality(Upto(r, i)) > stale[r]
        BY <1>7, <1>8, <2>1, <3>2, <4>1
      <4>3. batch[r] = "none" /\ \A j \in DOMAIN device : j > i => device[j][r] = "none"
        BY <1>7, <1>11, <4>1, <4>2 DEF SharesFit
      <4>4. QED
        BY <1>1, <1>3, <1>4, <4>3
    <3>3. stale'[r] = 0 \/ drop'[r]
      BY <1>1, <1>7, <2>1
    <3>4. ~MayPreempt => stale'[r] = 0
      BY <1>7 DEF SharesFit
    <3>5. SharesFit(r)'
      BY <1>11, <3>1, <3>2, <3>3, <3>4 DEF SharesFit, Waits
    <3>6. QED
      BY <1>6, <2>2, <3>5 DEF SharesInv
  <2>3. CASE stop
    <3>1. stale[r] = 0 /\ stale'[r] = 0
      BY <1>1, <1>7, <2>1, <2>3
    <3>2. Cardinality(Upto(r, 1)) > stale[r]
      BY <1>1, <1>3, <3>1, UptoFacts
    <3>3. batch[r] = "none" /\ \A j \in DOMAIN device : j > 1 => device[j][r] = "none"
      BY <1>1, <1>3, <1>7, <1>11, <2>3, <3>2 DEF SharesFit
    <3>4. InFlight(r)' = 0
      <4>1. {i \in DOMAIN device' : device'[i][r] # "none"} = {}
        BY <1>3, <1>4, <3>3
      <4>2. QED
        BY <4>1, FS_EmptySet DEF InFlight
    <3>5. status'[r] \in {"waiting", "streaming", "finished", "gone"}
      BY <1>2, <1>5, <1>11, <2>3
    <3>6. SharesFit(r)'
      BY <1>1, <3>1, <3>3, <3>4, <3>5 DEF SharesFit
    <3>7. QED
      BY <1>6, <1>11, <3>6 DEF SharesInv
  <2>4. QED
    BY <2>2, <2>3
<1>12. QED
  BY <1>9, <1>10, <1>11 DEF Waits

LEMMA SharesDropped ==
  ASSUME Typed, SharesInv, NEW received, NEW done, _update_from_kv_xfer_finished(received, done)
  PROVE  SharesInv'
<1>. SUFFICES ASSUME NEW r \in Req PROVE SharesFit(r)'
  BY DEF SharesInv
<1>1. /\ device' = Tail(device) /\ batch' = batch /\ stale' = stale /\ drop' = drop /\ phase = "xfer"
      /\ status' = [x \in Req |-> IF status[x] = "finished" /\ x \in received \cup done
                                  THEN "gone" ELSE status[x]]
  BY DEF _update_from_kv_xfer_finished, staleVars
<1>2. device \in Seq([Req -> Work]) /\ device # <<>> /\ device[1][r] = "none" /\ SharesFit(r)
  BY <1>1 DEF Typed, StepsTyped, SharesInv
<1>. DEFINE n == Len(device) - 1
<1>3. /\ DOMAIN device = 1 .. n + 1 /\ DOMAIN device' = 1 .. n /\ n \in Nat
      /\ \A i \in 1 .. n : device'[i] = device[i + 1] /\ i + 1 \in DOMAIN device
  BY <1>1, <1>2
<1>. HIDE DEF n
<1>4. InFlight(r)' = InFlight(r)
  <2>1. {i \in DOMAIN device : device[i][r] # "none"} \in SUBSET (2 .. n + 1)
    BY <1>2, <1>3
  <2>2. {i \in DOMAIN device' : device'[i][r] # "none"}
          = {j \in 1 .. n : j + 1 \in {i \in DOMAIN device : device[i][r] # "none"}}
    BY <1>3
  <2>3. QED
    BY <1>3, <2>1, <2>2, ShiftedPlaces DEF InFlight
<1>5. ASSUME NEW i \in 1 .. n PROVE Cardinality(Upto(r, i)') = Cardinality(Upto(r, i + 1))
  <2>1. Upto(r, i + 1) \in SUBSET (2 .. i + 1)
    BY <1>2 DEF Upto
  <2>2. Upto(r, i)' = {j \in 1 .. i : j + 1 \in Upto(r, i + 1)}
    BY <1>3 DEF Upto
  <2>3. QED
    BY <2>1, <2>2, ShiftedPlaces
<1>6. CASE status'[r] = status[r]
  <2>1. Waits(r)' = Waits(r)
    BY <1>6 DEF Waits, Live
  <2>2. ASSUME status[r] = "running", NEW i \in DOMAIN device', device'[i][r] = "sample",
               Cardinality(Upto(r, i)') > stale[r]
        PROVE  batch[r] = "none" /\ \A j \in DOMAIN device' : j > i => device'[j][r] = "none"
    <3>1. i \in 1 .. n /\ i + 1 \in DOMAIN device /\ device[i + 1][r] = "sample"
      BY <1>3, <2>2
    <3>2. Cardinality(Upto(r, i + 1)) > stale[r]
      BY <1>5, <2>2, <3>1
    <3>3. batch[r] = "none" /\ \A j \in DOMAIN device : j > i + 1 => device[j][r] = "none"
      BY <1>2, <2>2, <3>1, <3>2 DEF SharesFit
    <3>4. ASSUME NEW j \in DOMAIN device', j > i PROVE device'[j][r] = "none"
      <4>1. j + 1 \in DOMAIN device /\ j + 1 > i + 1 /\ device'[j] = device[j + 1]
        BY <1>3, <3>1, <3>4
      <4>2. QED
        BY <3>3, <4>1
    <3>5. QED
      BY <3>3, <3>4
  <2>3. QED
    BY <1>1, <1>2, <1>4, <1>6, <2>1, <2>2 DEF SharesFit
<1>7. CASE status'[r] # status[r]
  <2>1. status'[r] = "gone"
    BY <1>1, <1>7
  <2>2. QED
    BY <1>1, <1>2, <2>1, SharesEnded DEF SharesFit
<1>8. QED
  BY <1>6, <1>7

LEMMA SharesPreempted ==
  ASSUME Configured, Typed, SharesInv, MayPreempt, NEW R \in SUBSET Req, NEW drops \in BOOLEAN,
         _preempt_request(R, drops), UNCHANGED <<batch, device>>, \A r \in R : batch[r] = "none"
  PROVE  SharesInv'
<1>. SUFFICES ASSUME NEW r \in Req PROVE SharesFit(r)'
  BY DEF SharesInv
<1>1. /\ status' = [x \in Req |-> IF x \in R THEN "preempted" ELSE status[x]]
      /\ stale' = [x \in Req |-> IF x \in R THEN InFlight(x) ELSE stale[x]]
      /\ drop' = [x \in Req |-> IF x \in R THEN drops \/ (drop[x] /\ stale[x] > 0) ELSE drop[x]]
  BY DEF _preempt_request
<1>2. CASE r \in R
  <2>1. status'[r] = "preempted" /\ stale'[r] = InFlight(r) /\ batch'[r] = "none"
    BY <1>1, <1>2
  <2>2. InFlight(r)' = InFlight(r)
    BY DEF InFlight
  <2>3. QED
    BY <2>1, <2>2 DEF SharesFit
<1>3. CASE r \notin R
  <2>1. status'[r] = status[r] /\ stale'[r] = stale[r] /\ drop'[r] = drop[r]
    BY <1>1, <1>3
  <2>2. QED
    BY <2>1, SharesUnchanged DEF SharesInv
<1>4. QED
  BY <1>2, <1>3

LEMMA SharesScheduled ==
  ASSUME Typed, SharesInv, NEW s \in Req, NEW work, ScheduleRunning(s, work)
  PROVE  SharesInv'
<1>. SUFFICES ASSUME NEW r \in Req PROVE SharesFit(r)'
  BY DEF SharesInv
<1>1. /\ status[s] = "running" /\ HasNewTokens(s) /\ batch' = [batch EXCEPT ![s] = work]
      /\ device' = device /\ status' = status /\ stale' = stale /\ drop' = drop
  BY DEF ScheduleRunning, staleVars
<1>2. batch \in [Req -> Work] /\ SharesFit(r) /\ SharesFit(s)
  BY DEF Typed, StepsTyped, SharesInv
<1>3. CASE r = s
  <2>1. ASSUME NEW i \in DOMAIN device, device[i][r] = "sample"
        PROVE  Cardinality(Upto(r, i)) <= stale[r]
    BY <1>1, <1>3, <2>1 DEF HasNewTokens, Upto
  <2>2. \A i \in DOMAIN device : Cardinality(Upto(r, i)) \in Nat /\ Upto(r, i)' = Upto(r, i)
    BY <1>1, UptoFacts DEF Upto
  <2>3. stale[r] \in Nat
    BY DEF Typed, StepsTyped
  <2>4. \A i \in DOMAIN device : ~(device[i][r] = "sample" /\ Cardinality(Upto(r, i)) > stale[r])
    BY <2>1, <2>2, <2>3
  <2>5. QED
    BY <1>1, <1>2, <1>3, <2>2, <2>4 DEF SharesFit, Waits
<1>4. CASE r # s
  <2>1. batch'[r] = batch[r]
    BY <1>1, <1>2, <1>4
  <2>2. QED
    BY <1>1, <1>2, <2>1, SharesUnchanged
<1>5. QED
  BY <1>3, <1>4

(* All shares of a request that waits belong to earlier residencies. *)
LEMMA SharesAdmitted ==
  ASSUME Typed, SharesInv, NEW s \in Req, NEW work, Admit(s, work), Waits(s)
  PROVE  SharesInv'
<1>. SUFFICES ASSUME NEW r \in Req PROVE SharesFit(r)'
  BY DEF SharesInv
<1>1. /\ may_resume(s) /\ batch' = [batch EXCEPT ![s] = work]
      /\ status' = [status EXCEPT ![s] = "running"]
      /\ device' = device /\ stale' = stale /\ drop' = drop
  BY DEF Admit, staleVars
<1>2. batch \in [Req -> Work] /\ SharesFit(r) /\ SharesFit(s) /\ status \in [Req -> Statuses]
  BY DEF Typed, StepsTyped, SharesInv, StatusTyped
<1>3. CASE r = s
  <2>1. InFlight(r) = stale[r] /\ (stale[r] = 0 \/ drop[r])
    BY <1>1, <1>2, <1>3 DEF SharesFit, may_resume
  <2>2. \A i \in DOMAIN device : /\ Cardinality(Upto(r, i)) \in Nat /\ Upto(r, i)' = Upto(r, i)
                                /\ Cardinality(Upto(r, i)) <= InFlight(r) /\ InFlight(r) \in Nat
    BY <1>1, UptoFacts DEF Upto
  <2>3. \A i \in DOMAIN device : ~(Cardinality(Upto(r, i)) > stale[r])
    BY <2>1, <2>2
  <2>4. status'[r] = "running"
    BY <1>1, <1>2, <1>3
  <2>5. QED
    BY <1>1, <1>2, <2>1, <2>2, <2>3, <2>4 DEF SharesFit, Waits
<1>4. CASE r # s
  <2>1. batch'[r] = batch[r] /\ status'[r] = status[r]
    BY <1>1, <1>2, <1>4
  <2>2. QED
    BY <1>1, <1>2, <2>1, SharesUnchanged
<1>5. QED
  BY <1>3, <1>4

-----------------------------------------------------------------------------
(* Which queue lists a request. *)

LEMMA ListedInit == Init => Listed
<1>. SUFFICES ASSUME Init PROVE Listed
  OBVIOUS
<1>1. /\ running = <<>> /\ waiting = <<>> /\ skipped_waiting = <<>> /\ step_skipped = <<>>
      /\ stopped_running = {} /\ stopped_preempted = {}
      /\ \A r \in Req : status[r] = "absent"
  BY DEF Init
<1>. DEFINE none == <<>>
<1>2. DOMAIN none = {}
  OBVIOUS
<1>. HIDE DEF none
<1>3. Range(none) = {} /\ IsInjective(none)
  BY <1>2 DEF Range, IsInjective
<1>4. /\ Range(running) = {} /\ Range(waiting) = {} /\ Range(skipped_waiting) = {} /\ Range(step_skipped) = {}
      /\ IsInjective(running) /\ IsInjective(waiting)
      /\ IsInjective(skipped_waiting) /\ IsInjective(step_skipped)
  BY <1>1, <1>3 DEF none
<1>5. QED
  BY <1>1, <1>4 DEF Listed, Waits, Live, _is_blocked_waiting_status

(* The waiting pass looks at the heads of the queues. *)
LEMMA SelectedWaits ==
  ASSUME Configured, Typed, Listed, phase = "waiting", NEW r \in Selected
  PROVE  /\ r \in Req /\ Waits(r) /\ r \notin Range(running) /\ r \notin Range(step_skipped)
         /\ r \in Range(waiting) \cup Range(skipped_waiting)
         /\ r \in Range(skipped_waiting) => skipped_waiting # <<>> /\ r = Head(skipped_waiting)
         /\ r \notin Range(skipped_waiting) => waiting # <<>> /\ r = Head(waiting)
<1>1. ListsTyped /\ stopped_running = {} /\ stopped_preempted = {}
  BY DEF Typed, HandlersTidy
<1>2. r \in Heads
  BY DEF Selected, Configured
<1>3. /\ waiting \in Seq(Req) /\ skipped_waiting \in Seq(Req)
      /\ Range(waiting) \subseteq Req /\ Range(skipped_waiting) \subseteq Req
  BY <1>1 DEF ListsTyped, Range
<1>4. CASE skipped_waiting # <<>>
  <2>1. r = Head(skipped_waiting) /\ r \in Range(skipped_waiting)
    BY <1>2, <1>3, <1>4, TailLists DEF Heads
  <2>2. QED
    BY <1>1, <1>3, <1>4, <2>1 DEF Listed, Waits
<1>5. CASE skipped_waiting = <<>>
  <2>1. waiting # <<>> /\ r = Head(waiting) /\ r \in Range(waiting)
    BY <1>2, <1>3, <1>5, TailLists DEF Heads
  <2>2. r \notin Range(skipped_waiting)
    BY <2>1 DEF Listed
  <2>3. QED
    BY <1>1, <1>3, <2>1, <2>2 DEF Listed, Waits
<1>6. QED
  BY <1>4, <1>5

LEMMA ListedUnchanged ==
  ASSUME Listed, UNCHANGED <<status, queueVars, stopVars>>
  PROVE  Listed'
BY DEF Listed, Waits, Live, queueVars, stopVars

(* A request changes its standing where it is queued, not between running  *)
(* and waiting, and is not blocked then, or blocked as before.             *)
LEMMA ListedPromoted ==
  ASSUME Typed, Listed, NEW r \in Req, Waits(r), NEW s \in Statuses, status' = [status EXCEPT ![r] = s],
         s \in {"waiting", "preempted"} \/ s = status[r],
         UNCHANGED <<queueVars, stopVars>>
  PROVE  Listed'
<1>1. \A x \in Req : status'[x] = IF x = r THEN s ELSE status[x]
  BY DEF Typed, StatusTyped
<1>2. \A x \in Req : (Live(x)' <=> Live(x)) /\ (Waits(x)' <=> Waits(x))
  BY <1>1 DEF Waits, Live
<1>3. \A x \in Req : _is_blocked_waiting_status(status'[x]) => _is_blocked_waiting_status(status[x])
  BY <1>1 DEF _is_blocked_waiting_status
<1>4. \A x \in Req : status'[x] = "running" <=> status[x] = "running"
  BY <1>1 DEF Waits
<1>5. QED
  BY <1>2, <1>3, <1>4 DEF Listed, queueVars, stopVars

LEMMA ListedAdded ==
  ASSUME Typed, Listed, phase = "idle", NEW r \in Req, NewRequest(r),
         UNCHANGED <<running, step_skipped, stopVars>>
  PROVE  Listed'
<1>1. /\ ListsTyped /\ status[r] = "absent" /\ ~Live(r)
      /\ stopped_running = {} /\ stopped_preempted = {} /\ step_skipped = <<>>
      /\ stopped_running' = {} /\ stopped_preempted' = {}
  BY DEF Typed, HandlersTidy, NewRequest, Live, stopVars
<1>2. r \notin Range(running) /\ r \notin Range(waiting) /\ r \notin Range(skipped_waiting)
      /\ r \notin Range(step_skipped)
  BY <1>1 DEF Listed, Waits
<1>3. \A x \in Req : x # r => status'[x] = status[x]
  BY DEF NewRequest, Typed, StatusTyped
<1>4. CASE status' = [status EXCEPT ![r] = "grammar"] /\ skipped_waiting' = Append(skipped_waiting, r)
           /\ waiting' = waiting
  <2>1. Range(skipped_waiting') = Range(skipped_waiting) \cup {r} /\ IsInjective(skipped_waiting')
    BY <1>1, <1>2, <1>4, AppendLists DEF Listed, ListsTyped
  <2>2. status'[r] = "grammar"
    BY <1>4 DEF Typed, StatusTyped
  <2>3. QED
    BY <1>1, <1>2, <1>3, <1>4, <2>1, <2>2 DEF Listed, Waits, Live
<1>5. CASE status' = [status EXCEPT ![r] = "waiting"] /\ waiting' = Append(waiting, r)
           /\ skipped_waiting' = skipped_waiting
  <2>1. Range(waiting') = Range(waiting) \cup {r} /\ IsInjective(waiting')
    BY <1>1, <1>2, <1>5, AppendLists DEF Listed, ListsTyped
  <2>2. status'[r] = "waiting"
    BY <1>5 DEF Typed, StatusTyped
  <2>3. QED
    BY <1>1, <1>2, <1>3, <1>5, <2>1, <2>2 DEF Listed, Waits, Live, _is_blocked_waiting_status
<1>6. QED
  BY <1>4, <1>5 DEF NewRequest

(* Requests that end leave the queues. *)
LEMMA ListedEnded ==
  ASSUME Typed, Listed, NEW S \in SUBSET Req, phase # "update", phase # "waiting",
         \A r \in S : Live(r),
         running' = Without(running, S) \/ (running' = running /\ Range(running) \cap S = {}),
         waiting' = Without(waiting, S), skipped_waiting' = Without(skipped_waiting, S),
         \A r \in S : status'[r] \in {"finished", "gone"},
         \A r \in Req \ S : status'[r] = status[r],
         UNCHANGED <<step_skipped, stopVars>>
  PROVE  Listed'
<1>1. /\ ListsTyped
      /\ stopped_running = {} /\ stopped_preempted = {} /\ step_skipped = <<>>
      /\ stopped_running' = {} /\ stopped_preempted' = {} /\ step_skipped' = step_skipped
  BY DEF Typed, HandlersTidy, stopVars
<1>2. Range(step_skipped) = {}
  <2>1. DOMAIN step_skipped = {}
    BY <1>1
  <2>2. QED
    BY <2>1 DEF Range
<1>3. /\ Range(running') = Range(running) \ S /\ IsInjective(running')
      /\ Range(waiting') = Range(waiting) \ S /\ IsInjective(waiting')
      /\ Range(skipped_waiting') = Range(skipped_waiting) \ S /\ IsInjective(skipped_waiting')
  BY <1>1, WithoutLists DEF Listed, ListsTyped
<1>4. \A r \in Req : r \in S => ~Live(r)' /\ ~Waits(r)' /\ status'[r] # "running"
                                /\ ~_is_blocked_waiting_status(status'[r])
  BY DEF Waits, Live, _is_blocked_waiting_status
<1>5. \A r \in Req : r \notin S => (Live(r)' <=> Live(r)) /\ (Waits(r)' <=> Waits(r))
  BY DEF Waits, Live
<1>6. QED
  BY <1>1, <1>2, <1>3, <1>4, <1>5 DEF Listed

LEMMA ListedFinished ==
  ASSUME Typed, Listed, NEW R \in SUBSET Req, NEW sends, finish_requests(R, sends),
         phase # "update", phase # "waiting", UNCHANGED <<step_skipped, stopVars>>
  PROVE  Listed'
<1>. DEFINE S == {r \in R : Live(r)}
<1>1. /\ running' = Without(running, S) /\ waiting' = Without(waiting, S)
      /\ skipped_waiting' = Without(skipped_waiting, S)
      /\ status' = [r \in Req |-> IF r \notin S THEN status[r]
                                  ELSE IF delay_free_blocks(r, sends) THEN "finished" ELSE "gone"]
  BY DEF finish_requests
<1>2. S \in SUBSET Req /\ \A r \in S : Live(r)
  OBVIOUS
<1>. HIDE DEF S
<1>3. /\ \A r \in S : status'[r] \in {"finished", "gone"}
      /\ \A r \in Req \ S : status'[r] = status[r]
  BY <1>1, <1>2
<1>4. QED
  BY <1>1, <1>2, <1>3, ListedEnded

LEMMA ListedUpdated ==
  ASSUME Typed, Listed, phase = "idle", NEW r \in Req, UpdateSession(r),
         UNCHANGED <<running, step_skipped, stopVars>>
  PROVE  Listed'
<1>1. \/ UNCHANGED <<status, waiting, skipped_waiting>>
      \/ /\ status[r] = "streaming" /\ status' = [status EXCEPT ![r] = "waiting"]
         /\ UNCHANGED <<waiting, skipped_waiting>>
      \/ /\ status[r] = "streaming"
         /\ \E s \in {"finished", "gone"} : status' = [status EXCEPT ![r] = s]
         /\ waiting' = Without(waiting, {r}) /\ skipped_waiting' = Without(skipped_waiting, {r})
  BY DEF UpdateSession
<1>2. CASE UNCHANGED <<status, waiting, skipped_waiting>>
  BY <1>2, ListedUnchanged DEF queueVars
<1>3. CASE /\ status[r] = "streaming" /\ status' = [status EXCEPT ![r] = "waiting"]
           /\ UNCHANGED <<waiting, skipped_waiting>>
  <2>1. Waits(r) /\ "waiting" \in Statuses
    BY <1>3 DEF Waits, Live, Statuses
  <2>2. QED
    BY <1>3, <2>1, ListedPromoted DEF queueVars
<1>4. CASE /\ status[r] = "streaming"
           /\ \E s \in {"finished", "gone"} : status' = [status EXCEPT ![r] = s]
           /\ waiting' = Without(waiting, {r}) /\ skipped_waiting' = Without(skipped_waiting, {r})
  <2>1. Live(r) /\ r \notin Range(running)
    BY <1>4 DEF Live, Listed, Typed, HandlersTidy
  <2>2. status'[r] \in {"finished", "gone"} /\ \A x \in Req \ {r} : status'[x] = status[x]
    BY <1>4 DEF Typed, StatusTyped
  <2>3. {r} \in SUBSET Req /\ Range(running) \cap {r} = {} /\ \A x \in {r} : Live(x)
    BY <2>1
  <2>4. QED
    BY <1>4, <2>2, <2>3, ListedEnded
<1>5. QED
  BY <1>1, <1>2, <1>3, <1>4

LEMMA ListedPreempted ==
  ASSUME Typed, Listed, phase # "update", NEW R \in SUBSET Req, NEW drops, _preempt_request(R, drops),
         UNCHANGED stopVars
  PROVE  Listed'
<1>1. /\ \A r \in R : status[r] = "running"
      /\ running' = Without(running, R)
      /\ waiting' = Without(running, Req \ R) \o waiting
      /\ status' = [r \in Req |-> IF r \in R THEN "preempted" ELSE status[r]]
      /\ UNCHANGED <<skipped_waiting, step_skipped>>
  BY DEF _preempt_request
<1>2. /\ ListsTyped
      /\ stopped_running = {} /\ stopped_preempted = {}
      /\ stopped_running' = {} /\ stopped_preempted' = {}
  BY DEF Typed, HandlersTidy, stopVars
<1>3. /\ Range(running') = Range(running) \ R /\ IsInjective(running')
      /\ Range(Without(running, Req \ R)) = Range(running) \ (Req \ R)
      /\ IsInjective(Without(running, Req \ R)) /\ Without(running, Req \ R) \in Seq(Req)
  BY <1>1, <1>2, WithoutLists DEF Listed, ListsTyped
<1>4. \A r \in Req : /\ r \in Range(running) <=> status[r] = "running"
                     /\ r \in Range(waiting) \cup Range(skipped_waiting) \cup Range(step_skipped) <=> Waits(r)
  BY <1>2 DEF Listed
<1>5. Range(Without(running, Req \ R)) = R /\ R \cap Range(waiting) = {}
      /\ R \cap Range(skipped_waiting) = {} /\ R \cap Range(step_skipped) = {}
  <2>1. Range(running) \subseteq Req
    BY <1>2 DEF ListsTyped, Range
  <2>2. QED
    BY <1>1, <1>3, <1>4, <2>1 DEF Waits
<1>6. Range(waiting') = R \cup Range(waiting) /\ IsInjective(waiting')
  BY <1>1, <1>2, <1>3, <1>5, ConcatLists DEF Listed, ListsTyped
<1>7. \A r \in Req : status'[r] = IF r \in R THEN "preempted" ELSE status[r]
  BY <1>1
<1>8. \A r \in Req :
        /\ status'[r] = "running" <=> status[r] = "running" /\ r \notin R
        /\ Waits(r)' <=> Waits(r) \/ r \in R
        /\ _is_blocked_waiting_status(status'[r]) => _is_blocked_waiting_status(status[r]) /\ r \notin R
  BY <1>7 DEF Waits, Live, _is_blocked_waiting_status
<1>9. QED
  BY <1>1, <1>2, <1>3, <1>4, <1>5, <1>6, <1>8 DEF Listed

(* The head of its queue is popped for r (SkipEncoderPending). *)
HeadPutAside(r) ==
  /\ step_skipped' = Append(step_skipped, r)
  /\ \/ r \in Range(skipped_waiting) /\ skipped_waiting' = Tail(skipped_waiting) /\ waiting' = waiting
     \/ r \notin Range(skipped_waiting) /\ waiting' = Tail(waiting) /\ skipped_waiting' = skipped_waiting

(* What the pass looks at and leaves goes to the queue of the skipped. *)
LEMMA ListedAside ==
  ASSUME Configured, Typed, Listed, phase = "waiting", NEW r \in Selected, NEW s \in Statuses,
         s \notin {"absent", "running", "finished", "gone"}, status' = [status EXCEPT ![r] = s],
         PutAside(r) \/ HeadPutAside(r),
         UNCHANGED <<running, stopVars>>
  PROVE  Listed'
<1>1. /\ ListsTyped /\ stopped_running = {} /\ stopped_preempted = {}
      /\ stopped_running' = {} /\ stopped_preempted' = {}
  BY DEF Typed, HandlersTidy, stopVars
<1>2. /\ r \in Req /\ Waits(r) /\ r \notin Range(running) /\ r \notin Range(step_skipped)
      /\ r \in Range(waiting) \cup Range(skipped_waiting)
      /\ r \in Range(skipped_waiting) => skipped_waiting # <<>> /\ r = Head(skipped_waiting)
      /\ r \notin Range(skipped_waiting) => waiting # <<>> /\ r = Head(waiting)
  BY SelectedWaits
<1>3. step_skipped' = Append(step_skipped, r)
  BY DEF PutAside, HeadPutAside
<1>4. Range(step_skipped') = Range(step_skipped) \cup {r} /\ IsInjective(step_skipped')
  BY <1>1, <1>2, <1>3, AppendLists DEF Listed, ListsTyped
<1>5. /\ Range(waiting') = Range(waiting) \ {r} /\ IsInjective(waiting')
      /\ Range(skipped_waiting') = Range(skipped_waiting) \ {r} /\ IsInjective(skipped_waiting')
  <2>1. CASE PutAside(r)
    BY <1>1, <2>1, WithoutLists DEF PutAside, Listed, ListsTyped
  <2>2. CASE r \in Range(skipped_waiting) /\ skipped_waiting' = Tail(skipped_waiting) /\ waiting' = waiting
    BY <1>1, <1>2, <2>2, TailLists DEF Listed, ListsTyped
  <2>3. CASE r \notin Range(skipped_waiting) /\ waiting' = Tail(waiting)
             /\ skipped_waiting' = skipped_waiting
    BY <1>1, <1>2, <2>3, TailLists DEF Listed, ListsTyped
  <2>4. QED
    BY <2>1, <2>2, <2>3 DEF HeadPutAside
<1>6. \A x \in Req : status'[x] = IF x = r THEN s ELSE status[x]
  BY DEF Typed, StatusTyped
<1>7. \A x \in Req :
        /\ status'[x] = "running" <=> status[x] = "running"
        /\ Waits(x)' <=> Waits(x)
        /\ _is_blocked_waiting_status(status'[x]) => _is_blocked_waiting_status(status[x]) \/ x = r
  BY <1>2, <1>6 DEF Waits, Live
<1>8. QED
  BY <1>1, <1>2, <1>4, <1>5, <1>7 DEF Listed

LEMMA ListedAdmitted ==
  ASSUME Configured, Typed, Listed, NEW r \in Req, NEW work, Admit(r, work)
  PROVE  Listed' /\ Waits(r)
<1>1. /\ waiting' = Without(waiting, {r}) /\ skipped_waiting' = Without(skipped_waiting, {r})
      /\ running' = Append(running, r) /\ status' = [status EXCEPT ![r] = "running"]
      /\ step_skipped' = step_skipped /\ phase = "waiting" /\ r \in Selected
      /\ stopped_running' = stopped_running /\ stopped_preempted' = stopped_preempted
  BY DEF Admit, Consider, stopVars
<1>2. ListsTyped /\ stopped_running = {} /\ stopped_preempted = {}
  BY <1>1 DEF Typed, HandlersTidy
<1>3. /\ Waits(r) /\ r \notin Range(running) /\ r \notin Range(step_skipped)
      /\ r \in Range(waiting) \cup Range(skipped_waiting)
  BY <1>1, SelectedWaits
<1>4. Range(running') = Range(running) \cup {r} /\ IsInjective(running')
  BY <1>1, <1>2, <1>3, AppendLists DEF Listed, ListsTyped
<1>5. /\ Range(waiting') = Range(waiting) \ {r} /\ IsInjective(waiting')
      /\ Range(skipped_waiting') = Range(skipped_waiting) \ {r} /\ IsInjective(skipped_waiting')
  BY <1>1, <1>2, WithoutLists DEF Listed, ListsTyped
<1>6. \A x \in Req : status'[x] = IF x = r THEN "running" ELSE status[x]
  BY <1>1 DEF Typed, StatusTyped
<1>7. \A x \in Req :
        /\ status'[x] = "running" <=> status[x] = "running" \/ x = r
        /\ Waits(x)' <=> Waits(x) /\ x # r
        /\ _is_blocked_waiting_status(status'[x]) => _is_blocked_waiting_status(status[x]) /\ x # r
  BY <1>3, <1>6 DEF Waits, Live, _is_blocked_waiting_status
<1>8. QED
  BY <1>1, <1>2, <1>3, <1>4, <1>5, <1>7 DEF Listed

(* What was skipped goes back in front. *)
LEMMA ListedRequeued ==
  ASSUME Typed, Listed, phase = "waiting", EndPass,
         \A r \in Req :
           \/ status'[r] = status[r]
           \/ Waits(r) /\ status'[r] \in {"waiting", "preempted"}
  PROVE  Listed'
<1>1. /\ running' = running /\ waiting' = waiting /\ step_skipped' = <<>>
      /\ skipped_waiting' = step_skipped \o skipped_waiting
      /\ stopped_running' = stopped_running /\ stopped_preempted' = stopped_preempted
  BY DEF EndPass, requeued, stopVars
<1>2. ListsTyped /\ stopped_running = {} /\ stopped_preempted = {}
  BY <1>1 DEF Typed, HandlersTidy
<1>3. /\ Range(skipped_waiting') = Range(step_skipped) \cup Range(skipped_waiting)
      /\ IsInjective(skipped_waiting')
  BY <1>1, <1>2, ConcatLists DEF Listed, ListsTyped
<1>4. Range(step_skipped') = {} /\ IsInjective(step_skipped')
  <2>1. DOMAIN step_skipped' = {}
    BY <1>1
  <2>2. QED
    BY <2>1 DEF Range, IsInjective
<1>5. \A x \in Req :
        /\ status'[x] = "running" <=> status[x] = "running"
        /\ Waits(x)' <=> Waits(x)
        /\ _is_blocked_waiting_status(status'[x]) => _is_blocked_waiting_status(status[x])
  BY DEF Waits, Live, _is_blocked_waiting_status
<1>6. QED
  BY <1>1, <1>2, <1>3, <1>4, <1>5 DEF Listed

(* A stopped request stays where it is queued until the handler ends, and  *)
(* a session that goes on is queued besides.                               *)
LEMMA ListedStopped ==
  ASSUME Configured, Typed, Listed, SharesInv, NEW r \in Req, TakeOutput(r, TRUE)
  PROVE  Listed'
<1>1. /\ phase = "update" /\ Live(r) /\ _handle_stopped_request(r)
      /\ running' = running /\ step_skipped' = step_skipped
      /\ IF status[r] = "running"
         THEN stopped_running' = stopped_running \cup {r} /\ stopped_preempted' = stopped_preempted
         ELSE stopped_preempted' = stopped_preempted \cup {r} /\ stopped_running' = stopped_running
  BY DEF TakeOutput
<1>2. ListsTyped /\ step_skipped = <<>> /\ status \in [Req -> Statuses]
  BY <1>1 DEF Typed, HandlersTidy, StatusTyped
<1>3. status[r] # "running" => r \notin Resumable
  BY SharesTaken
<1>4. \/ /\ status[r] = "running" /\ status' = [status EXCEPT ![r] = "waiting"]
         /\ waiting' = Append(waiting, r) /\ skipped_waiting' = skipped_waiting
      \/ /\ status[r] = "running" /\ status' = [status EXCEPT ![r] = "streaming"]
         /\ waiting' = waiting /\ skipped_waiting' = Append(skipped_waiting, r)
      \/ /\ \E s \in {"finished", "gone"} : status' = [status EXCEPT ![r] = s]
         /\ waiting' = waiting /\ skipped_waiting' = skipped_waiting
  BY <1>1, <1>3 DEF _handle_stopped_request, ContinueSession, FinishStopped
<1>5. \A x \in Req : x # r => /\ status'[x] = status[x]
                              /\ Live(x)' <=> Live(x)
                              /\ Waits(x)' <=> Waits(x)
  BY <1>2, <1>4 DEF Waits, Live
<1>6. CASE /\ status[r] = "running" /\ status' = [status EXCEPT ![r] = "waiting"]
           /\ waiting' = Append(waiting, r) /\ skipped_waiting' = skipped_waiting
  <2>1. r \notin Range(waiting) /\ r \notin Range(skipped_waiting) /\ r \notin Range(step_skipped)
        /\ r \in Range(running) /\ r \notin stopped_preempted
    BY <1>1, <1>6 DEF Listed, Waits
  <2>2. Range(waiting') = Range(waiting) \cup {r} /\ IsInjective(waiting')
    BY <1>2, <1>6, <2>1, AppendLists DEF Listed, ListsTyped
  <2>3. status'[r] = "waiting" /\ Waits(r)' /\ Live(r)' /\ ~_is_blocked_waiting_status(status'[r])
    BY <1>2, <1>6 DEF Waits, Live, _is_blocked_waiting_status
  <2>4. QED
    BY <1>1, <1>5, <1>6, <2>1, <2>2, <2>3 DEF Listed
<1>7. CASE /\ status[r] = "running" /\ status' = [status EXCEPT ![r] = "streaming"]
           /\ waiting' = waiting /\ skipped_waiting' = Append(skipped_waiting, r)
  <2>1. r \notin Range(waiting) /\ r \notin Range(skipped_waiting) /\ r \notin Range(step_skipped)
        /\ r \in Range(running) /\ r \notin stopped_preempted
    BY <1>1, <1>7 DEF Listed, Waits
  <2>2. Range(skipped_waiting') = Range(skipped_waiting) \cup {r} /\ IsInjective(skipped_waiting')
    BY <1>2, <1>7, <2>1, AppendLists DEF Listed, ListsTyped
  <2>3. status'[r] = "streaming" /\ Waits(r)' /\ Live(r)'
    BY <1>2, <1>7 DEF Waits, Live
  <2>4. QED
    BY <1>1, <1>5, <1>7, <2>1, <2>2, <2>3 DEF Listed
<1>8. CASE /\ \E s \in {"finished", "gone"} : status' = [status EXCEPT ![r] = s]
           /\ waiting' = waiting /\ skipped_waiting' = skipped_waiting
  <2>1. status'[r] \in {"finished", "gone"}
    BY <1>2, <1>8
  <2>2. ~Waits(r)' /\ ~Live(r)' /\ ~_is_blocked_waiting_status(status'[r]) /\ status'[r] # "running"
    BY <2>1 DEF Waits, Live, _is_blocked_waiting_status
  <2>3. status[r] # "running" => Waits(r)
    BY <1>1 DEF Waits
  <2>4. CASE status[r] = "running"
    <3>1. stopped_running' = stopped_running \cup {r} /\ stopped_preempted' = stopped_preempted
      BY <1>1, <2>4
    <3>2. r \notin stopped_preempted /\ ~Waits(r)
      BY <1>1, <2>4 DEF Listed, Waits
    <3>3. QED
      BY <1>1, <1>5, <1>8, <2>2, <2>4, <3>1, <3>2 DEF Listed
  <2>5. CASE status[r] # "running"
    <3>1. stopped_preempted' = stopped_preempted \cup {r} /\ stopped_running' = stopped_running
      BY <1>1, <2>5
    <3>2. QED
      BY <1>1, <1>5, <1>8, <2>2, <2>3, <2>5, <3>1 DEF Listed
  <2>6. QED
    BY <2>4, <2>5
<1>9. QED
  BY <1>4, <1>6, <1>7, <1>8

LEMMA ListedRemoved ==
  ASSUME Typed, Listed, RemoveStopped
  PROVE  Listed'
<1>1. /\ phase = "update" /\ running' = Without(running, stopped_running)
      /\ waiting' = Without(waiting, stopped_preempted)
      /\ skipped_waiting' = Without(skipped_waiting, stopped_preempted)
      /\ stopped_running' = {} /\ stopped_preempted' = {} /\ status' = status
      /\ step_skipped' = step_skipped
  BY DEF RemoveStopped
<1>2. ListsTyped /\ step_skipped = <<>>
  BY <1>1 DEF Typed, HandlersTidy
<1>3. /\ Range(running') = Range(running) \ stopped_running /\ IsInjective(running')
      /\ Range(waiting') = Range(waiting) \ stopped_preempted /\ IsInjective(waiting')
      /\ Range(skipped_waiting') = Range(skipped_waiting) \ stopped_preempted
      /\ IsInjective(skipped_waiting')
  BY <1>1, <1>2, WithoutLists DEF Listed, ListsTyped
<1>4. Range(step_skipped) = {}
  <2>1. DOMAIN step_skipped = {}
    BY <1>2
  <2>2. QED
    BY <2>1 DEF Range
<1>5. \A r \in Req : (Waits(r)' <=> Waits(r)) /\ (Waits(r) => Live(r))
  BY <1>1 DEF Waits, Live
<1>6. QED
  BY <1>1, <1>3, <1>4, <1>5 DEF Listed

-----------------------------------------------------------------------------
(* The slots of the model runner, and the completions of loads. *)

(* Sessions that wait for their client, and all who need a slot of the     *)
(* model runner.                                                           *)
Paused == {r \in Req : status[r] = "streaming"}
Holders == {r \in Req : status[r] \in {"running", "streaming"}}

Counted ==
  /\ Paused \subseteq Resumable
  /\ IsFiniteSet(Holders)
  /\ num_waiting_for_streaming_input = Cardinality(Paused)
  /\ Cardinality(Holders) <= MaxRunning

(* Loads reported complete or failed are waited for. *)
Awaited ==
  /\ finished_recving \cap recving = {}
  /\ \A r \in Req : r \in finished_recving \cup failed_recving => status[r] = "remote"

Placed == Typed /\ Listed /\ SharesInv /\ Counted /\ Awaited

LEMMA CountedInit == QueuesAssumption /\ Init => Counted
<1>. SUFFICES ASSUME QueuesAssumption, Init PROVE Counted
  OBVIOUS
<1>1. (\A r \in Req : status[r] = "absent") /\ num_waiting_for_streaming_input = 0
  BY DEF Init
<1>2. Paused = {} /\ Holders = {}
  BY <1>1 DEF Paused, Holders
<1>3. QED
  BY <1>1, <1>2, FS_EmptySet DEF Counted, QueuesAssumption

LEMMA CountedNumbers ==
  ASSUME Counted
  PROVE  /\ IsFiniteSet(Paused) /\ Paused \subseteq Holders
         /\ Cardinality(Paused) \in Nat /\ Cardinality(Holders) \in Nat
<1>1. Paused \subseteq Holders
  BY DEF Paused, Holders
<1>2. IsFiniteSet(Paused)
  BY <1>1, FS_Subset DEF Counted
<1>3. QED
  BY <1>1, <1>2, FS_CardinalityType DEF Counted

(* Requests and paused sessions that give up their slot. *)
LEMMA CountedLeft ==
  ASSUME Configured, Counted, NEW S, Paused' = Paused \ S, Holders' \subseteq Holders,
         num_waiting_for_streaming_input' =
           num_waiting_for_streaming_input - Cardinality(Paused \cap S)
  PROVE  Counted'
<1>1. /\ IsFiniteSet(Paused) /\ Cardinality(Paused) \in Nat /\ Cardinality(Holders) \in Nat
  BY CountedNumbers
<1>2. Cardinality(Paused \ S) = Cardinality(Paused) - Cardinality(Paused \cap S)
  BY <1>1, FS_Difference
<1>3. IsFiniteSet(Holders') /\ Cardinality(Holders') <= Cardinality(Holders)
  BY FS_Subset DEF Counted
<1>4. Cardinality(Holders') \in Nat
  BY <1>3, FS_CardinalityType
<1>5. Cardinality(Holders') <= MaxRunning
  BY <1>1, <1>3, <1>4 DEF Counted, Configured, QueuesAssumption
<1>6. QED
  BY <1>2, <1>3, <1>5 DEF Counted

LEMMA CountedSame ==
  ASSUME Configured, Counted, Paused' = Paused, Holders' \subseteq Holders,
         num_waiting_for_streaming_input' = num_waiting_for_streaming_input
  PROVE  Counted'
<1>1. Paused' = Paused \ {} /\ Paused \cap {} = {} /\ Cardinality({}) = 0
  BY FS_EmptySet
<1>2. num_waiting_for_streaming_input' =
        num_waiting_for_streaming_input - Cardinality(Paused \cap {})
  BY <1>1, CountedNumbers DEF Counted
<1>3. QED
  BY <1>1, <1>2, CountedLeft

LEMMA CountedUnchanged ==
  ASSUME Configured, Counted, UNCHANGED <<status, num_waiting_for_streaming_input>>
  PROVE  Counted'
<1>1. Paused' = Paused /\ Holders' = Holders
  BY DEF Paused, Holders
<1>2. QED
  BY <1>1, CountedSame

(* A request that is neither running nor paused before or after. *)
LEMMA CountedElsewhere ==
  ASSUME Configured, Counted, Typed, NEW r \in Req, NEW s, status' = [status EXCEPT ![r] = s],
         status[r] # "streaming", s \notin {"running", "streaming"},
         num_waiting_for_streaming_input' = num_waiting_for_streaming_input
  PROVE  Counted'
<1>1. \A x \in Req : status'[x] = IF x = r THEN s ELSE status[x]
  BY DEF Typed, StatusTyped
<1>2. Paused' = Paused /\ Holders' \subseteq Holders
  BY <1>1 DEF Paused, Holders
<1>3. QED
  BY <1>2, CountedSame

(* A session that stops waiting for its client. *)
LEMMA CountedResumed ==
  ASSUME Configured, Counted, Typed, NEW r \in Req, NEW s, status' = [status EXCEPT ![r] = s],
         status[r] = "streaming", s \notin {"running", "streaming"},
         num_waiting_for_streaming_input' = num_waiting_for_streaming_input - 1
  PROVE  Counted'
<1>1. \A x \in Req : status'[x] = IF x = r THEN s ELSE status[x]
  BY DEF Typed, StatusTyped
<1>2. Paused' = Paused \ {r} /\ Holders' \subseteq Holders /\ Paused \cap {r} = {r}
  BY <1>1 DEF Paused, Holders
<1>3. Cardinality({r}) = 1
  BY FS_Singleton
<1>4. QED
  BY <1>2, <1>3, CountedLeft

(* A running session that pauses keeps its slot. *)
LEMMA CountedPaused ==
  ASSUME Counted, Typed, NEW r \in Resumable, r \in Req, status' = [status EXCEPT ![r] = "streaming"],
         status[r] = "running",
         num_waiting_for_streaming_input' = num_waiting_for_streaming_input + 1
  PROVE  Counted'
<1>1. \A x \in Req : status'[x] = IF x = r THEN "streaming" ELSE status[x]
  BY DEF Typed, StatusTyped
<1>2. Paused' = Paused \cup {r} /\ Holders' = Holders /\ r \notin Paused
  BY <1>1 DEF Paused, Holders
<1>3. Cardinality(Paused') = Cardinality(Paused) + 1
  BY <1>2, CountedNumbers, FS_AddElement
<1>4. QED
  BY <1>2, <1>3 DEF Counted

(* Outside update_from_output the slots are those of running and of the    *)
(* sessions counted.                                                       *)
LEMMA HoldersCounted ==
  ASSUME Counted, Typed, Listed, phase # "update"
  PROVE  Cardinality(Holders) = Len(running) + num_waiting_for_streaming_input
<1>1. running \in Seq(Req) /\ IsInjective(running) /\ stopped_running = {}
  BY DEF Listed, Typed, ListsTyped, HandlersTidy
<1>2. IsFiniteSet(Range(running)) /\ Cardinality(Range(running)) = Len(running)
  BY <1>1, LengthIsCardinality
<1>3. Holders = Range(running) \cup Paused /\ Range(running) \cap Paused = {}
  <2>1. Range(running) \subseteq Req
    BY <1>1 DEF Range
  <2>2. \A x \in Req : x \in Range(running) <=> status[x] = "running"
    BY <1>1 DEF Listed
  <2>3. QED
    BY <2>1, <2>2 DEF Holders, Paused
<1>4. IsFiniteSet(Paused) /\ Cardinality(Paused) = num_waiting_for_streaming_input
      /\ Cardinality(Paused) \in Nat
  BY CountedNumbers DEF Counted
<1>5. Cardinality(Range(running) \cup Paused) =
        Cardinality(Range(running)) + Cardinality(Paused) - Cardinality(Range(running) \cap Paused)
  BY <1>2, <1>4, FS_Union
<1>6. Cardinality(Range(running) \cap Paused) = 0
  BY <1>3, FS_EmptySet
<1>7. Len(running) \in Nat
  BY <1>1
<1>8. QED
  BY <1>2, <1>3, <1>4, <1>5, <1>6, <1>7

(* A request is admitted to a free slot. *)
LEMMA CountedAdmitted ==
  ASSUME Configured, Counted, Typed, Listed, NEW r \in Req, NEW work, Admit(r, work), Waits(r)
  PROVE  Counted'
<1>1. /\ status' = [status EXCEPT ![r] = "running"] /\ phase = "waiting" /\ r \in Selected
      /\ num_waiting_for_streaming_input' = num_waiting_for_streaming_input
      /\ ~_is_blocked_waiting_status(status[r]) \/ CanPromote(r)
  BY DEF Admit, Consider, sessionVars
<1>2. ~(num_running >= MaxRunning)
  BY <1>1 DEF Selected
<1>3. status[r] # "streaming" /\ status[r] # "running"
  BY <1>1 DEF _is_blocked_waiting_status, CanPromote, Waits
<1>4. \A x \in Req : status'[x] = IF x = r THEN "running" ELSE status[x]
  BY <1>1 DEF Typed, StatusTyped
<1>5. Paused' = Paused /\ Holders' = Holders \cup {r} /\ r \notin Holders
  BY <1>3, <1>4 DEF Paused, Holders
<1>6. Cardinality(Holders) = Len(running) + num_waiting_for_streaming_input
  BY <1>1, HoldersCounted
<1>7. IsFiniteSet(Holders') /\ Cardinality(Holders') = Cardinality(Holders) + 1
  BY <1>5, FS_AddElement DEF Counted
<1>8. Cardinality(Holders) \in Nat
  BY CountedNumbers
<1>9. Cardinality(Holders') <= MaxRunning
  BY <1>2, <1>6, <1>7, <1>8 DEF num_running, Configured, QueuesAssumption
<1>10. QED
  BY <1>1, <1>5, <1>7, <1>9 DEF Counted

LEMMA CountedFinished ==
  ASSUME Configured, Counted, NEW R \in SUBSET Req, NEW sends, finish_requests(R, sends)
  PROVE  Counted'
<1>. DEFINE S == {r \in R : Live(r)}
<1>1. /\ num_waiting_for_streaming_input' = input_waiters_left(S)
      /\ status' = [r \in Req |-> IF r \notin S THEN status[r]
                                  ELSE IF delay_free_blocks(r, sends) THEN "finished" ELSE "gone"]
  BY DEF finish_requests
<1>2. S \in SUBSET Req
  OBVIOUS
<1>. HIDE DEF S
<1>3. \A r \in Req : IF r \in S THEN status'[r] \in {"finished", "gone"} ELSE status'[r] = status[r]
  BY <1>1
<1>4. Paused' = Paused \ S /\ Holders' \subseteq Holders
  BY <1>3 DEF Paused, Holders
<1>5. {r \in S : status[r] = "streaming"} = Paused \cap S
  BY <1>2 DEF Paused
<1>6. QED
  BY <1>1, <1>4, <1>5, CountedLeft DEF input_waiters_left

(* Whoever's completion is kept is not touched. *)
LEMMA AwaitedKept ==
  ASSUME Awaited, finished_recving' \subseteq finished_recving, failed_recving' \subseteq failed_recving,
         recving' \subseteq recving,
         \A r \in Req : r \in finished_recving' \cup failed_recving' => status'[r] = status[r]
  PROVE  Awaited'
BY DEF Awaited

(* A request that did not wait for a load has no completion to lose. *)
LEMMA AwaitedElsewhere ==
  ASSUME Awaited, Typed, NEW r \in Req, NEW s, status[r] # "remote", status' = [status EXCEPT ![r] = s],
         UNCHANGED <<recving, finished_recving, failed_recving>>
  PROVE  Awaited'
<1>1. \A x \in Req : x # r => status'[x] = status[x]
  BY DEF Typed, StatusTyped
<1>2. r \notin finished_recving \cup failed_recving
  BY DEF Awaited
<1>3. QED
  BY <1>1, <1>2, AwaitedKept

(* The waiting pass takes the completion of a request it considers. *)
LEMMA AwaitedConsidered ==
  ASSUME Awaited, Typed, NEW r \in Req, NEW s, status' = [status EXCEPT ![r] = s],
         finished_recving' = finished_recving \ {r}, failed_recving' = failed_recving \ {r},
         recving' \subseteq recving \cup {r}
  PROVE  Awaited'
<1>1. \A x \in Req : x # r => status'[x] = status[x]
  BY DEF Typed, StatusTyped
<1>2. QED
  BY <1>1 DEF Awaited

LEMMA AwaitedFinished ==
  ASSUME Awaited, Typed, NEW R, NEW sends, finish_requests(R, sends)
  PROVE  Awaited'
<1>. DEFINE S == {r \in R : Live(r)}
            loading == {r \in S : status[r] = "remote"}
<1>1. /\ finished_recving' = finished_recving \ loading /\ failed_recving' = failed_recving \ loading
      /\ recving' = recving
      /\ status' = [r \in Req |-> IF r \notin S THEN status[r]
                                  ELSE IF delay_free_blocks(r, sends) THEN "finished" ELSE "gone"]
  BY DEF finish_requests, discarded
<1>2. \A r : r \in S /\ status[r] = "remote" => r \in loading
  OBVIOUS
<1>. HIDE DEF S, loading
<1>3. \A r \in Req : r \notin S => status'[r] = status[r]
  BY <1>1
<1>4. ASSUME NEW r \in Req, r \in finished_recving' \cup failed_recving' PROVE status'[r] = status[r]
  <2>1. status[r] = "remote" /\ r \notin loading
    BY <1>1, <1>4 DEF Awaited
  <2>2. QED
    BY <1>2, <1>3, <2>1
<1>5. QED
  BY <1>1, <1>4, AwaitedKept

-----------------------------------------------------------------------------
(* Every action keeps the invariant. *)

LEMMA PlacedInit ==
  ASSUME Configured, Init
  PROVE  Placed
<1>1. Awaited
  BY DEF Init, Awaited
<1>2. QED
  BY <1>1, TypedInit, ListedInit, SharesInit, CountedInit DEF Placed, Configured

(* What leaves the queues, standings and shares alone. *)
LEMMA PlacedUnchanged ==
  ASSUME Configured, Placed,
         UNCHANGED <<status, queueVars, stopVars, device, batch, stale, drop, num_waiting_for_streaming_input,
                     recving, finished_recving>>,
         \A r \in Req : r \in failed_recving' \ failed_recving => status[r] = "remote"
  PROVE  Listed' /\ SharesInv' /\ Counted' /\ Awaited'
<1>1. Listed'
  BY ListedUnchanged DEF Placed
<1>2. SharesInv'
  BY SharesUnchanged DEF Placed, SharesInv
<1>3. Counted'
  BY CountedUnchanged DEF Placed
<1>4. Awaited'
  BY DEF Placed, Awaited
<1>5. QED
  BY <1>1, <1>2, <1>3, <1>4

(* The shares of one request, and those of all others. *)
LEMMA SharesOfOne ==
  ASSUME Typed, SharesInv, NEW r \in Req, NEW s, status' = [status EXCEPT ![r] = s],
         UNCHANGED <<device, batch, stale, drop>>, SharesFit(r)'
  PROVE  SharesInv'
<1>. SUFFICES ASSUME NEW x \in Req, x # r PROVE SharesFit(x)'
  BY DEF SharesInv
<1>1. status'[x] = status[x]
  BY DEF Typed, StatusTyped
<1>2. QED
  BY <1>1, SharesUnchanged DEF SharesInv

LEMMA PlacedAdded ==
  ASSUME Configured, Placed, NEW r \in Req, add_request(r)
  PROVE  Listed' /\ SharesInv' /\ Counted' /\ Awaited'
<1>. USE DEF Placed
<1>1. /\ phase = "idle" /\ UNCHANGED <<running, step_skipped, stopVars, device, batch, stale, drop>>
      /\ UNCHANGED <<recving, finished_recving, failed_recving>>
  BY DEF add_request, staleVars, stepVars, NewRequest, UpdateSession, xferVars
<1>2. SharesFit(r)
  BY DEF SharesInv
<1>3. status \in [Req -> Statuses]
  BY DEF Typed, StatusTyped
<1>4. CASE NewRequest(r)
  <2>1. PICK s \in {"grammar", "waiting"} : status' = [status EXCEPT ![r] = s]
    BY <1>4 DEF NewRequest
  <2>2. status[r] = "absent" /\ num_waiting_for_streaming_input' = num_waiting_for_streaming_input
    BY <1>4 DEF NewRequest, sessionVars
  <2>3. status'[r] = s
    BY <1>3, <2>1
  <2>4. SharesFit(r)'
    BY <1>1, <1>2, <2>2, <2>3, SharesWaiting DEF Waits, Live
  <2>5. SharesInv'
    BY <1>1, <2>1, <2>4, SharesOfOne
  <2>6. Counted'
    BY <2>1, <2>2, CountedElsewhere
  <2>7. Awaited'
    BY <1>1, <2>1, <2>2, AwaitedElsewhere
  <2>8. QED
    BY <1>1, <1>4, <2>5, <2>6, <2>7, ListedAdded
<1>5. CASE UpdateSession(r)
  <2>1. Listed'
    BY <1>1, <1>5, ListedUpdated
  <2>2. CASE status[r] # "streaming"
    <3>1. UNCHANGED <<status, num_waiting_for_streaming_input>>
      BY <1>5, <2>2 DEF UpdateSession
    <3>2. SharesInv'
      BY <1>1, <3>1, SharesUnchanged DEF SharesInv
    <3>3. Awaited'
      BY <1>1, <3>1 DEF Awaited
    <3>4. QED
      BY <2>1, <3>1, <3>2, <3>3, CountedUnchanged
  <2>3. CASE status[r] = "streaming"
    <3>1. PICK s \in {"waiting", "finished", "gone"} : status' = [status EXCEPT ![r] = s]
      BY <1>5, <2>3 DEF UpdateSession
    <3>2. num_waiting_for_streaming_input' = num_waiting_for_streaming_input - 1
      BY <1>5, <2>3 DEF UpdateSession
    <3>3. status'[r] = s
      BY <1>3, <3>1
    <3>4. SharesFit(r)'
      <4>1. CASE s = "waiting"
        BY <1>1, <1>2, <2>3, <3>3, <4>1, SharesWaiting DEF Waits, Live
      <4>2. CASE s # "waiting"
        BY <1>1, <1>2, <3>3, <4>2, SharesEnded DEF SharesFit
      <4>3. QED
        BY <4>1, <4>2
    <3>5. SharesInv'
      BY <1>1, <3>1, <3>4, SharesOfOne
    <3>6. Counted'
      BY <2>3, <3>1, <3>2, CountedResumed
    <3>7. Awaited'
      BY <1>1, <2>3, <3>1, AwaitedElsewhere
    <3>8. QED
      BY <2>1, <3>5, <3>6, <3>7
  <2>4. QED
    BY <2>2, <2>3
<1>6. QED
  BY <1>4, <1>5 DEF add_request

LEMMA PlacedFinished ==
  ASSUME Configured, Placed, NEW R \in SUBSET Req, NEW sends, finish_requests(R, sends),
         phase # "update", phase # "waiting",
         UNCHANGED <<step_skipped, stopVars, device, batch, stale, drop>>
  PROVE  Listed' /\ SharesInv' /\ Counted' /\ Awaited'
<1>. USE DEF Placed
<1>1. \A x \in Req : status'[x] = status[x] \/ status'[x] \in {"finished", "gone"}
  BY DEF finish_requests
<1>2. ASSUME NEW x \in Req PROVE SharesFit(x)'
  <2>1. SharesFit(x)
    BY DEF SharesInv
  <2>2. CASE status'[x] = status[x]
    BY <2>1, <2>2, SharesUnchanged
  <2>3. CASE status'[x] \in {"finished", "gone"}
    BY <2>1, <2>3, SharesEnded DEF SharesFit
  <2>4. QED
    BY <1>1, <2>2, <2>3
<1>3. QED
  BY <1>2, ListedFinished, CountedFinished, AwaitedFinished DEF SharesInv

LEMMA PlacedPreempted ==
  ASSUME Configured, Placed, MayPreempt, phase # "update", NEW R \in SUBSET Req, NEW drops \in BOOLEAN,
         _preempt_request(R, drops), UNCHANGED <<batch, device, stopVars>>, \A r \in R : batch[r] = "none"
  PROVE  Listed' /\ SharesInv' /\ Counted' /\ Awaited'
<1>. USE DEF Placed
<1>1. /\ \A r \in R : status[r] = "running"
      /\ status' = [r \in Req |-> IF r \in R THEN "preempted" ELSE status[r]]
      /\ UNCHANGED <<num_waiting_for_streaming_input, recving, finished_recving, failed_recving>>
  BY DEF _preempt_request, sessionVars, xferVars
<1>2. \A x \in Req : status'[x] = IF x \in R THEN "preempted" ELSE status[x]
  BY <1>1
<1>3. Paused' = Paused /\ Holders' \subseteq Holders
  BY <1>1, <1>2 DEF Paused, Holders
<1>4. Counted'
  BY <1>1, <1>3, CountedSame
<1>5. Awaited'
  BY <1>1, <1>2 DEF Awaited
<1>6. QED
  BY <1>4, <1>5, ListedPreempted, SharesPreempted

(* The waiting pass changes what a request waits for. *)
LEMMA PlacedConsidered ==
  ASSUME Configured, Placed, NEW r \in Req, Waits(r), status[r] # "streaming",
         NEW s \in {"waiting", "preempted", "remote"}, status' = [status EXCEPT ![r] = s],
         s = "remote" => stale[r] = 0 \/ drop[r],
         finished_recving' = finished_recving \ {r}, failed_recving' = failed_recving \ {r},
         recving' \subseteq recving \cup {r},
         UNCHANGED <<device, batch, stale, drop, num_waiting_for_streaming_input>>
  PROVE  SharesInv' /\ Counted' /\ Awaited'
<1>. USE DEF Placed
<1>1. status'[r] = s
  BY DEF Typed, StatusTyped
<1>2. Waits(r)'
  BY <1>1 DEF Waits, Live
<1>3. SharesFit(r)'
  BY <1>1, <1>2, SharesWaiting DEF SharesInv
<1>4. SharesInv'
  BY <1>3, SharesOfOne
<1>5. Counted'
  BY CountedElsewhere
<1>6. QED
  BY <1>4, <1>5, AwaitedConsidered

LEMMA PlacedStep ==
  ASSUME Configured, Placed, [Next]_vars
  PROVE  Placed'
<1>. USE DEF sessionVars, staleVars, stepVars, xferVars
<1>0. Typed /\ Listed /\ SharesInv /\ Counted /\ Awaited /\ QueuesAssumption
  BY DEF Placed, Configured
<1>. DEFINE Kept == Listed' /\ SharesInv' /\ Counted' /\ Awaited'
<1>1. ASSUME NEW r \in Req, Consider(r)
      PROVE  /\ phase = "waiting" /\ r \in Selected /\ Waits(r) /\ status[r] # "streaming"
             /\ finished_recving' = finished_recving \ {r} /\ failed_recving' = failed_recving \ {r}
             /\ promoted(r) \in {"waiting", "preempted"}
  <2>1. phase = "waiting" /\ r \in Selected
    BY <1>1 DEF Consider
  <2>2. Waits(r)
    BY <1>0, <2>1, SelectedWaits
  <2>3. status[r] \in Statuses /\ status[r] # "streaming"
    BY <1>0, <1>1 DEF Typed, StatusTyped, Consider, CanPromote, _is_blocked_waiting_status
  <2>4. promoted(r) \in {"waiting", "preempted"}
    BY <2>2, <2>3 DEF promoted, Waits, Live, Statuses, _is_blocked_waiting_status
  <2>5. QED
    BY <1>1, <2>1, <2>2, <2>3, <2>4 DEF Consider
<1>2. CASE BeginSchedule \/ BeginWaiting \/ UNCHANGED vars
  <2>1. Kept
    BY <1>0, <1>2, PlacedUnchanged DEF BeginSchedule, BeginWaiting, vars
  <2>2. QED
    BY <1>0, <2>1, TypedStep DEF Placed
<1>3. CASE EndSchedule
  <2>1. UNCHANGED <<status, queueVars, stopVars, num_waiting_for_streaming_input,
                    recving, finished_recving, failed_recving>>
    BY <1>3 DEF EndSchedule
  <2>2. Awaited'
    BY <1>0, <2>1 DEF Awaited
  <2>3. QED
    BY <1>0, <1>3, <2>1, <2>2, TypedStep, SharesHanded, ListedUnchanged, CountedUnchanged DEF Placed
<1>4. CASE RemoveStopped
  <2>1. UNCHANGED <<status, num_waiting_for_streaming_input, device, batch, stale, drop,
                    recving, finished_recving, failed_recving>>
    BY <1>4 DEF RemoveStopped
  <2>2. SharesInv'
    BY <1>0, <2>1, SharesUnchanged DEF SharesInv
  <2>3. Awaited'
    BY <1>0, <2>1 DEF Awaited
  <2>4. QED
    BY <1>0, <1>4, <2>1, <2>2, <2>3, TypedStep, ListedRemoved, CountedUnchanged DEF Placed
<1>5. CASE FinishErrors
  <2>1. grammar_errors \in SUBSET Req
    BY <1>0 DEF Typed, SetsTyped
  <2>2. PICK sends : finish_requests(grammar_errors, sends)
    BY <1>5 DEF FinishErrors
  <2>3. Kept
    BY <1>5, <2>1, <2>2, PlacedFinished DEF FinishErrors
  <2>4. QED
    BY <1>0, <2>3, TypedStep DEF Placed
<1>6. CASE PreemptVictim \/ reset_prefix_cache
  <2>1. CASE PreemptVictim
    <3>1. Last(running) \in Req
      BY <1>0, <2>1, LastListed DEF PreemptVictim, Typed, ListsTyped, Range
    <3>2. {Last(running)} \in SUBSET Req /\ FALSE \in BOOLEAN
      BY <3>1
    <3>3. Kept
      BY <2>1, <3>2, PlacedPreempted DEF PreemptVictim
    <3>4. QED
      BY <1>0, <3>3, TypedStep DEF Placed
  <2>2. CASE reset_prefix_cache
    <3>1. Range(running) \in SUBSET Req
      BY <1>0 DEF Typed, ListsTyped, Range
    <3>2. \A r \in Range(running) : batch[r] = "none"
      BY <1>0, <2>2, <3>1 DEF Typed, StepsTyped, reset_prefix_cache
    <3>3. TRUE \in BOOLEAN
      OBVIOUS
    <3>4. Kept
      BY <2>2, <3>1, <3>2, <3>3, PlacedPreempted DEF reset_prefix_cache
    <3>5. QED
      BY <1>0, <3>4, TypedStep DEF Placed
  <2>3. QED
    BY <1>6, <2>1, <2>2
<1>7. ASSUME NEW r \in Req, add_request(r) PROVE Kept
  BY <1>7, PlacedAdded
<1>8. ASSUME NEW r \in Req, Abort(r) PROVE Kept
  <2>1. PICK sends : finish_requests({r}, sends)
    BY <1>8 DEF Abort
  <2>2. {r} \in SUBSET Req
    OBVIOUS
  <2>3. QED
    BY <1>8, <2>1, <2>2, PlacedFinished DEF Abort
<1>9. ASSUME NEW r \in Req, SkipBlocked(r) PROVE Kept
  <2>1. /\ phase = "waiting" /\ r \in Selected /\ PutAside(r) /\ _is_blocked_waiting_status(status[r])
        /\ UNCHANGED <<status, running, stopVars, device, batch, stale, drop,
                       num_waiting_for_streaming_input, recving, finished_recving, failed_recving>>
    BY <1>9 DEF SkipBlocked
  <2>2. status[r] \in Statuses \ {"absent", "running", "finished", "gone"}
    BY <1>0, <2>1 DEF Typed, StatusTyped, _is_blocked_waiting_status
  <2>3. status' = [status EXCEPT ![r] = status[r]]
    BY <1>0, <2>1 DEF Typed, StatusTyped
  <2>4. Listed'
    <3>1. PICK s : s = status[r]
      OBVIOUS
    <3>2. s \in Statuses /\ s \notin {"absent", "running", "finished", "gone"}
          /\ status' = [status EXCEPT ![r] = s] /\ UNCHANGED <<running, stopVars>>
      BY <2>1, <2>2, <2>3, <3>1
    <3>3. QED
      BY <1>0, <2>1, <3>2, ListedAside
  <2>5. SharesInv'
    BY <1>0, <2>1, SharesUnchanged DEF SharesInv
  <2>6. Awaited'
    BY <1>0, <2>1 DEF Awaited
  <2>7. QED
    BY <1>0, <2>1, <2>4, <2>5, <2>6, CountedUnchanged
<1>10. ASSUME NEW r \in Req, SkipReady(r) \/ SkipEncoderPending(r) PROVE Kept
  <2>1. /\ Consider(r) /\ status' = [status EXCEPT ![r] = promoted(r)]
        /\ UNCHANGED <<running, stopVars, device, batch, stale, drop,
                       num_waiting_for_streaming_input, recving>>
        /\ PutAside(r) \/ HeadPutAside(r)
    BY <1>10 DEF SkipReady, SkipEncoderPending, HeadPutAside
  <2>2. promoted(r) \in Statuses /\ promoted(r) \notin {"absent", "running", "finished", "gone"}
    BY <1>1, <2>1 DEF Statuses
  <2>3. Listed'
    <3>1. PICK s : s = promoted(r)
      OBVIOUS
    <3>2. s \in Statuses /\ s \notin {"absent", "running", "finished", "gone"}
          /\ status' = [status EXCEPT ![r] = s] /\ UNCHANGED <<running, stopVars>>
      BY <2>1, <2>2, <3>1
    <3>3. phase = "waiting" /\ r \in Selected
      BY <1>1, <2>1
    <3>4. QED
      BY <1>0, <2>1, <3>2, <3>3, ListedAside
  <2>4. promoted(r) \in {"waiting", "preempted", "remote"} /\ promoted(r) # "remote"
    BY <1>1, <2>1
  <2>5. QED
    BY <1>1, <2>1, <2>3, <2>4, PlacedConsidered
<1>11. ASSUME NEW r \in Req, StartLoad(r) PROVE Kept
  <2>1. /\ Consider(r) /\ status' = [status EXCEPT ![r] = "remote"] /\ PutAside(r)
        /\ UNCHANGED <<running, stopVars, device, batch, stale, drop, num_waiting_for_streaming_input>>
        /\ stale[r] = 0 \/ drop[r]
        /\ recving' \subseteq recving \cup {r}
    BY <1>11 DEF StartLoad, may_resume
  <2>2. "remote" \in Statuses /\ "remote" \notin {"absent", "running", "finished", "gone"}
    BY DEF Statuses
  <2>3. Listed'
    <3>1. phase = "waiting" /\ r \in Selected /\ UNCHANGED <<running, stopVars>>
      BY <1>1, <2>1
    <3>2. PICK s : s = "remote"
      OBVIOUS
    <3>3. s \in Statuses /\ s \notin {"absent", "running", "finished", "gone"}
          /\ status' = [status EXCEPT ![r] = s]
      BY <2>1, <2>2, <3>2
    <3>4. QED
      BY <1>0, <2>1, <3>1, <3>3, ListedAside
  <2>4. QED
    BY <1>1, <2>1, <2>3, PlacedConsidered
<1>12. ASSUME NEW r \in Req, NEW work, Admit(r, work) PROVE Kept
  <2>1. Listed' /\ Waits(r)
    BY <1>0, <1>12, ListedAdmitted
  <2>2. SharesInv'
    BY <1>0, <1>12, <2>1, SharesAdmitted
  <2>3. Counted'
    BY <1>0, <1>12, <2>1, CountedAdmitted
  <2>4. Awaited'
    BY <1>0, <1>1, <1>12, AwaitedConsidered DEF Admit
  <2>5. QED
    BY <2>1, <2>2, <2>3, <2>4
<1>13. ASSUME NEW r \in Req, BreakAt(r) PROVE Kept
  <2>1. /\ Consider(r) /\ status' = [status EXCEPT ![r] = promoted(r)] /\ EndPass
        /\ UNCHANGED <<device, batch, stale, drop, num_waiting_for_streaming_input, recving>>
    BY <1>13 DEF BreakAt, EndPass
  <2>2. \A x \in Req : \/ status'[x] = status[x]
                       \/ Waits(x) /\ status'[x] \in {"waiting", "preempted"}
    BY <1>0, <1>1, <2>1 DEF Typed, StatusTyped
  <2>3. Listed'
    BY <1>0, <1>1, <2>1, <2>2, ListedRequeued
  <2>4. promoted(r) \in {"waiting", "preempted", "remote"} /\ promoted(r) # "remote"
    BY <1>1, <2>1
  <2>5. QED
    BY <1>1, <2>1, <2>3, <2>4, PlacedConsidered
<1>14. CASE EndWaiting
  <2>1. /\ EndPass /\ phase = "waiting"
        /\ UNCHANGED <<status, device, batch, stale, drop, num_waiting_for_streaming_input,
                       recving, finished_recving, failed_recving>>
    BY <1>14 DEF EndWaiting, EndPass
  <2>2. SharesInv'
    BY <1>0, <2>1, SharesUnchanged DEF SharesInv
  <2>3. Awaited'
    BY <1>0, <2>1 DEF Awaited
  <2>4. QED
    BY <1>0, <1>14, <2>1, <2>2, <2>3, ListedRequeued, CountedUnchanged, TypedStep DEF Placed
<1>15. ASSUME NEW r \in Req, NEW result, CompileGrammar(r, result) PROVE Kept
  BY <1>0, <1>15, PlacedUnchanged DEF CompileGrammar
<1>16. ASSUME NEW r \in Req, NEW work, ScheduleRunning(r, work) PROVE Kept
  <2>1. UNCHANGED <<status, queueVars, stopVars, num_waiting_for_streaming_input,
                    recving, finished_recving, failed_recving>>
    BY <1>16 DEF ScheduleRunning
  <2>2. Awaited'
    BY <1>0, <2>1 DEF Awaited
  <2>3. QED
    BY <1>0, <1>16, <2>1, <2>2, ListedUnchanged, SharesScheduled, CountedUnchanged
<1>17. ASSUME NEW r \in Req, NEW stop \in BOOLEAN, TakeOutput(r, stop) PROVE Kept
  <2>1. SharesInv' /\ (stop /\ status[r] # "running" => status[r] # "remote" /\ r \notin Resumable)
    BY <1>0, <1>17, SharesTaken
  <2>2. CASE ~stop
    <3>1. UNCHANGED <<status, queueVars, stopVars, num_waiting_for_streaming_input,
                      recving, finished_recving, failed_recving>>
      BY <1>17, <2>2 DEF TakeOutput, queueVars
    <3>2. Awaited'
      BY <1>0, <3>1 DEF Awaited
    <3>3. QED
      BY <1>0, <2>1, <3>1, <3>2, ListedUnchanged, CountedUnchanged
  <2>3. CASE stop
    <3>1. TakeOutput(r, TRUE)
      BY <1>17, <2>3
    <3>2. Listed'
      BY <1>0, <3>1, ListedStopped
    <3>3. /\ Live(r) /\ UNCHANGED <<recving, finished_recving, failed_recving>>
          /\ _handle_stopped_request(r)
      BY <3>1 DEF TakeOutput
    <3>4. \/ /\ status[r] = "running" /\ r \in Resumable
             /\ status' = [status EXCEPT ![r] = "streaming"]
             /\ num_waiting_for_streaming_input' = num_waiting_for_streaming_input + 1
          \/ /\ status[r] = "running" \/ r \notin Resumable
             /\ \E s \in {"waiting", "finished", "gone"} : status' = [status EXCEPT ![r] = s]
             /\ num_waiting_for_streaming_input' = num_waiting_for_streaming_input
      BY <2>1, <2>3, <3>3 DEF _handle_stopped_request, ContinueSession, FinishStopped
    <3>5. status[r] # "remote"
      BY <2>1, <2>3
    <3>6. Awaited'
      BY <1>0, <3>3, <3>4, <3>5, AwaitedElsewhere
    <3>7. status[r] = "streaming" => r \in Resumable /\ status[r] # "running"
      BY <1>0 DEF Counted, Paused
    <3>8. Counted'
      BY <1>0, <3>4, <3>7, CountedPaused, CountedElsewhere
    <3>9. QED
      BY <2>1, <3>2, <3>6, <3>8
  <2>4. QED
    BY <2>2, <2>3
<1>18. ASSUME NEW failed \in SUBSET recving, NEW keep, BeginUpdate(failed, keep) PROVE Kept
  <2>1. /\ failed \subseteq {r \in recving : status[r] = "remote"} \ failed_recving
        /\ failed_recving' = failed_recving \cup failed
        /\ UNCHANGED <<status, queueVars, stopVars, device, batch, stale, drop,
                       num_waiting_for_streaming_input, recving, finished_recving>>
    BY <1>18 DEF BeginUpdate
  <2>2. \A r \in Req : r \in failed_recving' \ failed_recving => status[r] = "remote"
    BY <2>1
  <2>3. QED
    BY <2>1, <2>2, PlacedUnchanged
<1>19. ASSUME NEW received \in SUBSET recving, NEW done, _update_from_kv_xfer_finished(received, done)
       PROVE  Kept
  <2>1. /\ recving' = recving \ received /\ failed_recving' = failed_recving
        /\ finished_recving' = finished_recving \cup {r \in received : status[r] = "remote"}
        /\ status' = [r \in Req |-> IF status[r] = "finished" /\ r \in received \cup done
                                    THEN "gone" ELSE status[r]]
        /\ UNCHANGED <<queueVars, stopVars, num_waiting_for_streaming_input>>
    BY <1>19 DEF _update_from_kv_xfer_finished
  <2>2. \A x \in Req : \/ status'[x] = status[x]
                       \/ status[x] = "finished" /\ status'[x] = "gone"
    BY <2>1
  <2>3. Listed'
    <3>1. \A x \in Req : (Live(x)' <=> Live(x)) /\ (Waits(x)' <=> Waits(x))
                         /\ (status'[x] = "running" <=> status[x] = "running")
                         /\ (_is_blocked_waiting_status(status'[x]) => _is_blocked_waiting_status(status[x]))
      BY <2>2 DEF Waits, Live, _is_blocked_waiting_status
    <3>2. QED
      BY <1>0, <2>1, <3>1 DEF Listed, queueVars, stopVars
  <2>4. SharesInv'
    BY <1>0, <1>19, SharesDropped
  <2>5. Paused' = Paused /\ Holders' = Holders
    BY <2>2 DEF Paused, Holders
  <2>6. Counted'
    BY <1>0, <2>1, <2>5, CountedSame
  <2>7. Awaited'
    BY <1>0, <2>1, <2>2 DEF Awaited
  <2>8. QED
    BY <2>3, <2>4, <2>6, <2>7
<1>20. Typed'
  BY <1>0, TypedStep
<1>. HIDE DEF Kept
<1>21. Placed' \/ Kept
  BY <1>2, <1>3, <1>4, <1>5, <1>6, <1>7, <1>8, <1>9, <1>10, <1>11, <1>12, <1>13, <1>14, <1>15, <1>16,
     <1>17, <1>18, <1>19 DEF Next
<1>22. QED
  BY <1>20, <1>21 DEF Placed, Kept

LEMMA PlacedInvariance == ASSUME Configured PROVE Spec => []Placed
<1>1. Init => Placed
  BY PlacedInit
<1>2. Placed /\ [Next]_vars => Placed'
  BY PlacedStep
<1>3. QED
  BY <1>1, <1>2, PTL DEF Spec

-----------------------------------------------------------------------------
(* What the invariant implies. *)

LEMMA PlacedTypes == Placed => TypeOK
<1>. SUFFICES ASSUME Placed PROVE TypeOK
  OBVIOUS
<1>1. Typed /\ num_waiting_for_streaming_input \in Nat
  BY CountedNumbers DEF Placed, Counted
<1>2. \A q \in {running, waiting, skipped_waiting, step_skipped} : q \in Seq(Req)
  BY <1>1 DEF Typed, ListsTyped
<1>3. {has_computed, drop} \subseteq [Req -> BOOLEAN]
  BY <1>1 DEF Typed, StatusTyped
<1>4. \A S \in {grammar_errors, recving, sending, finished_recving, failed_recving,
                stopped_running, stopped_preempted} : S \subseteq Req
  BY <1>1 DEF Typed, SetsTyped
<1>5. /\ phase \in {"idle", "running", "waiting", "extra", "update", "errors", "xfer"}
      /\ stale \in [Req -> 0 .. MaxBatches] /\ batch \in [Req -> Work] /\ preempted \in BOOLEAN
      /\ device \in Seq([Req -> Work]) /\ Len(device) <= MaxBatches
  BY <1>1 DEF Typed, StepsTyped
<1>6. /\ streaming_queue \in [Req -> Seq({"chunk", "end"})] /\ sent \in [Req -> 0 .. MaxChunks]
      /\ status \in [Req -> Statuses] /\ preemptions \in [Req -> 0 .. MaxPreemptions]
      /\ grammar \in [Req -> {"compiling", "ready", "error"}]
  BY <1>1 DEF Typed, StatusTyped, SessionsTyped
<1>7. QED
  BY <1>1, <1>2, <1>3, <1>4, <1>5, <1>6 DEF TypeOK, Statuses

(* Between two handlers nothing is skipped or stopped. *)
LEMMA IdleLists ==
  ASSUME Placed, phase = "idle"
  PROVE  /\ running \in Seq(Req) /\ waiting \in Seq(Req) /\ skipped_waiting \in Seq(Req)
         /\ IsInjective(running) /\ IsInjective(waiting) /\ IsInjective(skipped_waiting)
         /\ Range(waiting) \cap Range(skipped_waiting) = {}
         /\ \A r \in Req : /\ (r \in Range(running)) <=> (status[r] = "running")
                           /\ (r \in Range(waiting) \cup Range(skipped_waiting)) <=> Waits(r)
                           /\ _is_blocked_waiting_status(status[r]) => r \in Range(skipped_waiting)
<1>1. /\ Typed /\ Listed /\ step_skipped = <<>> /\ stopped_running = {} /\ stopped_preempted = {}
  BY DEF Placed, Typed, HandlersTidy
<1>2. Range(step_skipped) = {}
  <2>1. DOMAIN step_skipped = {}
    BY <1>1
  <2>2. QED
    BY <2>1 DEF Range
<1>3. \A r \in Req : _is_blocked_waiting_status(status[r]) => Waits(r)
  BY DEF _is_blocked_waiting_status, Waits, Live
<1>4. QED
  BY <1>1, <1>2, <1>3 DEF Listed, Typed, ListsTyped

LEMMA PlacedOnce == Placed => QueuedOnce
<1>. SUFFICES ASSUME Placed, phase = "idle", NEW r \in Req
     PROVE  /\ Count(running, r) = (IF status[r] = "running" THEN 1 ELSE 0)
            /\ Count(waiting \o skipped_waiting, r) = (IF Waits(r) THEN 1 ELSE 0)
            /\ _is_blocked_waiting_status(status[r]) => Count(skipped_waiting, r) = 1
  BY DEF QueuedOnce, Waits
<1>1. /\ waiting \o skipped_waiting \in Seq(Req) /\ IsInjective(waiting \o skipped_waiting)
      /\ Range(waiting \o skipped_waiting) = Range(waiting) \cup Range(skipped_waiting)
  BY IdleLists, ConcatLists
<1>2. /\ Count(running, r) = (IF r \in Range(running) THEN 1 ELSE 0)
      /\ Count(skipped_waiting, r) = (IF r \in Range(skipped_waiting) THEN 1 ELSE 0)
      /\ Count(waiting \o skipped_waiting, r) =
           (IF r \in Range(waiting \o skipped_waiting) THEN 1 ELSE 0)
  BY <1>1, IdleLists, CountedOnce
<1>3. QED
  BY <1>1, <1>2, IdleLists

LEMMA PlacedCounts == Placed => UnfinishedAreCounted
<1>. SUFFICES ASSUME Placed, phase = "idle" PROVE UnfinishedAreCounted
  BY DEF UnfinishedAreCounted
<1>. DEFINE Unfinished == {r \in Req : Live(r) /\ status[r] # "streaming"}
            W == Range(waiting)
            K == Range(skipped_waiting)
            R == Range(running)
<1>1. /\ IsFiniteSet(W) /\ Cardinality(W) = Len(waiting)
      /\ IsFiniteSet(K) /\ Cardinality(K) = Len(skipped_waiting)
      /\ IsFiniteSet(R) /\ Cardinality(R) = Len(running)
      /\ W \cap K = {} /\ Len(waiting) \in Nat /\ Len(skipped_waiting) \in Nat /\ Len(running) \in Nat
  BY IdleLists, LengthIsCardinality
<1>2. W \subseteq Req /\ K \subseteq Req /\ R \subseteq Req
  BY IdleLists DEF Range
<1>3. \A r \in Req : /\ (r \in R) <=> (status[r] = "running")
                     /\ (r \in W \cup K) <=> Waits(r)
  BY IdleLists
<1>4. /\ IsFiniteSet(Paused) /\ Cardinality(Paused) \in Nat
      /\ num_waiting_for_streaming_input = Cardinality(Paused)
  BY CountedNumbers DEF Placed, Counted
<1>. HIDE DEF W, K, R
<1>5. Unfinished = ((W \cup K) \ Paused) \cup R
  BY <1>2, <1>3 DEF Paused, Waits, Live
<1>6. ((W \cup K) \ Paused) \cap R = {} /\ (W \cup K) \cap Paused = Paused
  BY <1>2, <1>3 DEF Paused, Waits, Live
<1>. HIDE DEF Unfinished
<1>7. IsFiniteSet(W \cup K) /\ Cardinality(W \cup K) = Len(waiting) + Len(skipped_waiting)
  <2>1. Cardinality(W \cup K) = Cardinality(W) + Cardinality(K) - Cardinality(W \cap K)
    BY <1>1, FS_Union
  <2>2. IsFiniteSet(W \cup K)
    BY <1>1, FS_Union
  <2>3. Cardinality(W \cap K) = 0
    BY <1>1, FS_EmptySet
  <2>4. QED
    BY <1>1, <2>1, <2>2, <2>3
<1>8. PICK U : U = W \cup K
  OBVIOUS
<1>9. IsFiniteSet(U \ Paused) /\ Cardinality(U \ Paused) = Cardinality(U) - Cardinality(Paused)
  <2>1. IsFiniteSet(U) /\ U \cap Paused = Paused
    BY <1>6, <1>7, <1>8
  <2>2. QED
    BY <2>1, FS_Difference
<1>10. Cardinality(Unfinished) = Cardinality(U \ Paused) + Cardinality(R)
  <2>1. PICK V : V = U \ Paused
    OBVIOUS
  <2>2. Unfinished = V \cup R /\ V \cap R = {} /\ IsFiniteSet(V)
    BY <1>5, <1>6, <1>8, <1>9, <2>1
  <2>3. Cardinality(V \cup R) = Cardinality(V) + Cardinality(R) - Cardinality(V \cap R)
    BY <1>1, <2>2, FS_Union
  <2>4. Cardinality(V \cap R) = 0 /\ Cardinality(V) \in Nat
    BY <2>2, FS_EmptySet, FS_CardinalityType
  <2>5. QED
    BY <1>1, <2>1, <2>2, <2>3, <2>4
<1>11. Len(waiting) + Len(skipped_waiting) - num_waiting_for_streaming_input + Len(running) =
         Cardinality(Unfinished)
  BY <1>1, <1>4, <1>7, <1>8, <1>9, <1>10
<1>12. QED
  BY <1>4, <1>11 DEF UnfinishedAreCounted, Paused, Unfinished

LEMMA PlacedSlots == ASSUME Configured PROVE Placed => SlotsSuffice
<1>. SUFFICES ASSUME Placed, phase # "update"
     PROVE  Len(running) + num_waiting_for_streaming_input <= MaxRunning
  BY DEF SlotsSuffice
<1>1. Cardinality(Holders) = Len(running) + num_waiting_for_streaming_input
  BY HoldersCounted DEF Placed
<1>2. Cardinality(Holders) <= MaxRunning
  BY DEF Placed, Counted
<1>3. QED
  BY <1>1, <1>2

LEMMA PlacedCompletions == Placed /\ LoadsTracked => CompletionsBelong
<1>. SUFFICES ASSUME Placed, LoadsTracked PROVE CompletionsBelong
  OBVIOUS
<1>1. finished_recving \cup failed_recving \subseteq Req
  BY DEF Placed, Typed, SetsTyped
<1>2. QED
  BY <1>1 DEF Placed, Awaited, LoadsTracked, CompletionsBelong

(* Every variable keeps its type and every counter its bounds: no order of *)
(* the handlers takes num_waiting_for_streaming_input below zero or hands  *)
(* over more steps than max_concurrent_batches.                            *)
THEOREM QueuesAlwaysTyped == ASSUME Configured PROVE Spec => []TypeOK
BY PlacedInvariance, PlacedTypes, PTL

(* Between two handlers every live request is in exactly one queue, once,  *)
(* the one its status says; a request in no queue would never be           *)
(* scheduled, one in two twice.                                            *)
THEOREM EachQueuedOnce == ASSUME Configured PROVE Spec => []QueuedOnce
BY PlacedInvariance, PlacedOnce, PTL

(* get_num_unfinished_requests counts the live requests that are not       *)
(* paused, and num_waiting_for_streaming_input those that are.             *)
THEOREM UnfinishedAlwaysCounted == ASSUME Configured PROVE Spec => []UnfinishedAreCounted
BY PlacedInvariance, PlacedCounts, PTL

(* Running requests and paused sessions together never need more slots     *)
(* than max_num_running_reqs.                                              *)
THEOREM SlotsAlwaysSuffice == ASSUME Configured PROVE Spec => []SlotsSuffice
BY PlacedInvariance, PlacedSlots, PTL

(* finished_recving_kv_req_ids and failed_recving_kv_req_ids hold only     *)
(* requests that wait for their load, none whose load is under way, and no *)
(* request waits for a load that nobody works on.                          *)
THEOREM CompletionsAlwaysBelong == ASSUME Configured PROVE Spec => []CompletionsBelong
<1>1. QueuesInv => LoadsTracked
  BY DEF QueuesInv
<1>2. QED
  BY <1>1, PlacedInvariance, QueuesInvariance, PlacedCompletions, PTL

(* Without the interleave controller what the waiting pass skipped is back *)
(* in a queue when the handler ends.                                       *)
THEOREM SkippedAlwaysRequeued == ASSUME Configured PROVE Spec => []SkippedAreRequeued
<1>1. QueuedOnce => SkippedAreRequeued
  BY DEF QueuedOnce, SkippedAreRequeued
<1>2. QED
  BY <1>1, EachQueuedOnce, PTL

(* Without preemption a session whose next chunk has begun is queued.      *)
THEOREM SessionsAlwaysCommence == ASSUME Configured PROVE Spec => []SessionCommences
<1>1. QueuesAssumption /\ QueuedOnce => SessionCommences
  BY DEF QueuesAssumption, QueuedOnce, SessionCommences, Live
<1>2. QED
  BY <1>1, EachQueuedOnce, PTL DEF Configured
=============================================================================
