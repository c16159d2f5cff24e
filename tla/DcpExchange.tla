------------------------------ MODULE DcpExchange ------------------------------
(* The exchanges between the ranks that share a KV cache, layer after layer *)
(* (dcp.py): a query gather into one symmetric buffer that attention then   *)
(* reads in place, an output exchange and a KV gather into two alternating  *)
(* buffers, each with signals instead of a collective; and the collectives  *)
(* they fall back to. Every rank runs on its own; only signals and          *)
(* collectives order them. The kernels behind direct_dcp_* and the          *)
(* collectives are not in the repository. One micro-batch: a workspace has  *)
(* buffers, signals and an epoch of its own for each.                       *)
EXTENDS Integers, Sequences, FiniteSets

CONSTANTS
  N,            \* ranks
  MaxSteps,     \* bound: layer calls
  Backends,     \* [a2a: dcp_comm_backend = "a2a"; a2a_direct, q_direct, kv_direct:
                \* peer access or multicast; pcp: no query gather]
  Config        \* [max_num_batched_tokens, max_num_seqs, speculative, parallel, capture]

VARIABLES
  backend, \* one of Backends
  plan,    \* the layer calls: [kind, tokens], the same on all ranks
  step,    \* rank |-> number of the call it is at
  pc,      \* rank |-> "q", "kv", "combine": entering; "wait"; "use"
  op,      \* rank |-> the exchange under way
  sent,    \* rank |-> peers that have its data of this exchange
  epoch,   \* <<rank, workspace>> |-> exchanges done
  buffer,  \* <<rank, workspace, slot, source>> |-> call whose data it holds
  signal,  \* <<rank, workspace, slot, source>> |-> epoch
  entered  \* rank |-> collectives it has entered
vars == <<backend, plan, step, pc, op, sent, epoch, buffer, signal, entered>>

Ranks == 0..(N - 1)
Workspaces == {"q", "combine", "kv"}
MaxOf(a, b) == IF a > b THEN a ELSE b
MinOf(a, b) == IF a < b THEN a ELSE b

get_dcp_workspace_max_num_tokens ==
  LET tokens_per_seq == 1 + (IF Config.parallel THEN 2 ELSE 1) * Config.speculative
  IN  MinOf(Config.max_num_batched_tokens,
            MaxOf(Config.max_num_seqs * tokens_per_seq, Config.capture))

\* What a layer call exchanges, and how many tokens it has: a decode of the
\* most requests, a long prefill run as a decode, or a chunk of a context.
DecodeTokens == MinOf(Config.max_num_batched_tokens,
                      Config.max_num_seqs * (1 + Config.speculative))
Calls == {[kind |-> "decode", tokens |-> DecodeTokens],
          [kind |-> "decode", tokens |-> Config.max_num_batched_tokens],
          [kind |-> "chunk", tokens |-> 1]}

First(call) == IF call.kind = "chunk" THEN "kv" ELSE IF backend.pcp THEN "combine" ELSE "q"
Fits(call) == call.tokens <= get_dcp_workspace_max_num_tokens

\* The workspaces there are, and whether the call uses one.
_init_combine(call) == backend.a2a /\ backend.a2a_direct
_direct_workspace_combine(call) == _init_combine(call) /\ Fits(call)
_init_query_gather == backend.q_direct
_direct_workspace_query_gather(call) == _init_query_gather /\ Fits(call)
init_kv_gather == backend.kv_direct
Direct(ws, call) ==
  CASE ws = "combine" -> _direct_workspace_combine(call)
    [] ws = "q"  -> _direct_workspace_query_gather(call)
    [] ws = "kv" -> init_kv_gather

SingleBuffer == [s \in 0..0 |-> 0]

\* The buffers of a workspace, used in turn. The query has one: the combine
\* behind the attention orders the ranks.
DirectDCPA2AWorkspace      == [s \in 0..1 |-> 0]
DirectDCPQGatherWorkspace  == [s \in 0..0 |-> 0]
DirectDCPKVGatherWorkspace == [s \in 0..1 |-> 0]
SlotsOf(ws) ==
  CASE ws = "combine" -> DOMAIN DirectDCPA2AWorkspace
    [] ws = "q"  -> DOMAIN DirectDCPQGatherWorkspace
    [] ws = "kv" -> DOMAIN DirectDCPKVGatherWorkspace
Slot(ws, e) == e % Cardinality(SlotsOf(ws))

Call(r) == plan[step[r]]
Running(r) == step[r] <= Len(plan)
Places == UNION {{<<r, ws, s, src>> : r \in Ranks, s \in SlotsOf(ws), src \in Ranks} : ws \in Workspaces}
Current(r, ws) == {<<r, ws, Slot(ws, epoch[<<r, ws>>]), src>> : src \in Ranks}

Init ==
  /\ backend \in Backends
  /\ plan \in UNION {[1..k -> Calls] : k \in 1..MaxSteps}
  /\ step = [r \in Ranks |-> 1]
  /\ pc = [r \in Ranks |-> First(plan[1])] /\ op = pc
  /\ sent = [r \in Ranks |-> {}] /\ entered = [r \in Ranks |-> 0]
  /\ epoch = [x \in Ranks \X Workspaces |-> 0]
  /\ buffer = [x \in Places |-> 0]
  /\ signal = [x \in Places |-> -1]
-----------------------------------------------------------------------------
\* A rank stores its part into the buffer of one peer after the other ...
Publish(r, peer) ==
  /\ Running(r) /\ pc[r] = op[r] /\ Direct(op[r], Call(r)) /\ peer \notin sent[r]
  /\ sent' = [sent EXCEPT ![r] = @ \cup {peer}]
  /\ buffer' = [buffer EXCEPT ![<<peer, op[r], Slot(op[r], epoch[<<r, op[r]>>]), r>>] = step[r]]
  /\ UNCHANGED <<backend, plan, step, pc, op, epoch, signal, entered>>
\* ... and signals them all.
Signal(r) ==
  /\ Running(r) /\ pc[r] = op[r] /\ sent[r] = Ranks
  /\ signal' = [x \in Places |->
       IF x[2] = op[r] /\ x[4] = r /\ x[3] = Slot(op[r], epoch[<<r, op[r]>>])
       THEN epoch[<<r, op[r]>>] ELSE signal[x]]
  /\ sent' = [sent EXCEPT ![r] = {}]
  /\ pc' = [pc EXCEPT ![r] = "wait"]
  /\ UNCHANGED <<backend, plan, step, op, epoch, buffer, entered>>
\* It waits for the signals of all ranks and then reads its own buffer.
AllSignalled(r) == \A x \in Current(r, op[r]) : signal[x] >= epoch[<<r, op[r]>>]
Arrived(r) ==
  /\ Running(r) /\ pc[r] = "wait" /\ Direct(op[r], Call(r)) /\ AllSignalled(r)
  /\ pc' = [pc EXCEPT ![r] = "use"]
  /\ UNCHANGED <<backend, plan, step, op, sent, epoch, buffer, signal, entered>>

\* The fallback: nobody leaves a collective before all have entered it.
_gather_query(r) ==
  /\ Running(r) /\ pc[r] = op[r] /\ ~Direct(op[r], Call(r))
  /\ entered' = [entered EXCEPT ![r] = @ + 1]
  /\ pc' = [pc EXCEPT ![r] = "wait"]
  /\ UNCHANGED <<backend, plan, step, op, sent, epoch, buffer, signal>>
AllEntered(r) == \A s \in Ranks : entered[s] >= entered[r]
Leave(r) ==
  /\ Running(r) /\ pc[r] = "wait" /\ ~Direct(op[r], Call(r)) /\ AllEntered(r)
  /\ pc' = [pc EXCEPT ![r] = "use"]
  /\ UNCHANGED <<backend, plan, step, op, sent, epoch, buffer, signal, entered>>

\* Done reading: attention after a query gather, and then the combine; the
\* reduction or the copy after the others, and then the next layer.
Done(r) ==
  /\ Running(r) /\ pc[r] = "use"
  /\ epoch' = IF Direct(op[r], Call(r)) THEN [epoch EXCEPT ![<<r, op[r]>>] = @ + 1] ELSE epoch
  /\ step' = IF op[r] = "q" THEN step ELSE [step EXCEPT ![r] = @ + 1]
  /\ op' = [op EXCEPT ![r] = IF @ = "q" THEN "combine"
                             ELSE IF step[r] < Len(plan) THEN First(plan[step[r] + 1]) ELSE @]
  /\ pc' = [pc EXCEPT ![r] = op'[r]]
  /\ UNCHANGED <<backend, plan, sent, buffer, signal, entered>>

Next == \E r \in Ranks :
  \/ \E peer \in Ranks : Publish(r, peer)
  \/ Signal(r) \/ Arrived(r) \/ _gather_query(r) \/ Leave(r) \/ Done(r)
Spec == Init /\ [][Next]_vars
-----------------------------------------------------------------------------
\* While a rank reads a symmetric buffer, the buffer holds every rank's part
\* of the very call the rank is at, although no rank waits for the others to
\* be done reading before it stores its next part ("The final buffer is
\* reusable after the downstream DCP output combine").
ReadsOwnCall ==
  \A r \in Ranks : Running(r) /\ pc[r] = "use" /\ Direct(op[r], Call(r)) =>
    \A x \in Current(r, op[r]) : buffer[x] = step[r]

\* The ranks never all wait for one another: until all are done, some rank has
\* something to store, to signal or to read, or what it waits for is there. And
\* no decode is too large for the workspaces that were sized for it.
NobodyStuck ==
  /\ (\E r \in Ranks : Running(r)) =>
       \E r \in Ranks :
         /\ Running(r)
         /\ pc[r] = "wait" => IF Direct(op[r], Call(r)) THEN AllSignalled(r) ELSE AllEntered(r)
  /\ DecodeTokens <= get_dcp_workspace_max_num_tokens
=============================================================================
