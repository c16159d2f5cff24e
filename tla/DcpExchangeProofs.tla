-------------------------- MODULE DcpExchangeProofs --------------------------
(***************************************************************************)
(* Proofs about DcpExchange for any number of ranks, any sequence of layer *)
(* calls, any choice of direct and collective exchanges and any sizes: a   *)
(* rank reads the data of its own call, and the ranks never all wait.      *)
(*                                                                         *)
(* No two ranks are more than one exchange apart, although nothing orders  *)
(* them but what they wait for in each exchange.  Together says so pair by *)
(* pair, with what follows for their epochs and collectives; the buffers   *)
(* are right because the exchange one ahead uses another buffer.           *)
(***************************************************************************)
EXTENDS DcpExchange, FiniteSetTheorems, TLAPS

(* Where a rank goes behind its present exchange.                          *)
StepBehind(r) == IF op[r] = "q" THEN step[r] ELSE step[r] + 1
OpBehind(r) == IF op[r] = "q" THEN "combine"
               ELSE IF step[r] < Len(plan) THEN First(plan[step[r] + 1]) ELSE op[r]

InDirect(r) == Running(r) /\ Direct(op[r], Call(r))
InCollective(r) == Running(r) /\ ~Direct(op[r], Call(r))
(* The rank has given its part to the present exchange.                    *)
HasGiven(r) == pc[r] \in {"wait", "use"}
(* Collectives entered before the present exchange.                        *)
EnteredBefore(r) == IF InCollective(r) /\ HasGiven(r) THEN entered[r] - 1 ELSE entered[r]

ExchangeTypes ==
  /\ Len(plan) \in Nat
  /\ step \in [Ranks -> Nat \ {0}] /\ op \in [Ranks -> Workspaces]
  /\ pc \in [Ranks -> Workspaces \cup {"wait", "use"}]
  /\ sent \in [Ranks -> SUBSET Ranks]
  /\ epoch \in [Ranks \X Workspaces -> Nat]
  /\ buffer \in [Places -> Nat] /\ signal \in [Places -> Int]
  /\ entered \in [Ranks -> Nat]

PhasesFit(r) ==
  /\ HasGiven(r) \/ pc[r] = op[r]
  /\ HasGiven(r) \/ op[r] = "q" => Running(r)
  /\ sent[r] # {} => pc[r] = op[r] /\ InDirect(r)
  /\ step[r] <= Len(plan) + 1

(* r and s are at the same exchange: none has passed it before the other   *)
(* has given its part.                                                     *)
AtSame(r, s) ==
  /\ step[r] = step[s] /\ op[r] = op[s]
  /\ \A ws \in Workspaces : epoch[<<r, ws>>] = epoch[<<s, ws>>]
  /\ EnteredBefore(r) = EnteredBefore(s)
  /\ pc[r] = "use" => HasGiven(s)
  /\ pc[s] = "use" => HasGiven(r)

(* s is at the exchange behind that of r, which has given its part.        *)
OneAhead(s, r) ==
  /\ HasGiven(r) /\ pc[s] # "use"
  /\ step[s] = StepBehind(r) /\ op[s] = OpBehind(r)
  /\ \A ws \in Workspaces :
       epoch[<<s, ws>>] = epoch[<<r, ws>>] + (IF ws = op[r] /\ InDirect(r) THEN 1 ELSE 0)
  /\ EnteredBefore(s) = EnteredBefore(r) + (IF InCollective(r) THEN 1 ELSE 0)

Together(r, s) == AtSame(r, s) \/ OneAhead(s, r) \/ OneAhead(r, s)

(* What src puts into its exchange number e on ws, seen by rank r.         *)
Place(r, ws, e, src) == <<r, ws, Slot(ws, e), src>>

(* A signal is never newer than the exchange of the rank that sent it.     *)
SignalsAreSent(src) ==
  \A r \in Ranks, ws \in Workspaces : \A s \in SlotsOf(ws) :
    /\ signal[<<r, ws, s, src>>] <= epoch[<<src, ws>>]
    /\ signal[<<r, ws, s, src>>] = epoch[<<src, ws>>] => op[src] = ws /\ InDirect(src) /\ HasGiven(src)

(* What a rank has given is where its peers look for it ...                *)
IsGiven(src) ==
  InDirect(src) =>
    \A r \in Ranks :
      LET x == Place(r, op[src], epoch[<<src, op[src]>>], src)
      IN  /\ HasGiven(src) \/ r \in sent[src] => buffer[x] = step[src]
          /\ HasGiven(src) => signal[x] = epoch[<<src, op[src]>>]

(* ... and stays there while it is one exchange ahead of them.             *)
IsKept(r, src) ==
  OneAhead(src, r) /\ InDirect(r) =>
    LET x == Place(r, op[r], epoch[<<r, op[r]>>], src)
    IN  buffer[x] = step[r] /\ signal[x] = epoch[<<r, op[r]>>]

ExchangeInv ==
  /\ ExchangeTypes
  /\ \A r \in Ranks : PhasesFit(r) /\ SignalsAreSent(r) /\ IsGiven(r)
  /\ \A r, s \in Ranks : Together(r, s) /\ IsKept(r, s)

-----------------------------------------------------------------------------
(* Places and slots *)

LEMMA SlotsKnown ==
  /\ \A ws \in Workspaces : SlotsOf(ws) = IF ws = "q" THEN 0 .. 0 ELSE 0 .. 1
  /\ \A ws \in Workspaces : Cardinality(SlotsOf(ws)) = IF ws = "q" THEN 1 ELSE 2
<1>1. \A ws \in Workspaces : SlotsOf(ws) = IF ws = "q" THEN 0 .. 0 ELSE 0 .. 1
  BY DEF Workspaces, SlotsOf, DirectDCPA2AWorkspace, DirectDCPQGatherWorkspace, DirectDCPKVGatherWorkspace
<1>2. Cardinality(0 .. 0) = 1 /\ Cardinality(0 .. 1) = 2
  <2>1. 0 \in Int /\ 1 \in Int
    OBVIOUS
  <2>2. /\ Cardinality(0 .. 0) = IF 0 > 0 THEN 0 ELSE 0 - 0 + 1
        /\ Cardinality(0 .. 1) = IF 0 > 1 THEN 0 ELSE 1 - 0 + 1
    BY <2>1, FS_Interval, Zenon
  <2>3. QED
    BY <2>2
<1>3. QED
  BY <1>1, <1>2

(* Two exchanges in a row on a workspace with two buffers use both.        *)
LEMMA SlotsAlternate ==
  ASSUME NEW ws \in Workspaces, NEW e \in Nat
  PROVE  /\ Slot(ws, e) \in SlotsOf(ws)
         /\ ws # "q" => Slot(ws, e) # Slot(ws, e + 1)
<1>1. CASE ws = "q"
  <2>1. Slot(ws, e) = e % 1 /\ SlotsOf(ws) = 0 .. 0
    BY <1>1, SlotsKnown DEF Slot
  <2>2. QED
    BY <1>1, <2>1
<1>2. CASE ws # "q"
  <2>1. Slot(ws, e) = e % 2 /\ Slot(ws, e + 1) = (e + 1) % 2 /\ SlotsOf(ws) = 0 .. 1
    BY <1>2, SlotsKnown DEF Slot
  <2>2. e % 2 \in 0 .. 1 /\ e % 2 # (e + 1) % 2
    OBVIOUS
  <2>3. QED
    BY <2>1, <2>2
<1>3. QED
  BY <1>1, <1>2

LEMMA PlaceExists ==
  ASSUME NEW r \in Ranks, NEW src \in Ranks, NEW ws \in Workspaces, NEW s \in SlotsOf(ws)
  PROVE  <<r, ws, s, src>> \in Places
BY DEF Places

LEMMA PlaceKnown ==
  ASSUME NEW r \in Ranks, NEW src \in Ranks, NEW ws \in Workspaces, NEW e \in Nat
  PROVE  Place(r, ws, e, src) \in Places
BY SlotsAlternate, PlaceExists DEF Place

-----------------------------------------------------------------------------
(* What follows from where two ranks are *)

(* The facts of ExchangeTypes about one rank.                              *)
LEMMA RankTyped ==
  ASSUME ExchangeTypes, NEW r \in Ranks
  PROVE  /\ Len(plan) \in Nat /\ step[r] \in Nat /\ step[r] > 0
         /\ op[r] \in Workspaces
         /\ \A ws \in Workspaces : epoch[<<r, ws>>] \in Nat
         /\ entered[r] \in Nat /\ EnteredBefore(r) \in Int
         /\ Running(r) = (step[r] <= Len(plan))
         /\ HasGiven(r) = (pc[r] \in {"wait", "use"})
BY DEF ExchangeTypes, EnteredBefore, Running, HasGiven

(* A rank that waits in vain for nobody has nobody behind it: whoever is   *)
(* one exchange behind has not sent the signal awaited.                    *)
LEMMA AllHaveSignalled ==
  ASSUME ExchangeInv, NEW r \in Ranks, NEW s \in Ranks,
         pc[r] = "wait", InDirect(r), AllSignalled(r)
  PROVE  ~OneAhead(r, s) /\ (AtSame(r, s) => HasGiven(s))
<1>. DEFINE e == epoch[<<r, op[r]>>]
<1>1. /\ Together(r, s) /\ ExchangeTypes /\ SignalsAreSent(s)
      /\ op[r] \in Workspaces /\ e \in Nat /\ epoch[<<s, op[r]>>] \in Nat
  BY RankTyped DEF ExchangeInv
<1>2. Slot(op[r], e) \in SlotsOf(op[r])
  BY <1>1, SlotsAlternate
<1>3. Place(r, op[r], e, s) \in Places /\ signal[Place(r, op[r], e, s)] \in Int
  BY <1>1, PlaceKnown DEF ExchangeTypes
<1>4. signal[Place(r, op[r], e, s)] >= e
  BY DEF AllSignalled, Current, Place
<1>5. /\ e <= epoch[<<s, op[r]>>]
      /\ e = epoch[<<s, op[r]>>] => op[s] = op[r] /\ InDirect(s) /\ HasGiven(s)
  BY <1>1, <1>2, <1>3, <1>4 DEF SignalsAreSent, Place
<1>6. ~OneAhead(r, s)
  <2>1. SUFFICES ASSUME OneAhead(r, s) PROVE FALSE
    OBVIOUS
  <2>2. e = epoch[<<s, op[r]>>] + (IF op[r] = op[s] /\ InDirect(s) THEN 1 ELSE 0)
    BY <1>1, <2>1 DEF OneAhead
  <2>3. QED
    BY <1>1, <1>5, <2>2
<1>7. AtSame(r, s) => HasGiven(s)
  BY <1>1, <1>5 DEF AtSame
<1>8. QED
  BY <1>6, <1>7

LEMMA AllHaveEntered ==
  ASSUME ExchangeInv, NEW r \in Ranks, NEW s \in Ranks,
         pc[r] = "wait", InCollective(r), AllEntered(r)
  PROVE  ~OneAhead(r, s) /\ (AtSame(r, s) => HasGiven(s))
<1>1. /\ ExchangeTypes /\ entered[r] \in Nat /\ entered[s] \in Nat
      /\ entered[s] >= entered[r] /\ PhasesFit(s)
  BY RankTyped DEF ExchangeInv, AllEntered
<1>2. EnteredBefore(r) = entered[r] - 1
  BY DEF EnteredBefore, HasGiven
<1>3. ASSUME OneAhead(r, s) PROVE FALSE
  <2>1. /\ HasGiven(s) /\ EnteredBefore(r) = EnteredBefore(s) + (IF InCollective(s) THEN 1 ELSE 0)
    BY <1>3 DEF OneAhead
  <2>2. QED
    BY <1>1, <1>2, <2>1 DEF EnteredBefore
<1>4. ASSUME AtSame(r, s) PROVE HasGiven(s)
  <2>1. EnteredBefore(s) = EnteredBefore(r) /\ (InCollective(s) = InCollective(r))
    BY <1>4 DEF AtSame, InCollective, Running, Call
  <2>2. QED
    BY <1>1, <1>2, <2>1 DEF EnteredBefore
<1>5. QED
  BY <1>3, <1>4


-----------------------------------------------------------------------------
(* The initial states *)

LEMMA FirstKnown == \A call : First(call) \in Workspaces
BY DEF First, Workspaces

LEMMA ExchangeInit ==
  ASSUME N \in Nat \ {0}, MaxSteps \in Nat, Init
  PROVE  ExchangeInv
<1>1. PICK k \in 1 .. MaxSteps : plan \in [1 .. k -> Calls]
  BY DEF Init
<1>2. Len(plan) = k /\ k \in Nat /\ k > 0
  <2>1. k \in Nat /\ k > 0
    BY <1>1
  <2>2. plan \in Seq(Calls)
    BY <1>1, <2>1
  <2>3. QED
    BY <1>1, <2>1, <2>2
<1>3. /\ step = [r \in Ranks |-> 1] /\ pc = [r \in Ranks |-> First(plan[1])] /\ op = pc
      /\ sent = [r \in Ranks |-> {}] /\ entered = [r \in Ranks |-> 0]
      /\ epoch = [x \in Ranks \X Workspaces |-> 0]
      /\ buffer = [x \in Places |-> 0] /\ signal = [x \in Places |-> -1]
  BY DEF Init
<1>4. ExchangeTypes
  BY <1>2, <1>3, FirstKnown DEF ExchangeTypes
<1>5. \A r \in Ranks : Running(r) /\ ~HasGiven(r) /\ pc[r] = op[r]
  BY <1>2, <1>3, FirstKnown DEF Running, HasGiven, Workspaces
<1>6. \A r, s \in Ranks : Together(r, s) /\ ~OneAhead(r, s)
  <2>1. \A r \in Ranks : EnteredBefore(r) = 0
    BY <1>3, <1>5 DEF EnteredBefore
  <2>2. \A r, s \in Ranks : AtSame(r, s)
    BY <1>3, <1>5, <2>1, FirstKnown DEF AtSame, Workspaces
  <2>3. QED
    BY <1>5, <2>2 DEF Together, OneAhead
<1>7. ASSUME NEW r \in Ranks PROVE PhasesFit(r) /\ SignalsAreSent(r) /\ IsGiven(r)
  <2>1. PhasesFit(r)
    BY <1>2, <1>3, <1>5 DEF PhasesFit
  <2>2. SignalsAreSent(r)
    <3>1. SUFFICES ASSUME NEW q \in Ranks, NEW ws \in Workspaces, NEW s \in SlotsOf(ws)
                   PROVE  signal[<<q, ws, s, r>>] < epoch[<<r, ws>>]
      BY <1>3, PlaceExists DEF SignalsAreSent
    <3>2. signal[<<q, ws, s, r>>] = -1 /\ epoch[<<r, ws>>] = 0
      BY <1>3, PlaceExists
    <3>3. QED
      BY <3>2
  <2>3. IsGiven(r)
    BY <1>3, <1>5 DEF IsGiven
  <2>4. QED
    BY <2>1, <2>2, <2>3
<1>8. QED
  BY <1>4, <1>6, <1>7 DEF ExchangeInv, IsKept

-----------------------------------------------------------------------------
(* Steps within an exchange *)

(* A rank whose exchange is the one behind that of another is neither at   *)
(* the same nor behind.                                                    *)
LEMMA Apart ==
  ASSUME ExchangeTypes, NEW q \in Ranks, NEW s \in Ranks,
         step[q] = StepBehind(s), op[q] = OpBehind(s)
  PROVE  ~AtSame(q, s) /\ ~AtSame(s, q) /\ ~OneAhead(s, q)
BY RankTyped DEF AtSame, OneAhead, StepBehind, OpBehind

(* What is said of a rank's place depends on the place alone.              *)
LEMMA StaysAlone ==
  ASSUME UNCHANGED <<backend, plan>>, NEW r, step'[r] = step[r], op'[r] = op[r]
  PROVE  /\ Running(r)' = Running(r) /\ Call(r)' = Call(r)
         /\ InDirect(r)' = InDirect(r) /\ InCollective(r)' = InCollective(r)
         /\ StepBehind(r)' = StepBehind(r) /\ OpBehind(r)' = OpBehind(r)
<1>1. \A ws, call : Direct(ws, call)' = Direct(ws, call)
  BY DEF Direct, _direct_workspace_combine, _direct_workspace_query_gather, init_kv_gather,
         _init_combine, _init_query_gather, Fits
<1>2. \A call : First(call)' = First(call)
  BY DEF First
<1>3. QED
  BY <1>1, <1>2 DEF Running, Call, InDirect, InCollective, StepBehind, OpBehind

(* Where the ranks are does not change but in Done.                        *)
LEMMA StaysThere ==
  ASSUME UNCHANGED <<backend, plan, step, op>>
  PROVE  \A r : /\ Running(r)' = Running(r) /\ Call(r)' = Call(r)
                /\ InDirect(r)' = InDirect(r) /\ InCollective(r)' = InCollective(r)
                /\ StepBehind(r)' = StepBehind(r) /\ OpBehind(r)' = OpBehind(r)
BY StaysAlone

(* A step within an exchange keeps the ranks together: it gives r's part,  *)
(* or lets r read, when all others have given theirs.                      *)
LEMMA TogetherKept ==
  ASSUME ExchangeInv, NEW r \in Ranks, UNCHANGED <<backend, plan, step, op, epoch>>,
         \A q \in Ranks : EnteredBefore(q)' = EnteredBefore(q),
         \A q \in Ranks : HasGiven(q) => HasGiven(q)' /\ (pc[q] = "use" => pc'[q] = "use"),
         \A q \in Ranks : pc'[q] = "use" /\ pc[q] # "use" =>
           \A s \in Ranks : ~OneAhead(q, s) /\ (AtSame(q, s) => HasGiven(s))
  PROVE  /\ \A q, s \in Ranks : Together(q, s)'
         /\ \A q, s \in Ranks : OneAhead(q, s)' => OneAhead(q, s)
<1>. USE StaysThere
<1>1. ASSUME NEW q \in Ranks, NEW s \in Ranks PROVE AtSame(q, s) => AtSame(q, s)'
  BY <1>1 DEF AtSame, HasGiven
<1>2. ASSUME NEW q \in Ranks, NEW s \in Ranks PROVE OneAhead(q, s) => OneAhead(q, s)'
  BY <1>2 DEF OneAhead, HasGiven
<1>3. ASSUME NEW q \in Ranks, NEW s \in Ranks, OneAhead(q, s)' PROVE OneAhead(q, s)
  <2>1. step[q] = StepBehind(s) /\ op[q] = OpBehind(s)
    BY <1>3 DEF OneAhead
  <2>2. ExchangeTypes /\ Together(q, s)
    BY DEF ExchangeInv
  <2>3. QED
    BY <2>1, <2>2, RankTyped, Apart DEF Together
<1>4. QED
  BY <1>1, <1>2, <1>3 DEF ExchangeInv, Together


(* Reading may begin. *)
LEMMA ReadStep ==
  ASSUME ExchangeInv, NEW r \in Ranks, Arrived(r) \/ Leave(r)
  PROVE  ExchangeInv'
<1>1. /\ pc[r] = "wait" /\ pc' = [pc EXCEPT ![r] = "use"]
      /\ UNCHANGED <<backend, plan, step, op, sent, epoch, buffer, signal, entered>>
  BY DEF Arrived, Leave
<1>2. ExchangeTypes /\ pc \in [Ranks -> Workspaces \cup {"wait", "use"}]
  BY DEF ExchangeInv, ExchangeTypes
<1>. USE StaysThere
<1>3. \A q \in Ranks : /\ HasGiven(q)' = HasGiven(q) /\ EnteredBefore(q)' = EnteredBefore(q)
                       /\ pc'[q] = IF q = r THEN "use" ELSE pc[q]
  BY <1>1, <1>2 DEF HasGiven, EnteredBefore
<1>4. \A s \in Ranks : ~OneAhead(r, s) /\ (AtSame(r, s) => HasGiven(s))
  BY AllHaveSignalled, AllHaveEntered DEF Arrived, Leave, InDirect, InCollective
<1>5. /\ \A q, s \in Ranks : Together(q, s)'
      /\ \A q, s \in Ranks : OneAhead(q, s)' => OneAhead(q, s)
  BY <1>1, <1>3, <1>4, TogetherKept, Zenon
<1>6. ExchangeTypes'
  BY <1>1, <1>2 DEF ExchangeTypes
<1>7. ASSUME NEW q \in Ranks PROVE PhasesFit(q)' /\ SignalsAreSent(q)' /\ IsGiven(q)'
  <2>1. PhasesFit(q) /\ SignalsAreSent(q) /\ IsGiven(q)
    BY DEF ExchangeInv
  <2>2. PhasesFit(q)'
    <3>1. CASE q = r
      <4>1. HasGiven(r) /\ HasGiven(r)' /\ pc[r] # op[r]
        BY <1>1, <1>2, <1>3 DEF HasGiven, ExchangeTypes, Workspaces
      <4>2. QED
        BY <1>1, <2>1, <3>1, <4>1 DEF PhasesFit
    <3>2. CASE q # r
      BY <1>1, <1>3, <2>1, <3>2 DEF PhasesFit
    <3>3. QED
      BY <3>1, <3>2
  <2>3. SignalsAreSent(q)'
    BY <1>1, <1>3, <2>1 DEF SignalsAreSent
  <2>4. IsGiven(q)'
    BY <1>1, <1>3, <2>1 DEF IsGiven, Place
  <2>5. QED
    BY <2>2, <2>3, <2>4
<1>8. \A q, s \in Ranks : IsKept(q, s)'
  BY <1>1, <1>5 DEF ExchangeInv, IsKept, Place
<1>9. QED
  BY <1>5, <1>6, <1>7, <1>8 DEF ExchangeInv

(* Entering a collective. *)
LEMMA EnterStep ==
  ASSUME ExchangeInv, NEW r \in Ranks, _gather_query(r)
  PROVE  ExchangeInv'
<1>1. /\ pc[r] = op[r] /\ pc' = [pc EXCEPT ![r] = "wait"] /\ InCollective(r)
      /\ entered' = [entered EXCEPT ![r] = @ + 1]
      /\ UNCHANGED <<backend, plan, step, op, sent, epoch, buffer, signal>>
  BY DEF _gather_query, InCollective
<1>2. /\ ExchangeTypes /\ pc \in [Ranks -> Workspaces \cup {"wait", "use"}]
      /\ entered \in [Ranks -> Nat] /\ op[r] \in Workspaces
  BY DEF ExchangeInv, ExchangeTypes
<1>. USE StaysThere
<1>3. /\ ~HasGiven(r) /\ HasGiven(r)' /\ ~InDirect(r)
      /\ \A q \in Ranks : q # r => HasGiven(q)' = HasGiven(q) /\ pc'[q] = pc[q] /\ entered'[q] = entered[q]
      /\ pc'[r] = "wait" /\ entered'[r] = entered[r] + 1
  BY <1>1, <1>2 DEF HasGiven, Workspaces, InCollective, InDirect
<1>4. ASSUME NEW q \in Ranks PROVE EnteredBefore(q)' = EnteredBefore(q)
  <2>1. CASE q = r
    BY <1>1, <1>2, <1>3, <2>1 DEF EnteredBefore
  <2>2. CASE q # r
    BY <1>1, <1>3, <2>2 DEF EnteredBefore
  <2>3. QED
    BY <2>1, <2>2
<1>5. /\ \A q, s \in Ranks : Together(q, s)'
      /\ \A q, s \in Ranks : OneAhead(q, s)' => OneAhead(q, s)
  <2>1. \A q \in Ranks : /\ HasGiven(q) => HasGiven(q)' /\ (pc[q] = "use" => pc'[q] = "use")
                         /\ ~(pc'[q] = "use" /\ pc[q] # "use")
    BY <1>3, <1>1 DEF HasGiven
  <2>2. QED
    BY <1>1, <1>4, <2>1, TogetherKept, Zenon
<1>6. ExchangeTypes'
  BY <1>1, <1>2 DEF ExchangeTypes
<1>7. ASSUME NEW q \in Ranks PROVE PhasesFit(q)' /\ SignalsAreSent(q)' /\ IsGiven(q)'
  <2>1. PhasesFit(q) /\ SignalsAreSent(q) /\ IsGiven(q)
    BY DEF ExchangeInv
  <2>2. PhasesFit(q)'
    BY <1>1, <1>2, <1>3, <2>1 DEF PhasesFit, HasGiven, InCollective
  <2>3. SignalsAreSent(q)'
    BY <1>1, <1>3, <2>1 DEF SignalsAreSent
  <2>4. IsGiven(q)'
    BY <1>1, <1>3, <2>1 DEF IsGiven, Place
  <2>5. QED
    BY <2>2, <2>3, <2>4
<1>8. \A q, s \in Ranks : IsKept(q, s)'
  BY <1>1, <1>5 DEF ExchangeInv, IsKept, Place
<1>9. QED
  BY <1>5, <1>6, <1>7, <1>8 DEF ExchangeInv

(* A rank that is one exchange ahead writes elsewhere: on another          *)
(* workspace, or into the other of two buffers.                            *)
LEMMA WritesElsewhere ==
  ASSUME ExchangeInv, NEW r \in Ranks, NEW src \in Ranks, OneAhead(src, r), InDirect(r), NEW p \in Ranks
  PROVE  Place(p, op[src], epoch[<<src, op[src]>>], src) # Place(r, op[r], epoch[<<r, op[r]>>], src)
<1>1. /\ op[r] \in Workspaces /\ op[src] \in Workspaces
      /\ epoch[<<r, op[r]>>] \in Nat
      /\ op[src] = OpBehind(r)
      /\ op[src] = op[r] => epoch[<<src, op[src]>>] = epoch[<<r, op[r]>>] + 1
  BY RankTyped DEF ExchangeInv, OneAhead
<1>2. CASE op[src] # op[r]
  BY <1>2 DEF Place
<1>3. CASE op[src] = op[r]
  <2>1. op[r] # "q"
    BY <1>1, <1>3 DEF OpBehind
  <2>2. Slot(op[r], epoch[<<r, op[r]>>]) # Slot(op[src], epoch[<<src, op[src]>>])
    BY <1>1, <1>3, <2>1, SlotsAlternate
  <2>3. QED
    BY <2>2 DEF Place
<1>4. QED
  BY <1>2, <1>3

LEMMA PublishStep ==
  ASSUME ExchangeInv, NEW r \in Ranks, NEW peer \in Ranks, Publish(r, peer)
  PROVE  ExchangeInv'
<1>. DEFINE here == Place(peer, op[r], epoch[<<r, op[r]>>], r)
<1>1. /\ pc[r] = op[r] /\ InDirect(r)
      /\ sent' = [sent EXCEPT ![r] = @ \cup {peer}]
      /\ buffer' = [buffer EXCEPT ![here] = step[r]]
      /\ UNCHANGED <<backend, plan, step, pc, op, epoch, signal, entered>>
  BY DEF Publish, InDirect, Place
<1>2. /\ ExchangeTypes /\ sent \in [Ranks -> SUBSET Ranks]
      /\ buffer \in [Places -> Nat] /\ op[r] \in Workspaces /\ epoch[<<r, op[r]>>] \in Nat /\ step[r] \in Nat
  BY RankTyped DEF ExchangeInv, ExchangeTypes
<1>. USE StaysThere
<1>3. /\ ~HasGiven(r) /\ here \in Places
      /\ \A q \in Ranks : HasGiven(q)' = HasGiven(q) /\ EnteredBefore(q)' = EnteredBefore(q) /\ pc'[q] = pc[q]
      /\ \A x \in Places : buffer'[x] = IF x = here THEN step[r] ELSE buffer[x]
  BY <1>1, <1>2, PlaceKnown DEF HasGiven, EnteredBefore, Workspaces
<1>5. /\ \A q, s \in Ranks : Together(q, s)'
      /\ \A q, s \in Ranks : OneAhead(q, s)' => OneAhead(q, s)
  BY <1>1, <1>3, TogetherKept, Zenon
<1>6. ExchangeTypes'
  BY <1>1, <1>2, <1>3 DEF ExchangeTypes
<1>7. ASSUME NEW q \in Ranks PROVE PhasesFit(q)' /\ SignalsAreSent(q)' /\ IsGiven(q)'
  <2>1. PhasesFit(q) /\ SignalsAreSent(q) /\ IsGiven(q)
    BY DEF ExchangeInv
  <2>2. PhasesFit(q)'
    BY <1>1, <1>2, <1>3, <2>1 DEF PhasesFit
  <2>3. SignalsAreSent(q)'
    BY <1>1, <1>3, <2>1 DEF SignalsAreSent
  <2>4. IsGiven(q)'
    <3>1. SUFFICES ASSUME InDirect(q), NEW p \in Ranks
                   PROVE  LET x == Place(p, op[q], epoch[<<q, op[q]>>], q)
                          IN  /\ HasGiven(q) \/ p \in sent'[q] => buffer'[x] = step[q]
                              /\ HasGiven(q) => signal[x] = epoch[<<q, op[q]>>]
      BY <1>1, <1>3 DEF IsGiven, Place
    <3>2. Place(p, op[q], epoch[<<q, op[q]>>], q) \in Places
      BY <1>2, RankTyped, PlaceKnown
    <3>3. CASE q = r
      <4>1. sent'[r] = sent[r] \cup {peer}
        BY <1>1, <1>2
      <4>2. p # peer => Place(p, op[r], epoch[<<r, op[r]>>], r) # here
        BY DEF Place
      <4>3. QED
        BY <1>3, <2>1, <3>1, <3>2, <3>3, <4>1, <4>2 DEF IsGiven
    <3>4. CASE q # r
      <4>1. sent'[q] = sent[q] /\ Place(p, op[q], epoch[<<q, op[q]>>], q) # here
        BY <1>1, <1>2, <3>4 DEF Place
      <4>2. QED
        BY <1>3, <2>1, <3>1, <3>2, <4>1 DEF IsGiven
    <3>5. QED
      BY <3>3, <3>4
  <2>5. QED
    BY <2>2, <2>3, <2>4
<1>8. ASSUME NEW q \in Ranks, NEW s \in Ranks PROVE IsKept(q, s)'
  <2>1. SUFFICES ASSUME OneAhead(s, q), InDirect(q)
                 PROVE  LET x == Place(q, op[q], epoch[<<q, op[q]>>], s)
                        IN  buffer'[x] = step[q] /\ signal[x] = epoch[<<q, op[q]>>]
    BY <1>1, <1>5 DEF IsKept, Place
  <2>2. IsKept(q, s)
    BY DEF ExchangeInv
  <2>3. Place(q, op[q], epoch[<<q, op[q]>>], s) \in Places
    BY <1>2, RankTyped, PlaceKnown
  <2>4. Place(q, op[q], epoch[<<q, op[q]>>], s) # here
    <3>1. CASE s = r
      BY <2>1, <3>1, WritesElsewhere
    <3>2. CASE s # r
      BY <3>2 DEF Place
    <3>3. QED
      BY <3>1, <3>2
  <2>5. QED
    BY <1>3, <2>1, <2>2, <2>3, <2>4 DEF IsKept
<1>9. QED
  BY <1>5, <1>6, <1>7, <1>8 DEF ExchangeInv


LEMMA SignalStep ==
  ASSUME N \in Nat \ {0}, ExchangeInv, NEW r \in Ranks, Signal(r)
  PROVE  ExchangeInv'
<1>. DEFINE e == epoch[<<r, op[r]>>]
<1>1. /\ pc[r] = op[r] /\ sent[r] = Ranks /\ sent' = [sent EXCEPT ![r] = {}]
      /\ pc' = [pc EXCEPT ![r] = "wait"]
      /\ signal' = [x \in Places |-> IF x[2] = op[r] /\ x[4] = r /\ x[3] = Slot(op[r], e)
                                     THEN e ELSE signal[x]]
      /\ UNCHANGED <<backend, plan, step, op, epoch, buffer, entered>>
  BY DEF Signal
<1>2. /\ ExchangeTypes /\ pc \in [Ranks -> Workspaces \cup {"wait", "use"}]
      /\ sent \in [Ranks -> SUBSET Ranks] /\ signal \in [Places -> Int]
      /\ op[r] \in Workspaces /\ e \in Nat /\ step[r] \in Nat
  BY RankTyped DEF ExchangeInv, ExchangeTypes
<1>3. InDirect(r) /\ ~InCollective(r)
  <2>1. 0 \in Ranks
    BY DEF Ranks
  <2>2. QED
    BY <1>1, <2>1 DEF ExchangeInv, PhasesFit, InDirect, InCollective
<1>. USE StaysThere
<1>4. /\ ~HasGiven(r) /\ HasGiven(r)' /\ pc'[r] = "wait" /\ sent'[r] = {}
      /\ \A q \in Ranks : q # r => HasGiven(q)' = HasGiven(q) /\ pc'[q] = pc[q] /\ sent'[q] = sent[q]
  BY <1>1, <1>2 DEF HasGiven, Workspaces
<1>5. \A q \in Ranks : EnteredBefore(q)' = EnteredBefore(q)
  BY <1>1, <1>3, <1>4 DEF EnteredBefore
<1>6. /\ \A q, s \in Ranks : Together(q, s)'
      /\ \A q, s \in Ranks : OneAhead(q, s)' => OneAhead(q, s)
  <2>1. \A q \in Ranks : /\ HasGiven(q) => HasGiven(q)' /\ (pc[q] = "use" => pc'[q] = "use")
                         /\ ~(pc'[q] = "use" /\ pc[q] # "use")
    BY <1>1, <1>4 DEF HasGiven
  <2>2. QED
    BY <1>1, <1>5, <2>1, TogetherKept, Zenon
<1>7. ASSUME NEW p \in Ranks, NEW q \in Ranks, NEW ws \in Workspaces, NEW s \in SlotsOf(ws)
      PROVE  signal'[<<p, ws, s, q>>] = IF ws = op[r] /\ q = r /\ s = Slot(op[r], e)
                                        THEN e ELSE signal[<<p, ws, s, q>>]
  <2>1. <<p, ws, s, q>> \in Places
    BY PlaceExists
  <2>2. QED
    BY <1>1, <2>1
<1>8. ASSUME NEW p \in Ranks, NEW q \in Ranks, NEW ws \in Workspaces, NEW f \in Nat
      PROVE  signal'[Place(p, ws, f, q)] = IF ws = op[r] /\ q = r /\ Slot(ws, f) = Slot(op[r], e)
                                           THEN e ELSE signal[Place(p, ws, f, q)]
  BY <1>7, SlotsAlternate DEF Place
<1>9. ExchangeTypes'
  <2>1. signal' \in [Places -> Int]
    BY <1>1, <1>2
  <2>2. pc' \in [Ranks -> Workspaces \cup {"wait", "use"}] /\ sent' \in [Ranks -> SUBSET Ranks]
    BY <1>1, <1>2
  <2>3. QED
    BY <1>1, <1>2, <2>1, <2>2 DEF ExchangeTypes
<1>10. ASSUME NEW q \in Ranks PROVE PhasesFit(q)'
  <2>1. PhasesFit(q)
    BY DEF ExchangeInv
  <2>2. CASE q = r
    BY <1>1, <1>3, <1>4, <2>1, <2>2 DEF PhasesFit, InDirect
  <2>3. CASE q # r
    BY <1>1, <1>4, <2>1, <2>3 DEF PhasesFit
  <2>4. QED
    BY <2>2, <2>3
<1>11. ASSUME NEW q \in Ranks PROVE SignalsAreSent(q)'
  <2>1. SignalsAreSent(q)
    BY DEF ExchangeInv
  <2>2. SUFFICES ASSUME NEW p \in Ranks, NEW ws \in Workspaces, NEW s \in SlotsOf(ws)
                 PROVE  /\ signal'[<<p, ws, s, q>>] <= epoch[<<q, ws>>]
                        /\ signal'[<<p, ws, s, q>>] = epoch[<<q, ws>>] =>
                             op[q] = ws /\ InDirect(q) /\ HasGiven(q)'
    BY <1>1 DEF SignalsAreSent
  <2>3. epoch[<<q, ws>>] \in Nat
    BY <1>2, RankTyped
  <2>4. /\ signal[<<p, ws, s, q>>] <= epoch[<<q, ws>>]
        /\ signal[<<p, ws, s, q>>] = epoch[<<q, ws>>] => op[q] = ws /\ InDirect(q) /\ HasGiven(q)
    BY <2>1 DEF SignalsAreSent
  <2>5. CASE ws = op[r] /\ q = r /\ s = Slot(op[r], e)
    BY <1>2, <1>3, <1>4, <1>7, <2>5
  <2>6. CASE ~(ws = op[r] /\ q = r /\ s = Slot(op[r], e))
    BY <1>4, <1>7, <2>4, <2>6
  <2>7. QED
    BY <2>5, <2>6
<1>12. ASSUME NEW q \in Ranks PROVE IsGiven(q)'
  <2>1. SUFFICES ASSUME InDirect(q), NEW p \in Ranks
                 PROVE  LET x == Place(p, op[q], epoch[<<q, op[q]>>], q)
                        IN  /\ HasGiven(q)' \/ p \in sent'[q] => buffer[x] = step[q]
                            /\ HasGiven(q)' => signal'[x] = epoch[<<q, op[q]>>]
    BY <1>1 DEF IsGiven, Place
  <2>2. IsGiven(q) /\ op[q] \in Workspaces /\ epoch[<<q, op[q]>>] \in Nat
    BY <1>2, RankTyped DEF ExchangeInv
  <2>3. CASE q = r
    BY <1>1, <1>8, <2>1, <2>2, <2>3 DEF IsGiven
  <2>4. CASE q # r
    BY <1>4, <1>8, <2>1, <2>2, <2>4 DEF IsGiven
  <2>5. QED
    BY <2>3, <2>4
<1>13. ASSUME NEW q \in Ranks, NEW s \in Ranks PROVE IsKept(q, s)'
  <2>1. SUFFICES ASSUME OneAhead(s, q), InDirect(q)
                 PROVE  LET x == Place(q, op[q], epoch[<<q, op[q]>>], s)
                        IN  buffer[x] = step[q] /\ signal'[x] = epoch[<<q, op[q]>>]
    BY <1>1, <1>6 DEF IsKept, Place
  <2>2. IsKept(q, s) /\ op[q] \in Workspaces /\ epoch[<<q, op[q]>>] \in Nat
    BY <1>2, RankTyped DEF ExchangeInv
  <2>3. ~(op[q] = op[r] /\ s = r /\ Slot(op[q], epoch[<<q, op[q]>>]) = Slot(op[r], e))
    BY <2>1, WritesElsewhere DEF Place
  <2>4. QED
    BY <1>8, <2>1, <2>2, <2>3 DEF IsKept
<1>14. QED
  BY <1>6, <1>9, <1>10, <1>11, <1>12, <1>13 DEF ExchangeInv

-----------------------------------------------------------------------------
(* The step to the next exchange: who reads has nobody behind it, so it    *)
(* gets one ahead of those at its exchange and meets those ahead.          *)

LEMMA DoneStep ==
  ASSUME ExchangeInv, NEW r \in Ranks, Done(r)
  PROVE  ExchangeInv'
<1>1. /\ pc[r] = "use" /\ Running(r)
      /\ epoch' = IF InDirect(r) THEN [epoch EXCEPT ![<<r, op[r]>>] = @ + 1] ELSE epoch
      /\ step' = IF op[r] = "q" THEN step ELSE [step EXCEPT ![r] = @ + 1]
      /\ op' = [op EXCEPT ![r] = IF @ = "q" THEN "combine"
                             ELSE IF step[r] < Len(plan) THEN First(plan[step[r] + 1]) ELSE @]
      /\ pc' = [pc EXCEPT ![r] = op'[r]]
      /\ UNCHANGED <<backend, plan, sent, buffer, signal, entered>>
  BY DEF Done, InDirect
<1>2. /\ ExchangeTypes /\ pc \in [Ranks -> Workspaces \cup {"wait", "use"}]
      /\ step \in [Ranks -> Nat \ {0}] /\ op \in [Ranks -> Workspaces]
      /\ epoch \in [Ranks \X Workspaces -> Nat]
  BY DEF ExchangeInv, ExchangeTypes
<1>3. /\ step'[r] = StepBehind(r) /\ op'[r] = OpBehind(r) /\ pc'[r] = op'[r]
      /\ op'[r] \in Workspaces /\ StepBehind(r) \in Nat \ {0}
      /\ op' \in [Ranks -> Workspaces] /\ step' \in [Ranks -> Nat \ {0}]
      /\ pc' \in [Ranks -> Workspaces \cup {"wait", "use"}]
      /\ epoch' \in [Ranks \X Workspaces -> Nat]
  <2>1. op'[r] = OpBehind(r) /\ OpBehind(r) \in Workspaces
    BY <1>1, <1>2, FirstKnown DEF OpBehind, Workspaces
  <2>2. step'[r] = StepBehind(r) /\ StepBehind(r) \in Nat \ {0}
    BY <1>1, <1>2 DEF StepBehind
  <2>3. op' \in [Ranks -> Workspaces]
    BY <1>1, <1>2, <2>1
  <2>4. step' \in [Ranks -> Nat \ {0}]
    BY <1>1, <1>2
  <2>5. pc' \in [Ranks -> Workspaces \cup {"wait", "use"}] /\ pc'[r] = op'[r]
    BY <1>1, <1>2, <2>1
  <2>6. epoch' \in [Ranks \X Workspaces -> Nat]
    BY <1>1, <1>2
  <2>7. QED
    BY <2>1, <2>2, <2>3, <2>4, <2>5, <2>6
<1>4. ASSUME NEW q \in Ranks, q # r
      PROVE  /\ step'[q] = step[q] /\ op'[q] = op[q] /\ pc'[q] = pc[q]
             /\ \A ws \in Workspaces : epoch'[<<q, ws>>] = epoch[<<q, ws>>]
  BY <1>1, <1>2, <1>4
<1>5. \A ws \in Workspaces :
        epoch'[<<r, ws>>] = epoch[<<r, ws>>] + (IF ws = op[r] /\ InDirect(r) THEN 1 ELSE 0)
  <2>1. \A ws \in Workspaces : <<r, ws>> \in Ranks \X Workspaces /\ epoch[<<r, ws>>] \in Nat
    BY <1>2
  <2>2. \A ws \in Workspaces : <<r, ws>> = <<r, op[r]>> <=> ws = op[r]
    OBVIOUS
  <2>3. CASE InDirect(r)
    <3>1. epoch' = [epoch EXCEPT ![<<r, op[r]>>] = epoch[<<r, op[r]>>] + 1]
      BY <1>1, <2>3
    <3>2. QED
      BY <1>2, <2>1, <2>2, <2>3, <3>1
  <2>4. CASE ~InDirect(r)
    BY <1>1, <2>1, <2>4
  <2>5. QED
    BY <2>3, <2>4
<1>6. HasGiven(r) /\ ~HasGiven(r)'
  BY <1>1, <1>3 DEF HasGiven, Workspaces
<1>7. ASSUME NEW q \in Ranks, q # r
      PROVE  /\ Running(q)' = Running(q) /\ Call(q)' = Call(q)
             /\ InDirect(q)' = InDirect(q) /\ InCollective(q)' = InCollective(q)
             /\ StepBehind(q)' = StepBehind(q) /\ OpBehind(q)' = OpBehind(q)
             /\ HasGiven(q)' = HasGiven(q) /\ EnteredBefore(q)' = EnteredBefore(q)
  <2>1. HasGiven(q)' = HasGiven(q)
    BY <1>4, <1>7 DEF HasGiven
  <2>2. /\ Running(q)' = Running(q) /\ Call(q)' = Call(q)
        /\ InDirect(q)' = InDirect(q) /\ InCollective(q)' = InCollective(q)
        /\ StepBehind(q)' = StepBehind(q) /\ OpBehind(q)' = OpBehind(q)
    BY <1>1, <1>4, <1>7, StaysAlone
  <2>3. QED
    BY <1>1, <2>1, <2>2 DEF EnteredBefore
<1>8. EnteredBefore(r)' = EnteredBefore(r) + (IF InCollective(r) THEN 1 ELSE 0)
  <2>1. EnteredBefore(r)' = entered[r] /\ entered[r] \in Nat
    BY <1>1, <1>2, <1>6, RankTyped DEF EnteredBefore
  <2>2. QED
    BY <1>6, <2>1 DEF EnteredBefore
<1>9. ASSUME NEW s \in Ranks, s # r
      PROVE  /\ AtSame(r, s) => OneAhead(r, s)'
             /\ OneAhead(s, r) => AtSame(r, s)' /\ AtSame(s, r)'
             /\ AtSame(r, s) \/ OneAhead(s, r)
  <2>1. AtSame(r, s) \/ OneAhead(s, r)
    BY <1>1 DEF ExchangeInv, Together, OneAhead
  <2>2. ASSUME AtSame(r, s) PROVE OneAhead(r, s)'
    <3>1. /\ HasGiven(s) /\ step[s] = step[r] /\ op[s] = op[r]
          /\ \A ws \in Workspaces : epoch[<<s, ws>>] = epoch[<<r, ws>>]
          /\ EnteredBefore(s) = EnteredBefore(r)
      BY <1>1, <2>2 DEF AtSame
    <3>2. /\ StepBehind(s) = StepBehind(r) /\ OpBehind(s) = OpBehind(r)
          /\ InDirect(s) = InDirect(r) /\ InCollective(s) = InCollective(r)
      BY <3>1 DEF StepBehind, OpBehind, InDirect, InCollective, Running, Call
    <3>3. pc'[r] # "use"
      BY <1>3 DEF Workspaces
    <3>4. HasGiven(s)' /\ step'[r] = StepBehind(s)' /\ op'[r] = OpBehind(s)'
      BY <1>3, <1>7, <1>9, <3>1, <3>2
    <3>5. \A ws \in Workspaces :
            epoch'[<<r, ws>>] = epoch'[<<s, ws>>] + (IF ws = op'[s] /\ InDirect(s)' THEN 1 ELSE 0)
      BY <1>4, <1>5, <1>7, <1>9, <3>1, <3>2
    <3>6. EnteredBefore(r)' = EnteredBefore(s)' + (IF InCollective(s)' THEN 1 ELSE 0)
      BY <1>7, <1>8, <1>9, <3>1, <3>2
    <3>7. QED
      BY <3>3, <3>4, <3>5, <3>6 DEF OneAhead
  <2>3. ASSUME OneAhead(s, r) PROVE AtSame(r, s)' /\ AtSame(s, r)'
    <3>1. /\ pc'[s] # "use" /\ pc'[r] # "use"
          /\ step'[s] = step'[r] /\ op'[s] = op'[r]
      BY <1>3, <1>4, <1>9, <2>3 DEF OneAhead, Workspaces
    <3>2. \A ws \in Workspaces : epoch'[<<s, ws>>] = epoch'[<<r, ws>>]
      BY <1>4, <1>5, <1>9, <2>3 DEF OneAhead
    <3>3. EnteredBefore(s)' = EnteredBefore(r)'
      BY <1>7, <1>8, <1>9, <2>3 DEF OneAhead
    <3>4. QED
      BY <3>1, <3>2, <3>3 DEF AtSame
  <2>4. QED
    BY <2>1, <2>2, <2>3
<1>10. ASSUME NEW q \in Ranks, NEW s \in Ranks, q # r, s # r
       PROVE  /\ AtSame(q, s) => AtSame(q, s)'
              /\ OneAhead(q, s)' = OneAhead(q, s)
  <2>1. AtSame(q, s) => AtSame(q, s)'
    BY <1>4, <1>7, <1>10 DEF AtSame
  <2>2. OneAhead(q, s)' = OneAhead(q, s)
    BY <1>4, <1>7, <1>10 DEF OneAhead
  <2>3. QED
    BY <2>1, <2>2
<1>11. ASSUME NEW q \in Ranks, NEW s \in Ranks PROVE Together(q, s)'
  <2>1. CASE q = r /\ s = r
    <3>1. AtSame(r, r)'
      <4>1. pc'[r] # "use"
        BY <1>3 DEF Workspaces
      <4>2. QED
        BY <4>1 DEF AtSame
    <3>2. QED
      BY <2>1, <3>1 DEF Together
  <2>2. CASE q = r /\ s # r
    BY <1>9, <2>2 DEF Together
  <2>3. CASE q # r /\ s = r
    BY <1>9, <2>3 DEF Together
  <2>4. CASE q # r /\ s # r
    <3>1. Together(q, s)
      BY DEF ExchangeInv
    <3>2. (AtSame(q, s) => AtSame(q, s)') /\ (OneAhead(q, s) => OneAhead(q, s)') /\ (OneAhead(s, q) => OneAhead(s, q)')
      BY <1>10, <2>4
    <3>3. QED
      BY <3>1, <3>2 DEF Together
  <2>5. QED
    BY <2>1, <2>2, <2>3, <2>4
<1>12. ExchangeTypes'
  BY <1>1, <1>2, <1>3 DEF ExchangeTypes
<1>13. ASSUME NEW q \in Ranks PROVE PhasesFit(q)'
  <2>1. PhasesFit(q)
    BY DEF ExchangeInv
  <2>2. CASE q = r
    <3>1. sent[r] = {} /\ step[r] <= Len(plan) /\ step[r] \in Nat /\ Len(plan) \in Nat
      BY <1>1, <1>2, <2>1, <2>2, RankTyped DEF PhasesFit, Workspaces
    <3>2. step'[r] <= Len(plan') + 1
      BY <1>1, <1>3, <3>1 DEF StepBehind
    <3>3. op'[r] = "q" => Running(r)'
      BY <1>1, <1>3, <3>1 DEF OpBehind, StepBehind, Running
    <3>4. QED
      BY <1>1, <1>3, <1>6, <2>2, <3>1, <3>2, <3>3 DEF PhasesFit
  <2>3. CASE q # r
    BY <1>1, <1>4, <1>7, <2>1, <2>3 DEF PhasesFit
  <2>4. QED
    BY <2>2, <2>3
<1>14. ASSUME NEW q \in Ranks PROVE SignalsAreSent(q)'
  <2>1. SignalsAreSent(q)
    BY DEF ExchangeInv
  <2>2. CASE q = r
    <3>1. SUFFICES ASSUME NEW p \in Ranks, NEW ws \in Workspaces, NEW s \in SlotsOf(ws)
                   PROVE  signal[<<p, ws, s, r>>] < epoch'[<<r, ws>>]
      <4>1. ASSUME NEW p \in Ranks, NEW ws \in Workspaces, NEW s \in SlotsOf(ws)
            PROVE  signal[<<p, ws, s, r>>] \in Int /\ epoch'[<<r, ws>>] \in Int
        BY <1>2, <1>3, PlaceExists DEF ExchangeTypes
      <4>2. QED
        BY <1>1, <2>2, <4>1 DEF SignalsAreSent
    <3>2. /\ signal[<<p, ws, s, r>>] <= epoch[<<r, ws>>]
          /\ signal[<<p, ws, s, r>>] = epoch[<<r, ws>>] => op[r] = ws /\ InDirect(r)
      BY <2>1, <2>2 DEF SignalsAreSent
    <3>3. signal[<<p, ws, s, r>>] \in Int /\ epoch[<<r, ws>>] \in Nat
      BY <1>2, RankTyped, PlaceExists DEF ExchangeTypes
    <3>4. QED
      BY <1>5, <3>2, <3>3
  <2>3. CASE q # r
    BY <1>1, <1>4, <1>7, <2>1, <2>3 DEF SignalsAreSent
  <2>4. QED
    BY <2>2, <2>3
<1>15. ASSUME NEW q \in Ranks PROVE IsGiven(q)'
  <2>1. IsGiven(q) /\ PhasesFit(q)
    BY DEF ExchangeInv
  <2>2. CASE q = r
    <3>1. sent'[r] = {}
      BY <1>1, <1>2, <2>1, <2>2 DEF PhasesFit, Workspaces
    <3>2. QED
      BY <1>6, <2>2, <3>1 DEF IsGiven
  <2>3. CASE q # r
    <3>1. /\ op'[q] = op[q] /\ op[q] \in Workspaces /\ step'[q] = step[q]
          /\ epoch'[<<q, op[q]>>] = epoch[<<q, op[q]>>]
      BY <1>2, <1>4, <2>3
    <3>2. QED
      BY <1>1, <1>7, <2>1, <2>3, <3>1 DEF IsGiven, Place
  <2>4. QED
    BY <2>2, <2>3
<1>16. ASSUME NEW q \in Ranks, NEW s \in Ranks PROVE IsKept(q, s)'
  <2>1. SUFFICES ASSUME OneAhead(s, q)', InDirect(q)'
                 PROVE  LET x == Place(q, op'[q], epoch'[<<q, op'[q]>>], s)
                        IN  buffer[x] = step'[q] /\ signal[x] = epoch'[<<q, op'[q]>>]
    BY <1>1 DEF IsKept, Place
  <2>2. q # r
    BY <1>6, <2>1 DEF OneAhead
  <2>3. /\ op'[q] = op[q] /\ op[q] \in Workspaces /\ step'[q] = step[q]
        /\ epoch'[<<q, op[q]>>] = epoch[<<q, op[q]>>] /\ InDirect(q)
    BY <1>2, <1>4, <1>7, <2>1, <2>2
  <2>4. CASE s = r
    <3>1. AtSame(r, q)
      <4>1. ~AtSame(r, q)'
        <5>1. /\ step'[s] = StepBehind(q)' /\ op'[s] = OpBehind(q)'
          BY <2>1 DEF OneAhead
        <5>2. op'[q] \in Workspaces /\ step'[q] \in Nat
          BY <1>3
        <5>3. ~(step'[s] = step'[q] /\ op'[s] = op'[q])
          BY <5>1, <5>2 DEF StepBehind, OpBehind
        <5>4. QED
          BY <2>4, <5>3 DEF AtSame
      <4>2. QED
        BY <1>9, <2>2, <4>1
    <3>2. op[r] = op[q] /\ step[r] = step[q] /\ epoch[<<r, op[q]>>] = epoch[<<q, op[q]>>] /\ InDirect(r)
      BY <2>3, <3>1 DEF AtSame, InDirect, Running, Call
    <3>3. IsGiven(r)
      BY DEF ExchangeInv
    <3>4. QED
      BY <1>6, <2>3, <2>4, <3>2, <3>3 DEF IsGiven
  <2>5. CASE s # r
    <3>1. IsKept(q, s) /\ OneAhead(s, q)
      BY <1>10, <2>1, <2>2, <2>5 DEF ExchangeInv
    <3>2. QED
      BY <2>3, <3>1 DEF IsKept
  <2>6. QED
    BY <2>4, <2>5
<1>17. QED
  BY <1>11, <1>12, <1>13, <1>14, <1>15, <1>16 DEF ExchangeInv


-----------------------------------------------------------------------------
(* The theorems *)

LEMMA ExchangeStep ==
  ASSUME N \in Nat \ {0}, ExchangeInv, [Next]_vars
  PROVE  ExchangeInv'
<1>1. ASSUME NEW r \in Ranks, NEW peer \in Ranks, Publish(r, peer) PROVE ExchangeInv'
  BY <1>1, PublishStep
<1>2. ASSUME NEW r \in Ranks, Signal(r) PROVE ExchangeInv'
  BY <1>2, SignalStep
<1>3. ASSUME NEW r \in Ranks, Arrived(r) PROVE ExchangeInv'
  BY <1>3, ReadStep
<1>4. ASSUME NEW r \in Ranks, _gather_query(r) PROVE ExchangeInv'
  BY <1>4, EnterStep
<1>5. ASSUME NEW r \in Ranks, Leave(r) PROVE ExchangeInv'
  BY <1>5, ReadStep
<1>6. ASSUME NEW r \in Ranks, Done(r) PROVE ExchangeInv'
  BY <1>6, DoneStep
<1>7. CASE UNCHANGED vars
  <2>1. UNCHANGED <<backend, plan, step, pc, op, sent, epoch, buffer, signal, entered>>
    BY <1>7 DEF vars
  <2>. USE StaysThere, <2>1
  <2>2. \A r : HasGiven(r)' = HasGiven(r) /\ EnteredBefore(r)' = EnteredBefore(r)
    BY DEF HasGiven, EnteredBefore
  <2>3. \A r, s : AtSame(r, s)' = AtSame(r, s) /\ OneAhead(r, s)' = OneAhead(r, s)
    BY <2>2 DEF AtSame, OneAhead
  <2>4. \A r, s \in Ranks : Together(r, s)' /\ IsKept(r, s)'
    BY <2>3 DEF ExchangeInv, Together, IsKept, Place
  <2>5. \A r \in Ranks : PhasesFit(r)' /\ SignalsAreSent(r)' /\ IsGiven(r)'
    BY <2>2 DEF ExchangeInv, PhasesFit, SignalsAreSent, IsGiven, Place
  <2>6. ExchangeTypes'
    BY DEF ExchangeInv, ExchangeTypes
  <2>7. QED
    BY <2>4, <2>5, <2>6 DEF ExchangeInv
<1>8. QED
  BY <1>1, <1>2, <1>3, <1>4, <1>5, <1>6, <1>7 DEF Next

LEMMA ExchangeInvariance ==
  ASSUME N \in Nat \ {0}, MaxSteps \in Nat
  PROVE  Spec => []ExchangeInv
<1>1. Init => ExchangeInv
  BY ExchangeInit
<1>2. ExchangeInv /\ [Next]_vars => ExchangeInv'
  BY ExchangeStep
<1>3. QED
  BY <1>1, <1>2, PTL DEF Spec

(* While a rank reads a symmetric buffer, the buffer holds every rank's    *)
(* part of the very call the rank is at, whichever ranks run ahead.        *)
THEOREM AlwaysReadsOwnCall ==
  ASSUME N \in Nat \ {0}, MaxSteps \in Nat
  PROVE  Spec => []ReadsOwnCall
<1>1. ExchangeInv => ReadsOwnCall
  <2>1. SUFFICES ASSUME ExchangeInv, NEW r \in Ranks, pc[r] = "use", InDirect(r), NEW src \in Ranks
                 PROVE  buffer[Place(r, op[r], epoch[<<r, op[r]>>], src)] = step[r]
    BY DEF ReadsOwnCall, Current, Place, InDirect
  <2>2. Together(r, src) /\ IsGiven(src) /\ IsKept(r, src)
    BY <2>1 DEF ExchangeInv
  <2>3. CASE AtSame(r, src)
    <3>1. /\ HasGiven(src) /\ op[src] = op[r] /\ step[src] = step[r] /\ InDirect(src)
          /\ epoch[<<src, op[r]>>] = epoch[<<r, op[r]>>]
      BY <2>1, <2>3, RankTyped DEF AtSame, InDirect, Running, Call, ExchangeInv
    <3>2. QED
      BY <2>2, <3>1 DEF IsGiven
  <2>4. CASE OneAhead(src, r)
    BY <2>1, <2>2, <2>4 DEF IsKept
  <2>5. CASE OneAhead(r, src)
    BY <2>1, <2>5 DEF OneAhead
  <2>6. QED
    BY <2>2, <2>3, <2>4, <2>5 DEF Together
<1>2. QED
  BY <1>1, ExchangeInvariance, PTL

(* If one rank is ahead of another, that other one has nobody behind it.   *)
LEMMA NobodyBehind ==
  ASSUME ExchangeInv, NEW r \in Ranks, NEW s \in Ranks, NEW t \in Ranks, OneAhead(s, r)
  PROVE  ~OneAhead(r, t)
<1>1. SUFFICES ASSUME OneAhead(r, t) PROVE FALSE
  OBVIOUS
<1>2. /\ step[s] = StepBehind(r) /\ op[s] = OpBehind(r)
      /\ step[r] = StepBehind(t) /\ op[r] = OpBehind(t)
  BY <1>1 DEF OneAhead
<1>3. ExchangeTypes /\ Together(s, t)
  BY DEF ExchangeInv
<1>4. ~AtSame(s, t)
  BY <1>2, <1>3, RankTyped DEF AtSame, StepBehind, OpBehind
<1>5. ~OneAhead(s, t)
  BY <1>2, <1>3, RankTyped DEF OneAhead, StepBehind, OpBehind
<1>6. ~OneAhead(t, s)
  BY <1>2, <1>3, RankTyped DEF OneAhead, StepBehind, OpBehind
<1>7. QED
  BY <1>3, <1>4, <1>5, <1>6 DEF Together

(* A rank that waits and has nobody behind it, while all at its exchange   *)
(* have given their part, waits no longer.                                 *)
LEMMA WaitIsOver ==
  ASSUME ExchangeInv, NEW r \in Ranks, pc[r] = "wait",
         \A s \in Ranks : OneAhead(s, r) \/ (AtSame(r, s) /\ HasGiven(s))
  PROVE  IF Direct(op[r], Call(r)) THEN AllSignalled(r) ELSE AllEntered(r)
<1>1. /\ ExchangeTypes /\ Running(r) /\ op[r] \in Workspaces /\ epoch[<<r, op[r]>>] \in Nat
  BY RankTyped DEF ExchangeInv, PhasesFit, HasGiven
<1>2. ASSUME Direct(op[r], Call(r)), NEW s \in Ranks
      PROVE  signal[Place(r, op[r], epoch[<<r, op[r]>>], s)] = epoch[<<r, op[r]>>]
  <2>1. CASE OneAhead(s, r)
    BY <1>1, <1>2, <2>1 DEF ExchangeInv, IsKept, InDirect
  <2>2. CASE AtSame(r, s) /\ HasGiven(s)
    <3>1. /\ op[s] = op[r] /\ InDirect(s) /\ epoch[<<s, op[r]>>] = epoch[<<r, op[r]>>]
      BY <1>1, <1>2, <2>2 DEF AtSame, InDirect, Running, Call
    <3>2. IsGiven(s)
      BY DEF ExchangeInv
    <3>3. QED
      BY <2>2, <3>1, <3>2 DEF IsGiven
  <2>3. QED
    BY <2>1, <2>2
<1>3. ASSUME Direct(op[r], Call(r)) PROVE AllSignalled(r)
  BY <1>1, <1>2, <1>3 DEF AllSignalled, Current, Place
<1>4. ASSUME ~Direct(op[r], Call(r)) PROVE AllEntered(r)
  <2>1. SUFFICES ASSUME NEW s \in Ranks PROVE entered[s] >= entered[r]
    BY DEF AllEntered
  <2>2. InCollective(r) /\ EnteredBefore(r) = entered[r] - 1 /\ entered[r] \in Nat /\ entered[s] \in Nat
    BY <1>1, <1>4, RankTyped DEF InCollective, EnteredBefore, HasGiven
  <2>3. CASE OneAhead(s, r)
    BY <1>1, <2>2, <2>3, RankTyped DEF OneAhead, EnteredBefore
  <2>4. CASE AtSame(r, s) /\ HasGiven(s)
    <3>1. InCollective(s)
      BY <2>2, <2>4 DEF AtSame, InCollective, Running, Call
    <3>2. QED
      BY <2>2, <2>4, <3>1 DEF AtSame, EnteredBefore
  <2>5. QED
    BY <2>3, <2>4
<1>5. QED
  BY <1>3, <1>4

(* The ranks never all wait for one another; and a decode of the most      *)
(* requests fits the workspaces, for any numbers of tokens, requests and   *)
(* drafts.                                                                 *)
THEOREM NobodyEverStuck ==
  ASSUME N \in Nat \ {0}, MaxSteps \in Nat,
         Config.max_num_batched_tokens \in Nat, Config.max_num_seqs \in Nat,
         Config.speculative \in Nat, Config.capture \in Nat
  PROVE  Spec => []NobodyStuck
<1>1. ExchangeInv => \/ \A r \in Ranks : ~Running(r)
                     \/ \E r \in Ranks :
                          /\ Running(r)
                          /\ pc[r] = "wait" => IF Direct(op[r], Call(r)) THEN AllSignalled(r) ELSE AllEntered(r)
  <2>1. SUFFICES ASSUME ExchangeInv, NEW a \in Ranks, Running(a),
                        \A r \in Ranks : Running(r) => pc[r] = "wait"
                 PROVE  \E r \in Ranks : Running(r) /\ (IF Direct(op[r], Call(r)) THEN AllSignalled(r) ELSE AllEntered(r))
    OBVIOUS
  <2>2. PICK r \in Ranks : Running(r) /\ \A s \in Ranks : ~OneAhead(r, s)
    <3>1. CASE \A s \in Ranks : ~OneAhead(a, s)
      BY <2>1, <3>1
    <3>2. CASE \E s \in Ranks : OneAhead(a, s)
      <4>1. PICK s \in Ranks : OneAhead(a, s)
        BY <3>2
      <4>2. Running(s)
        BY <2>1, <4>1 DEF ExchangeInv, PhasesFit, OneAhead
      <4>3. QED
        BY <2>1, <4>1, <4>2, NobodyBehind
    <3>3. QED
      BY <3>1, <3>2
  <2>3. pc[r] = "wait"
    BY <2>1, <2>2
  <2>4. ASSUME NEW s \in Ranks PROVE OneAhead(s, r) \/ (AtSame(r, s) /\ HasGiven(s))
    <3>1. OneAhead(s, r) \/ AtSame(r, s)
      BY <2>1, <2>2 DEF ExchangeInv, Together
    <3>2. AtSame(r, s) => HasGiven(s)
      BY <2>1, <2>2 DEF AtSame, Running, HasGiven
    <3>3. QED
      BY <3>1, <3>2
  <2>5. QED
    BY <2>1, <2>2, <2>3, <2>4, WaitIsOver
<1>2. DecodeTokens <= get_dcp_workspace_max_num_tokens
  <2>. DEFINE B == Config.max_num_batched_tokens
              S == Config.max_num_seqs
              D == Config.speculative
              P == IF Config.parallel THEN 2 ELSE 1
  <2>1. D <= P * D /\ P * D \in Nat
    OBVIOUS
  <2>2. S * (1 + D) <= S * (1 + P * D) /\ S * (1 + D) \in Nat /\ S * (1 + P * D) \in Nat
    <3>1. \A x, y, z \in Nat : x <= y => z * (1 + x) <= z * (1 + y) /\ z * (1 + x) \in Nat /\ z * (1 + y) \in Nat
      OBVIOUS
    <3>2. QED
      BY <2>1, <3>1
  <2>3. QED
    BY <2>2 DEF DecodeTokens, get_dcp_workspace_max_num_tokens, MinOf, MaxOf
<1>3. QED
  <2>1. ExchangeInv => NobodyStuck
    BY <1>1, <1>2 DEF NobodyStuck
  <2>2. QED
    BY <2>1, ExchangeInvariance, PTL
==============================================================================
