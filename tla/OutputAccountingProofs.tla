----------------------- MODULE OutputAccountingProofs -----------------------
(***************************************************************************)
(* Proofs about OutputAccounting for every value of its constants: the     *)
(* safety properties that the run of MCOutputAccounting checks on a small  *)
(* instance, from one inductive invariant.                                 *)
(***************************************************************************)
EXTENDS OutputAccounting, InductionProofs

FreshTokens(p) == [w \in Work |-> IF w.epoch = p THEN w.n ELSE 0]

Fresh(r)    == SumOver(device, r, FreshTokens(preemptions[r]))
Promised(r) == SumOver(device, r, MayAppend(preemptions[r]))

Scheduling == phase \in {"running", "waiting"}

(* The share of step i for r will be delivered: it belongs to the present  *)
(* residency, or to an earlier one whose output is not dropped.            *)
Deliverable(i, r) ==
  device[i][r].n > 0 /\ (device[i][r].epoch = preemptions[r] \/ ~drop[r])

(* The steps in flight hold the residencies of a request in order, none    *)
(* newer than the present one, and reject fewer drafts than they compute.  *)
StepsInOrder ==
  \A r \in Req : \A i \in DOMAIN device :
    /\ device[i][r].n = 0 => device[i][r] = NoWork
    /\ device[i][r].epoch <= preemptions[r]
    /\ device[i][r].samples => device[i][r].drafts <= device[i][r].n
    /\ \A j \in DOMAIN device :
         i < j /\ device[j][r].n > 0 => device[i][r].epoch <= device[j][r].epoch

(* What schedule() has given a request so far: drafts for what it lacks    *)
(* beyond its tokens, a step that is not behind its last one, and, if it   *)
(* is resumed, its token list with nothing deliverable before it.          *)
BatchFits(r) ==
  LET reach == computed[r] + batch[r].n - tokens[r] - placeholders[r]
  IN  /\ status[r] = "running"
      /\ batch[r].drafts = IF reach > 0 THEN reach ELSE 0
      /\ ~batch[r].samples /\ batch[r].epoch = 0
      /\ Promised(r) > 0 => Async /\ tokens[r] + 1 < Prompt + MaxOut
      /\ batch[r].base > 0 =>
           /\ batch[r].base = tokens[r]
           /\ \A i \in DOMAIN device : ~Deliverable(i, r)

BatchIsFitting ==
  /\ ~Scheduling => \A r \in Req : batch[r] = NoWork
  /\ Scheduling => Len(device) < MaxBatches
  /\ \A r \in Req : batch[r].n = 0 => batch[r] = NoWork
  /\ \A r \in Req : batch[r].n > 0 => BatchFits(r)

(* The counters of a request that is not finished.  A running request      *)
(* always lacks a token that the steps in flight do not compute.           *)
LiveFits(r) ==
  /\ tokens[r] < Prompt + MaxOut
  /\ placeholders[r] = IF Async THEN Promised(r) ELSE 0

WaitingFits(r) ==
  \A i \in DOMAIN device :
    device[i][r].n > 0 => device[i][r].epoch < preemptions[r]

RunningFits(r) ==
  LET lacking == tokens[r] + Promised(r) - computed[r]
  IN  /\ stale[r] > 0 => drop[r]
      /\ computed[r] >= Fresh(r)
      /\ lacking >= 1
      /\ Promised(r) > 0 => lacking = 1

CountersFit ==
  /\ \A r \in Req : spec[r] <= NumSpec
  /\ \A r \in Live : LiveFits(r)
  /\ \A r \in Req : status[r] = "waiting" => WaitingFits(r)
  /\ \A r \in Req : status[r] = "running" => RunningFits(r)

(* The deliverable shares of a request continue its token list one after   *)
(* the other: only the first may bring a list along, which is then the     *)
(* present one; else the workers know the present list already.            *)
ChainHolds(r) ==
  \A i \in DOMAIN device :
    Deliverable(i, r) =>
      /\ \A j \in DOMAIN device :
           i < j /\ device[j][r].n > 0 => device[j][r].base = 0
      /\ device[i][r].base > 0 => device[i][r].base = tokens[r]
      /\ device[i][r].base = 0 /\ (\A k \in 1 .. i - 1 : ~Deliverable(k, r)) =>
           /\ known[r] = tokens[r]
           /\ \A k \in 1 .. i - 1 : device[k][r].n = 0

(* No step brings the list of a running request along. *)
IsContinued(r) ==
  /\ status[r] = "running"
  /\ batch[r].base = 0
  /\ \A i \in DOMAIN device : Deliverable(i, r) => device[i][r].base = 0

DeliveriesChain ==
  \A r \in Live :
    /\ ChainHolds(r)
    /\ IsContinued(r) => known[r] = tokens[r] /\ stale[r] = 0

IInv ==
  /\ TypeOK
  /\ StepsInOrder
  /\ BatchIsFitting
  /\ StaleShareIsExact
  /\ CountersFit
  /\ DeliveriesChain

-----------------------------------------------------------------------------
(* Sums over the steps in flight *)

LEMMA WeightTypes ==
  ASSUME NEW p \in Nat
  PROVE  /\ AllTokens \in [Work -> Nat] /\ StaleTokens(p) \in [Work -> Nat]
         /\ MayAppend(p) \in [Work -> Nat] /\ WillAppend(p) \in [Work -> Nat]
         /\ FreshTokens(p) \in [Work -> Nat]
BY DEF Work, AllTokens, StaleTokens, MayAppend, WillAppend, FreshTokens

LEMMA NoWorkWeighsNothing ==
  ASSUME NEW p \in Nat
  PROVE  /\ NoWork \in Work
         /\ AllTokens[NoWork] = 0 /\ StaleTokens(p)[NoWork] = 0
         /\ MayAppend(p)[NoWork] = 0 /\ WillAppend(p)[NoWork] = 0
         /\ FreshTokens(p)[NoWork] = 0
<1>1. NoWork \in Work
  BY DEF Work, NoWork
<1>2. QED
  BY <1>1 DEF NoWork, AllTokens, StaleTokens, MayAppend, WillAppend, FreshTokens

LEMMA WeightsSeq ==
  ASSUME NEW dev \in Seq([Req -> Work]), NEW r \in Req, NEW f \in [Work -> Nat]
  PROVE  LET s == [i \in DOMAIN dev |-> f[dev[i][r]]]
         IN  /\ s \in Seq(Nat) /\ s \in Seq(Int)
             /\ Len(s) = Len(dev)
             /\ DOMAIN dev = 1 .. Len(dev)
             /\ \A i \in 1 .. Len(dev) : s[i] = f[dev[i][r]] /\ s[i] \in Nat
<1>. DEFINE s == [i \in DOMAIN dev |-> f[dev[i][r]]]
<1>1. DOMAIN dev = 1 .. Len(dev) /\ Len(dev) \in Nat
  OBVIOUS
<1>2. \A i \in DOMAIN dev : f[dev[i][r]] \in Nat
  OBVIOUS
<1>3. s \in [1 .. Len(dev) -> Nat]
  BY <1>1, <1>2
<1>4. s \in Seq(Nat) /\ Len(s) = Len(dev)
  BY <1>1, <1>3
<1>5. s \in Seq(Int)
  BY <1>4
<1>6. QED
  BY <1>1, <1>2, <1>4, <1>5

LEMMA SumOverBounds ==
  ASSUME NEW dev \in Seq([Req -> Work]), NEW r \in Req, NEW f \in [Work -> Nat]
  PROVE  /\ SumOver(dev, r, f) \in Nat
         /\ \A i \in DOMAIN dev : f[dev[i][r]] <= SumOver(dev, r, f)
<1>. DEFINE s == [i \in DOMAIN dev |-> f[dev[i][r]]]
<1>1. /\ s \in Seq(Nat) /\ Len(s) = Len(dev) /\ DOMAIN dev = 1 .. Len(dev)
      /\ \A i \in 1 .. Len(dev) : s[i] = f[dev[i][r]]
  BY WeightsSeq
<1>. HIDE DEF s
<1>2. Total(s) \in Nat /\ \A i \in 1 .. Len(s) : s[i] <= Total(s)
  BY <1>1, TotalBoundsAll
<1>3. QED
  BY <1>1, <1>2 DEF SumOver, s

LEMMA SumOverNothing ==
  ASSUME NEW dev \in Seq([Req -> Work]), NEW r \in Req, NEW f \in [Work -> Nat],
         \A i \in DOMAIN dev : f[dev[i][r]] = 0
  PROVE  SumOver(dev, r, f) = 0
<1>. DEFINE s == [i \in DOMAIN dev |-> f[dev[i][r]]]
<1>1. /\ s \in Seq(Int) /\ Len(s) = Len(dev) /\ DOMAIN dev = 1 .. Len(dev)
      /\ \A i \in 1 .. Len(dev) : s[i] = f[dev[i][r]]
  BY WeightsSeq
<1>. HIDE DEF s
<1>2. Total(s) = 0
  BY <1>1, TotalOfZeros
<1>3. QED
  BY <1>2 DEF SumOver, s

LEMMA SumOverSame ==
  ASSUME NEW dev, NEW r, NEW f, NEW g,
         \A i \in DOMAIN dev : f[dev[i][r]] = g[dev[i][r]]
  PROVE  SumOver(dev, r, f) = SumOver(dev, r, g)
BY DEF SumOver

LEMMA SumOverAppended ==
  ASSUME NEW dev \in Seq([Req -> Work]), NEW x \in [Req -> Work],
         NEW r \in Req, NEW f \in [Work -> Nat]
  PROVE  SumOver(Append(dev, x), r, f) = SumOver(dev, r, f) + f[x[r]]
<1>. DEFINE more == Append(dev, x)
            s == [i \in DOMAIN dev |-> f[dev[i][r]]]
            t == [i \in DOMAIN more |-> f[more[i][r]]]
<1>1. /\ more \in Seq([Req -> Work]) /\ Len(more) = Len(dev) + 1
      /\ more[Len(more)] = x /\ \A i \in 1 .. Len(dev) : more[i] = dev[i]
  OBVIOUS
<1>. HIDE DEF more
<1>2. /\ s \in Seq(Int) /\ Len(s) = Len(dev)
      /\ \A i \in 1 .. Len(dev) : s[i] = f[dev[i][r]]
  BY WeightsSeq
<1>3. /\ t \in Seq(Int) /\ Len(t) = Len(more)
      /\ \A i \in 1 .. Len(more) : t[i] = f[more[i][r]]
  BY <1>1, WeightsSeq
<1>. HIDE DEF s, t
<1>4. Len(t) = Len(s) + 1 /\ \A i \in 1 .. Len(s) : t[i] = s[i]
  BY <1>1, <1>2, <1>3
<1>5. Total(t) = Total(s) + t[Len(t)]
  BY <1>2, <1>3, <1>4, TotalAppended
<1>6. t[Len(t)] = f[x[r]]
  BY <1>1, <1>3
<1>7. QED
  BY <1>5, <1>6 DEF SumOver, s, t, more

LEMMA SumOverTail ==
  ASSUME NEW dev \in Seq([Req -> Work]), dev # <<>>,
         NEW r \in Req, NEW f \in [Work -> Nat]
  PROVE  SumOver(Tail(dev), r, f) = SumOver(dev, r, f) - f[dev[1][r]]
<1>. DEFINE rest == Tail(dev)
            s == [i \in DOMAIN dev |-> f[dev[i][r]]]
            t == [i \in DOMAIN rest |-> f[rest[i][r]]]
<1>1. /\ rest \in Seq([Req -> Work]) /\ Len(dev) = Len(rest) + 1
      /\ \A i \in 1 .. Len(rest) : rest[i] = dev[i + 1]
      /\ Len(dev) \in Nat /\ Len(rest) \in Nat
  OBVIOUS
<1>. HIDE DEF rest
<1>2. /\ s \in Seq(Int) /\ Len(s) = Len(dev)
      /\ \A i \in 1 .. Len(dev) : s[i] = f[dev[i][r]]
  BY WeightsSeq
<1>3. /\ t \in Seq(Int) /\ Len(t) = Len(rest)
      /\ \A i \in 1 .. Len(rest) : t[i] = f[rest[i][r]]
  BY <1>1, WeightsSeq
<1>. HIDE DEF s, t
<1>4. Len(s) = Len(t) + 1 /\ \A i \in 1 .. Len(t) : t[i] = s[i + 1]
  BY <1>1, <1>2, <1>3
<1>5. Total(t) = Total(s) - s[1]
  BY <1>2, <1>3, <1>4, TotalTail
<1>6. s[1] = f[dev[1][r]]
  BY <1>1, <1>2
<1>7. QED
  BY <1>5, <1>6 DEF SumOver, s, t, rest

LEMMA SumOverHeadReplaced ==
  ASSUME NEW dev \in Seq([Req -> Work]), dev # <<>>, NEW x \in [Req -> Work],
         NEW r \in Req, NEW f \in [Work -> Nat]
  PROVE  SumOver([dev EXCEPT ![1] = x], r, f)
           = SumOver(dev, r, f) - f[dev[1][r]] + f[x[r]]
<1>. DEFINE other == [dev EXCEPT ![1] = x]
            s == [i \in DOMAIN dev |-> f[dev[i][r]]]
            t == [i \in DOMAIN other |-> f[other[i][r]]]
<1>1. /\ other \in Seq([Req -> Work]) /\ Len(other) = Len(dev)
      /\ other[1] = x /\ \A i \in 2 .. Len(dev) : other[i] = dev[i]
      /\ Len(dev) \in Nat /\ Len(dev) > 0
  OBVIOUS
<1>. HIDE DEF other
<1>2. /\ s \in Seq(Int) /\ Len(s) = Len(dev)
      /\ \A i \in 1 .. Len(dev) : s[i] = f[dev[i][r]]
  BY WeightsSeq
<1>3. /\ t \in Seq(Int) /\ Len(t) = Len(other)
      /\ \A i \in 1 .. Len(other) : t[i] = f[other[i][r]]
  BY <1>1, WeightsSeq
<1>. HIDE DEF s, t
<1>4. Len(t) = Len(s) /\ Len(s) > 0 /\ \A i \in 2 .. Len(s) : t[i] = s[i]
  BY <1>1, <1>2, <1>3
<1>5. Total(t) = Total(s) - s[1] + t[1]
  BY <1>2, <1>3, <1>4, TotalHeadReplaced
<1>6. s[1] = f[dev[1][r]] /\ t[1] = f[x[r]]
  BY <1>1, <1>2, <1>3
<1>7. QED
  BY <1>5, <1>6 DEF SumOver, s, t, other

-----------------------------------------------------------------------------
(* Types, component by component, and the initial state *)

Types ==
  /\ phase \in {"idle", "running", "waiting", "update"}
  /\ status \in [Req -> {"waiting", "running", "finished"}]
  /\ tokens \in [Req -> Prompt .. Prompt + MaxOut]
  /\ computed \in [Req -> Nat] /\ placeholders \in [Req -> Nat]
  /\ in_flight \in [Req -> Nat] /\ stale \in [Req -> Nat]
  /\ spec \in [Req -> Nat] /\ known \in [Req -> Nat]
  /\ drop \in [Req -> BOOLEAN]
  /\ preemptions \in [Req -> 0 .. MaxPreemptions]
  /\ batch \in [Req -> Work]
  /\ preempted \in BOOLEAN
  /\ device \in Seq([Req -> Work])
  /\ Len(device) <= MaxBatches

LEMMA TypesSuffice == TypeOK <=> Types
BY DEF TypeOK, Types

LEMMA TypesSufficeNext == TypeOK' <=> Types'
BY TypesSuffice, PTL

LEMMA Constants ==
  /\ Prompt \in Nat /\ Prompt > 0 /\ MaxOut \in Nat /\ MaxOut > 0 /\ NumSpec \in Nat
  /\ Async \in BOOLEAN /\ MaxBatches \in Nat /\ MaxBatches > 0
  /\ MaxPreemptions \in Nat
  /\ NumSpec > 0 /\ ~Async => MaxBatches = 1
BY AccountingAssumption DEF AccountingAssumption

LEMMA SharesAreWork ==
  ASSUME TypeOK, NEW r \in Req
  PROVE  /\ DOMAIN device = 1 .. Len(device) /\ Len(device) \in Nat
         /\ \A i \in DOMAIN device :
              /\ device[i] \in [Req -> Work] /\ device[i][r] \in Work
              /\ device[i][r].n \in Nat /\ device[i][r].drafts \in Nat
              /\ device[i][r].samples \in BOOLEAN
              /\ device[i][r].base \in Nat /\ device[i][r].epoch \in Nat
<1>1. device \in Seq([Req -> Work])
  BY TypesSuffice DEF Types
<1>2. /\ DOMAIN device = 1 .. Len(device) /\ Len(device) \in Nat
      /\ \A i \in DOMAIN device : device[i] \in [Req -> Work]
  BY <1>1
<1>3. \A i \in DOMAIN device : device[i][r] \in Work
  BY <1>2
<1>4. \A w \in Work : /\ w.n \in Nat /\ w.drafts \in Nat /\ w.samples \in BOOLEAN
                     /\ w.base \in Nat /\ w.epoch \in Nat
  BY DEF Work
<1>5. QED
  BY <1>2, <1>3, <1>4

LEMMA Initially == Init => IInv
<1>. SUFFICES ASSUME Init PROVE IInv
  OBVIOUS
<1>0. device = <<>> /\ DOMAIN device = {}
  BY DEF Init
<1>1. TypeOK
  <2>1. NoWork \in Work
    BY NoWorkWeighsNothing
  <2>2. tokens \in [Req -> Prompt .. Prompt + MaxOut]
    BY Constants DEF Init
  <2>3. preemptions \in [Req -> 0 .. MaxPreemptions]
    BY Constants DEF Init
  <2>4. /\ device \in Seq([Req -> Work]) /\ Len(device) <= MaxBatches
        /\ batch \in [Req -> Work]
    BY <1>0, <2>1, Constants DEF Init
  <2>5. Types
    BY <2>2, <2>3, <2>4 DEF Init, Types
  <2>6. QED
    BY <2>5, TypesSuffice
<1>2. ASSUME NEW r \in Req, NEW f \in [Work -> Nat] PROVE SumOver(device, r, f) = 0
  <2>1. device \in Seq([Req -> Work])
    BY <1>0
  <2>2. QED
    BY <1>0, <2>1, SumOverNothing
<1>3. preemptions \in [Req -> Nat]
  BY DEF Init
<1>4. \A r \in Req : /\ Promised(r) = 0 /\ Fresh(r) = 0
                     /\ SumOver(device, r, AllTokens) = 0
                     /\ SumOver(device, r, StaleTokens(preemptions[r])) = 0
  <2>. SUFFICES ASSUME NEW r \in Req
                PROVE  /\ Promised(r) = 0 /\ Fresh(r) = 0
                       /\ SumOver(device, r, AllTokens) = 0
                       /\ SumOver(device, r, StaleTokens(preemptions[r])) = 0
    OBVIOUS
  <2>1. preemptions[r] \in Nat
    BY <1>3
  <2>2. QED
    BY <1>2, <2>1, WeightTypes DEF Promised, Fresh
<1>5. StepsInOrder
  BY <1>0 DEF StepsInOrder
<1>6. BatchIsFitting
  BY DEF Init, BatchIsFitting, BatchFits, Scheduling, NoWork
<1>7. StaleShareIsExact
  BY <1>4 DEF Init, StaleShareIsExact, Live
<1>8. CountersFit
  BY <1>4, Constants DEF Init, CountersFit, LiveFits, WaitingFits, RunningFits, Live
<1>9. DeliveriesChain
  BY <1>0 DEF Init, DeliveriesChain, ChainHolds, IsContinued, Live
<1>10. QED
  BY <1>1, <1>5, <1>6, <1>7, <1>8, <1>9 DEF IInv

-----------------------------------------------------------------------------
(* Steps that leave the steps in flight alone *)

LEMMA BeginScheduleKeeps == IInv /\ BeginSchedule => IInv'
<1>. SUFFICES ASSUME IInv, BeginSchedule PROVE IInv'
  OBVIOUS
<1>. USE DEF BeginSchedule, requestVars
<1>1. TypeOK'
  BY TypesSuffice, TypesSufficeNext DEF IInv, Types
<1>2. StepsInOrder'
  BY DEF IInv, StepsInOrder
<1>3. BatchIsFitting'
  BY DEF IInv, BatchIsFitting, BatchFits, Scheduling, Promised, Deliverable, NoWork
<1>4. StaleShareIsExact'
  BY DEF IInv, StaleShareIsExact, Live
<1>5. CountersFit'
  BY DEF IInv, CountersFit, LiveFits, WaitingFits, RunningFits, Live, Promised, Fresh
<1>6. DeliveriesChain'
  BY DEF IInv, DeliveriesChain, ChainHolds, IsContinued, Live, Deliverable
<1>7. QED
  BY <1>1, <1>2, <1>3, <1>4, <1>5, <1>6 DEF IInv

LEMMA BeginWaitingKeeps == IInv /\ BeginWaiting => IInv'
<1>. SUFFICES ASSUME IInv, BeginWaiting PROVE IInv'
  OBVIOUS
<1>. USE DEF BeginWaiting, requestVars
<1>1. TypeOK'
  BY TypesSuffice, TypesSufficeNext DEF IInv, Types
<1>2. StepsInOrder'
  BY DEF IInv, StepsInOrder
<1>3. BatchIsFitting'
  BY DEF IInv, BatchIsFitting, BatchFits, Scheduling, Promised, Deliverable
<1>4. StaleShareIsExact'
  BY DEF IInv, StaleShareIsExact, Live
<1>5. CountersFit'
  BY DEF IInv, CountersFit, LiveFits, WaitingFits, RunningFits, Live, Promised, Fresh
<1>6. DeliveriesChain'
  BY DEF IInv, DeliveriesChain, ChainHolds, IsContinued, Live, Deliverable
<1>7. QED
  BY <1>1, <1>2, <1>3, <1>4, <1>5, <1>6 DEF IInv

LEMMA StutterKeeps == IInv /\ UNCHANGED vars => IInv'
BY DEF IInv, vars, requestVars, TypeOK, StepsInOrder, BatchIsFitting, BatchFits, Scheduling,
       StaleShareIsExact, CountersFit, LiveFits, WaitingFits, RunningFits,
       DeliveriesChain, ChainHolds, IsContinued, Live, Promised, Fresh,
       Deliverable

LEMMA FinishKeeps ==
  ASSUME IInv, NEW r \in Req, finish_requests(r)
  PROVE  IInv'
<1>. USE DEF finish_requests, requestVars
<1>0. /\ status \in [Req -> {"waiting", "running", "finished"}] /\ phase = "idle"
      /\ \A q \in Req : status'[q] = IF q = r THEN "finished" ELSE status[q]
  BY TypesSuffice DEF IInv, Types
<1>1. TypeOK'
  BY TypesSuffice, TypesSufficeNext DEF IInv, Types
<1>2. StepsInOrder'
  BY DEF IInv, StepsInOrder
<1>3. BatchIsFitting'
  BY <1>0 DEF IInv, BatchIsFitting, BatchFits, Scheduling, Promised, Deliverable, NoWork
<1>4. StaleShareIsExact'
  BY <1>0 DEF IInv, StaleShareIsExact, Live
<1>5. CountersFit'
  BY <1>0 DEF IInv, CountersFit, LiveFits, WaitingFits, RunningFits, Live, Promised, Fresh
<1>6. DeliveriesChain'
  BY <1>0 DEF IInv, DeliveriesChain, ChainHolds, IsContinued, Live, Deliverable
<1>7. QED
  BY <1>1, <1>2, <1>3, <1>4, <1>5, <1>6 DEF IInv

LEMMA SumsAreNatural ==
  ASSUME TypeOK, NEW r \in Req
  PROVE  /\ preemptions[r] \in Nat
         /\ Promised(r) \in Nat /\ Fresh(r) \in Nat
         /\ SumOver(device, r, AllTokens) \in Nat
         /\ SumOver(device, r, StaleTokens(preemptions[r])) \in Nat
<1>1. device \in Seq([Req -> Work]) /\ preemptions[r] \in Nat
  BY Constants, TypesSuffice DEF Types
<1>2. QED
  BY <1>1, WeightTypes, SumOverBounds DEF Promised, Fresh

(* Nothing of a residency that no step in flight belongs to. *)
LEMMA OnlyOlderShares ==
  ASSUME TypeOK, StepsInOrder, NEW r \in Req, NEW p \in Nat,
         \A i \in DOMAIN device : device[i][r].n > 0 => device[i][r].epoch < p
  PROVE  /\ SumOver(device, r, MayAppend(p)) = 0
         /\ SumOver(device, r, FreshTokens(p)) = 0
         /\ SumOver(device, r, StaleTokens(p)) = SumOver(device, r, AllTokens)
<1>1. device \in Seq([Req -> Work])
  BY TypesSuffice DEF Types
<1>2. ASSUME NEW i \in DOMAIN device
      PROVE  /\ MayAppend(p)[device[i][r]] = 0
             /\ FreshTokens(p)[device[i][r]] = 0
             /\ StaleTokens(p)[device[i][r]] = AllTokens[device[i][r]]
  <2>1. device[i][r] \in Work /\ device[i][r].n \in Nat
    BY SharesAreWork
  <2>2. CASE device[i][r].n = 0
    <3>1. device[i][r] = NoWork
      BY <2>2 DEF StepsInOrder
    <3>2. QED
      BY <3>1, NoWorkWeighsNothing
  <2>3. CASE device[i][r].n > 0
    <3>1. device[i][r].epoch < p /\ device[i][r].epoch \in Nat
      BY <2>3, SharesAreWork
    <3>2. QED
      BY <2>1, <3>1 DEF MayAppend, FreshTokens, StaleTokens, AllTokens
  <2>4. QED
    BY <2>1, <2>2, <2>3
<1>3. SumOver(device, r, StaleTokens(p)) = SumOver(device, r, AllTokens)
  BY <1>2, SumOverSame
<1>4. MayAppend(p) \in [Work -> Nat] /\ FreshTokens(p) \in [Work -> Nat]
  BY WeightTypes
<1>5. /\ SumOver(device, r, MayAppend(p)) = 0
      /\ SumOver(device, r, FreshTokens(p)) = 0
  BY <1>1, <1>2, <1>4, SumOverNothing
<1>6. QED
  BY <1>3, <1>5

LEMMA StaleShareCounts ==
  ASSUME TypeOK, StaleShareIsExact, NEW r \in Live, NEW i \in DOMAIN device,
         device[i][r].n > 0, device[i][r].epoch < preemptions[r]
  PROVE  stale[r] > 0 /\ stale[r] >= device[i][r].n
<1>0. r \in Req /\ stale[r] = SumOver(device, r, StaleTokens(preemptions[r]))
  BY DEF StaleShareIsExact, Live
<1>1. /\ device[i][r].n \in Nat /\ preemptions[r] \in Nat
      /\ device[i][r] \in Work /\ device \in Seq([Req -> Work])
  BY <1>0, SharesAreWork, SumsAreNatural, TypesSuffice DEF Types
<1>2. StaleTokens(preemptions[r])[device[i][r]] = device[i][r].n
  BY <1>1 DEF StaleTokens
<1>3. /\ device[i][r].n <= SumOver(device, r, StaleTokens(preemptions[r]))
      /\ SumOver(device, r, StaleTokens(preemptions[r])) \in Nat
  BY <1>0, <1>1, <1>2, WeightTypes, SumOverBounds
<1>4. QED
  BY <1>0, <1>1, <1>3

LEMMA MinOfTwo ==
  ASSUME NEW a \in Int, NEW b \in Int, a <= b
  PROVE  Min({a, b}) = a
BY DEF Min

LEMMA ScheduleRunningKeeps ==
  ASSUME IInv, NEW r \in Req, NEW n \in Int, ScheduleRunning(r, n)
  PROVE  IInv'
<1>. DEFINE reach == n + computed[r] - tokens[r] - placeholders[r]
            drafts == IF reach > 0 THEN reach ELSE 0
            share == [NoWork EXCEPT !.n = n, !.drafts = drafts]
<1>1. /\ TypeOK /\ Types /\ StepsInOrder /\ BatchIsFitting /\ StaleShareIsExact
      /\ CountersFit /\ DeliveriesChain
  BY TypesSuffice DEF IInv
<1>2. /\ computed[r] \in Nat /\ tokens[r] \in Nat /\ placeholders[r] \in Nat
      /\ spec[r] \in Nat
  BY <1>1, Constants DEF Types
<1>3. /\ n >= 1 /\ reach <= spec[r] /\ status[r] = "running" /\ Scheduling
      /\ ~OutputIsComplete(r)
      /\ batch' = [batch EXCEPT ![r] = [NoWork EXCEPT !.n = n, !.drafts =
                     IF reach > 0 THEN Min({reach, spec[r]}) ELSE 0]]
      /\ spec' = [spec EXCEPT ![r] = 0]
      /\ UNCHANGED <<phase, status, tokens, computed, placeholders, in_flight,
                     stale, drop, preemptions, preempted, device, known>>
  BY <1>2 DEF ScheduleRunning, Scheduling
<1>4. batch' = [batch EXCEPT ![r] = share]
  <2>0. reach \in Int /\ spec[r] \in Int
    BY <1>2
  <2>1. reach > 0 => Min({reach, spec[r]}) = reach
    <3>. HIDE DEF reach
    <3>1. QED
      BY <2>0, <1>3, MinOfTwo
  <2>2. (IF reach > 0 THEN Min({reach, spec[r]}) ELSE 0) = drafts
    BY <2>1
  <2>3. QED
    BY <1>3, <2>2, Zenon
<1>5. /\ share \in Work /\ batch[r].n = 0
      /\ share.n = n /\ share.drafts = drafts /\ ~share.samples
      /\ share.base = 0 /\ share.epoch = 0
  <2>1. drafts \in Nat /\ n \in Nat
    BY <1>2, <1>3
  <2>. HIDE DEF drafts
  <2>2. QED
    BY <2>1 DEF Work, NoWork, ScheduleRunning
<1>. HIDE DEF share
<1>6. \A q \in Req : batch'[q] = IF q = r THEN share ELSE batch[q]
  BY <1>1, <1>4 DEF Types
<1>7. TypeOK'
  <2>1. spec' \in [Req -> Nat]
    BY <1>1, <1>3 DEF Types
  <2>2. batch' \in [Req -> Work]
    BY <1>1, <1>4, <1>5 DEF Types
  <2>3. QED
    BY <1>1, <1>3, <2>1, <2>2, TypesSufficeNext DEF Types
<1>8. StepsInOrder'
  BY <1>1, <1>3 DEF StepsInOrder
<1>9. /\ \A q \in Req : Promised(q)' = Promised(q) /\ Fresh(q)' = Fresh(q)
      /\ \A q \in Req, i \in DOMAIN device : Deliverable(i, q)' = Deliverable(i, q)
  BY <1>3 DEF Promised, Fresh, Deliverable
<1>10. Promised(r) > 0 => Async /\ tokens[r] + 1 < Prompt + MaxOut
  <2>. SUFFICES ASSUME Promised(r) > 0
                PROVE  Async /\ tokens[r] + 1 < Prompt + MaxOut
    OBVIOUS
  <2>0. r \in Live /\ Promised(r) \in Nat
    BY <1>1, <1>3, SumsAreNatural DEF Live
  <2>1. /\ Promised(r) \in Nat
        /\ tokens[r] + Promised(r) - computed[r] = 1
        /\ placeholders[r] = IF Async THEN Promised(r) ELSE 0
        /\ spec[r] <= NumSpec
    BY <1>1, <1>3, <2>0 DEF CountersFit, LiveFits, RunningFits
  <2>2. Async
    <3>. SUFFICES ASSUME ~Async PROVE FALSE
      OBVIOUS
    <3>1. CASE NumSpec = 0
      BY <1>2, <1>3, <2>1, <3>1
    <3>2. CASE NumSpec > 0
      <4>1. Len(device) < 1
        BY <1>1, <1>3, <3>2, Constants DEF BatchIsFitting
      <4>2. DOMAIN device = {} /\ device \in Seq([Req -> Work])
        BY <1>1, <4>1 DEF Types
      <4>3. preemptions[r] \in Nat
        BY <1>1, SumsAreNatural
      <4>4. Promised(r) = 0
        BY <4>2, <4>3, WeightTypes, SumOverNothing DEF Promised
      <4>5. QED
        BY <4>4
    <3>3. QED
      BY <3>1, <3>2, Constants
  <2>3. computed[r] + 2 - placeholders[r] < Prompt + MaxOut
    BY <1>2, <1>3, <2>1, <2>2, Constants DEF OutputIsComplete
  <2>4. QED
    BY <1>2, <2>1, <2>2, <2>3, Constants
<1>11. BatchIsFitting'
  <2>2. Scheduling' /\ Len(device') < MaxBatches
    BY <1>1, <1>3 DEF BatchIsFitting, Scheduling
  <2>3. ASSUME NEW q \in Req, batch'[q].n = 0 PROVE batch'[q] = NoWork
    BY <1>1, <1>3, <1>5, <1>6, <2>3 DEF BatchIsFitting
  <2>4. ASSUME NEW q \in Req, q # r, batch'[q].n > 0 PROVE BatchFits(q)'
    BY <1>1, <1>3, <1>6, <1>9, <2>4 DEF BatchIsFitting, BatchFits
  <2>5. BatchFits(r)'
    <3>1. batch'[r] = share /\ n \in Int
      BY <1>6
    <3>2. computed[r] + n - tokens[r] - placeholders[r] = reach
      BY <1>2, <3>1
    <3>3. Promised(r)' > 0 => Async /\ tokens'[r] + 1 < Prompt + MaxOut
      BY <1>3, <1>9, <1>10
    <3>4. ~(share.base > 0)
      BY <1>5
    <3>5. QED
      BY <1>3, <1>5, <3>1, <3>2, <3>3, <3>4 DEF BatchFits
  <2>6. QED
    BY <2>2, <2>3, <2>4, <2>5 DEF BatchIsFitting
<1>12. StaleShareIsExact'
  BY <1>1, <1>3 DEF StaleShareIsExact, Live
<1>13. CountersFit'
  <2>1. \A q \in Req : spec'[q] <= NumSpec
    BY <1>1, <1>3, Constants DEF CountersFit, Types
  <2>2. QED
    BY <1>1, <1>3, <1>9, <2>1
    DEF CountersFit, LiveFits, WaitingFits, RunningFits, Live
<1>14. DeliveriesChain'
  <2>1. \A q \in Req : batch'[q].base = batch[q].base
    BY <1>1, <1>5, <1>6 DEF BatchIsFitting, NoWork
  <2>2. QED
    BY <1>1, <1>3, <1>9, <2>1
    DEF DeliveriesChain, ChainHolds, IsContinued, Live, Deliverable
<1>15. QED
  BY <1>7, <1>8, <1>11, <1>12, <1>13, <1>14 DEF IInv

LEMMA ResumeWaitingKeeps ==
  ASSUME IInv, NEW r \in Req, NEW hit \in Int, NEW n \in Int, NEW pad \in BOOLEAN,
         ResumeWaiting(r, hit, n, pad)
  PROVE  IInv'
<1>. DEFINE drafts == IF pad THEN NumSpec ELSE 0
            share == [NoWork EXCEPT !.n = n, !.base = tokens[r], !.drafts = drafts]
<1>1. /\ TypeOK /\ Types /\ StepsInOrder /\ BatchIsFitting /\ StaleShareIsExact
      /\ CountersFit /\ DeliveriesChain
  BY TypesSuffice DEF IInv
<1>2. /\ computed[r] \in Nat /\ tokens[r] \in Nat /\ placeholders[r] \in Nat
      /\ tokens[r] >= 1 /\ stale[r] \in Nat
  BY <1>1, Constants DEF Types
<1>3. /\ hit >= 0 /\ hit < tokens[r] /\ n >= 1 /\ status[r] = "waiting" /\ Scheduling
      /\ phase = "waiting" /\ may_resume(r)
      /\ IF pad THEN tokens[r] - hit = 1 /\ n = 1 + NumSpec ELSE n <= tokens[r] - hit
      /\ status' = [status EXCEPT ![r] = "running"]
      /\ computed' = [computed EXCEPT ![r] = hit]
      /\ batch' = [batch EXCEPT ![r] = share]
      /\ UNCHANGED <<phase, tokens, placeholders, in_flight, stale, drop,
                     preemptions, spec, preempted, device, known>>
  BY <1>2, Constants DEF ResumeWaiting, Scheduling
<1>4. /\ share \in Work
      /\ share.n = n /\ share.drafts = drafts /\ ~share.samples
      /\ share.base = tokens[r] /\ share.epoch = 0
  <2>1. drafts \in Nat /\ n \in Nat
    BY <1>3, Constants
  <2>. HIDE DEF drafts
  <2>2. QED
    BY <1>2, <2>1 DEF Work, NoWork
<1>. HIDE DEF share
<1>5. /\ \A q \in Req : batch'[q] = IF q = r THEN share ELSE batch[q]
      /\ \A q \in Req : status'[q] = IF q = r THEN "running" ELSE status[q]
      /\ \A q \in Req : computed'[q] = IF q = r THEN hit ELSE computed[q]
  BY <1>1, <1>3 DEF Types
<1>6. TypeOK'
  <2>1. status' \in [Req -> {"waiting", "running", "finished"}]
    BY <1>1, <1>3 DEF Types
  <2>2. batch' \in [Req -> Work] /\ computed' \in [Req -> Nat]
    BY <1>1, <1>3, <1>4 DEF Types
  <2>3. QED
    BY <1>1, <1>3, <2>1, <2>2, TypesSufficeNext DEF Types
<1>7. StepsInOrder'
  BY <1>1, <1>3 DEF StepsInOrder
<1>8. /\ \A q \in Req : Promised(q)' = Promised(q) /\ Fresh(q)' = Fresh(q)
      /\ \A q \in Req, i \in DOMAIN device : Deliverable(i, q)' = Deliverable(i, q)
      /\ DOMAIN device' = DOMAIN device
  BY <1>3 DEF Promised, Fresh, Deliverable
<1>9. r \in Live /\ LiveFits(r) /\ WaitingFits(r)
  BY <1>1, <1>3 DEF CountersFit, Live
<1>10. \A i \in DOMAIN device : ~Deliverable(i, r)
  <2>. SUFFICES ASSUME NEW i \in DOMAIN device, Deliverable(i, r) PROVE FALSE
    OBVIOUS
  <2>1. device[i][r].n > 0 /\ device[i][r].epoch < preemptions[r] /\ ~drop[r]
    <3>1. /\ device[i][r].n > 0 /\ device[i][r].epoch < preemptions[r]
          /\ device[i][r].epoch \in Nat /\ preemptions[r] \in Nat
      BY <1>1, <1>9, SharesAreWork, SumsAreNatural DEF Deliverable, WaitingFits
    <3>2. QED
      BY <3>1 DEF Deliverable
  <2>2. stale[r] > 0
    BY <1>1, <1>9, <2>1, StaleShareCounts
  <2>3. QED
    BY <1>2, <1>3, <2>1, <2>2 DEF may_resume
<1>11. Promised(r) = 0 /\ Fresh(r) = 0
  BY <1>1, <1>9, SumsAreNatural, OnlyOlderShares DEF WaitingFits, Promised, Fresh
<1>12. BatchIsFitting'
  <2>1. Scheduling' /\ Len(device') < MaxBatches
    BY <1>1, <1>3 DEF BatchIsFitting, Scheduling
  <2>2. ASSUME NEW q \in Req, batch'[q].n = 0 PROVE batch'[q] = NoWork
    BY <1>1, <1>3, <1>4, <1>5, <2>2 DEF BatchIsFitting
  <2>3. ASSUME NEW q \in Req, q # r, batch'[q].n > 0 PROVE BatchFits(q)'
    BY <1>1, <1>3, <1>5, <1>8, <2>3 DEF BatchIsFitting, BatchFits
  <2>4. BatchFits(r)'
    <3>1. batch'[r] = share /\ computed'[r] = hit /\ status'[r] = "running"
      BY <1>5
    <3>2. Promised(r)' = 0
      BY <1>8, <1>11
    <3>3. placeholders[r] = 0
      BY <1>9, <1>11 DEF LiveFits
    <3>4. drafts = IF hit + n - tokens[r] - placeholders[r] > 0
                   THEN hit + n - tokens[r] - placeholders[r] ELSE 0
      BY <1>2, <1>3, <3>3, Constants
    <3>5. \A i \in DOMAIN device' : ~Deliverable(i, r)'
      BY <1>8, <1>10
    <3>. HIDE DEF drafts
    <3>6. QED
      BY <1>3, <1>4, <3>1, <3>2, <3>4, <3>5 DEF BatchFits
  <2>5. QED
    BY <2>1, <2>2, <2>3, <2>4 DEF BatchIsFitting
<1>13. Live' = Live
  BY <1>3, <1>5 DEF Live
<1>14. StaleShareIsExact'
  BY <1>1, <1>3, <1>13 DEF StaleShareIsExact
<1>15. CountersFit'
  <2>1. RunningFits(r)'
    <3>1. /\ Promised(r)' = 0 /\ Fresh(r)' = 0 /\ computed'[r] = hit
          /\ tokens'[r] = tokens[r] /\ stale'[r] = stale[r] /\ drop'[r] = drop[r]
      BY <1>3, <1>5, <1>8, <1>11
    <3>2. stale[r] > 0 => drop[r]
      BY <1>2, <1>3 DEF may_resume
    <3>3. tokens[r] + 0 - hit >= 1
      BY <1>2, <1>3
    <3>4. QED
      BY <1>3, <3>1, <3>2, <3>3 DEF RunningFits
  <2>2. ASSUME NEW q \in Req, q # r, status'[q] = "running" PROVE RunningFits(q)'
    BY <1>1, <1>3, <1>5, <1>8, <2>2 DEF CountersFit, RunningFits
  <2>3. ASSUME NEW q \in Req, status'[q] = "waiting" PROVE WaitingFits(q)'
    BY <1>1, <1>3, <1>5, <2>3 DEF CountersFit, WaitingFits
  <2>4. ASSUME NEW q \in Live' PROVE LiveFits(q)'
    BY <1>1, <1>3, <1>8, <1>13, <2>4 DEF CountersFit, LiveFits, Live
  <2>5. \A q \in Req : spec'[q] <= NumSpec
    BY <1>1, <1>3 DEF CountersFit
  <2>6. QED
    BY <2>1, <2>2, <2>3, <2>4, <2>5 DEF CountersFit
<1>16. DeliveriesChain'
  <2>1. ASSUME NEW q \in Live' PROVE ChainHolds(q)'
    BY <1>1, <1>3, <1>8, <1>13, <2>1 DEF DeliveriesChain, ChainHolds, Live, Deliverable
  <2>2. ~IsContinued(r)'
    BY <1>2, <1>4, <1>5 DEF IsContinued
  <2>3. ASSUME NEW q \in Live', q # r, IsContinued(q)'
        PROVE  known'[q] = tokens'[q] /\ stale'[q] = 0
    BY <1>1, <1>3, <1>5, <1>8, <1>13, <2>3 DEF DeliveriesChain, IsContinued, Live
  <2>4. QED
    BY <2>1, <2>2, <2>3 DEF DeliveriesChain
<1>17. QED
  BY <1>6, <1>7, <1>12, <1>14, <1>15, <1>16 DEF IInv

(* A preemption of the requests of R, with their batch entries withdrawn. *)
LEMMA PreemptionKeeps ==
  ASSUME IInv, NEW R \in SUBSET Req, NEW d \in BOOLEAN, _preempt_request(R, d),
         batch' \in [Req -> Work],
         \A q \in Req : batch'[q] = IF q \in R THEN NoWork ELSE batch[q],
         preempted' \in BOOLEAN, UNCHANGED <<phase, device, known>>
  PROVE  IInv'
<1>1. /\ TypeOK /\ Types /\ StepsInOrder /\ BatchIsFitting /\ StaleShareIsExact
      /\ CountersFit /\ DeliveriesChain
  BY TypesSuffice DEF IInv
<1>2. /\ \A q \in R : status[q] = "running" /\ preemptions[q] < MaxPreemptions
      /\ UNCHANGED <<tokens, in_flight, phase, device, known>>
      /\ \A q \in Req :
           /\ status'[q] = IF q \in R THEN "waiting" ELSE status[q]
           /\ computed'[q] = IF q \in R THEN 0 ELSE computed[q]
           /\ spec'[q] = IF q \in R THEN 0 ELSE spec[q]
           /\ drop'[q] = IF q \in R THEN d \/ (drop[q] /\ stale[q] > 0) ELSE drop[q]
           /\ stale'[q] = IF q \in R THEN in_flight[q] ELSE stale[q]
           /\ placeholders'[q] = IF q \in R THEN 0 ELSE placeholders[q]
           /\ preemptions'[q] = IF q \in R THEN preemptions[q] + 1 ELSE preemptions[q]
  BY DEF _preempt_request, drop_after_preemption, stale_after_preemption
<1>3. TypeOK'
  <2>1. /\ status' \in [Req -> {"waiting", "running", "finished"}]
        /\ computed' \in [Req -> Nat] /\ spec' \in [Req -> Nat]
        /\ stale' \in [Req -> Nat] /\ placeholders' \in [Req -> Nat]
    BY <1>1 DEF Types, _preempt_request, stale_after_preemption
  <2>2. drop' \in [Req -> BOOLEAN]
    BY <1>1 DEF Types, _preempt_request, drop_after_preemption
  <2>3. preemptions' \in [Req -> 0 .. MaxPreemptions]
    BY <1>1, <1>2, Constants DEF Types, _preempt_request
  <2>4. QED
    BY <1>1, <1>2, <2>1, <2>2, <2>3, TypesSufficeNext DEF Types
<1>4. \A q \in Req : preemptions[q] \in Nat
  BY <1>1, SumsAreNatural
<1>5. StepsInOrder'
  <2>. SUFFICES ASSUME NEW q \in Req, NEW i \in DOMAIN device
                PROVE  device[i][q].epoch <= preemptions'[q]
    BY <1>1, <1>2 DEF StepsInOrder
  <2>1. device[i][q].epoch <= preemptions[q] /\ device[i][q].epoch \in Nat
    BY <1>1, SharesAreWork DEF StepsInOrder
  <2>2. QED
    BY <1>2, <1>4, <2>1
(* The requests that are not preempted. *)
<1>6. ASSUME NEW q \in Req, q \notin R
      PROVE  /\ Promised(q)' = Promised(q) /\ Fresh(q)' = Fresh(q)
             /\ \A i \in DOMAIN device : Deliverable(i, q)' = Deliverable(i, q)
             /\ batch'[q] = batch[q]
  BY <1>2, <1>6 DEF Promised, Fresh, Deliverable
(* Everything in flight of a preempted request is older now. *)
<1>7. ASSUME NEW q \in R
      PROVE  /\ \A i \in DOMAIN device : device[i][q].epoch < preemptions'[q]
             /\ Promised(q)' = 0 /\ Fresh(q)' = 0
             /\ SumOver(device, q, StaleTokens(preemptions'[q])) = in_flight[q]
  <2>1. q \in Live /\ q \in Req
    BY <1>2 DEF Live
  <2>2. \A i \in DOMAIN device : device[i][q].epoch < preemptions'[q]
    BY <1>1, <1>2, <1>4, <2>1, SharesAreWork DEF StepsInOrder
  <2>3. preemptions'[q] \in Nat
    BY <1>2, <1>4, <2>1
  <2>4. /\ SumOver(device, q, MayAppend(preemptions'[q])) = 0
        /\ SumOver(device, q, FreshTokens(preemptions'[q])) = 0
        /\ SumOver(device, q, StaleTokens(preemptions'[q]))
             = SumOver(device, q, AllTokens)
    BY <1>1, <2>1, <2>2, <2>3, OnlyOlderShares
  <2>5. QED
    BY <1>1, <1>2, <2>1, <2>2, <2>4 DEF Promised, Fresh, StaleShareIsExact
<1>8. BatchIsFitting'
  <2>1. ASSUME NEW q \in Req, batch'[q].n > 0 PROVE q \notin R /\ batch'[q] = batch[q]
    BY <2>1 DEF NoWork
  <2>2. ASSUME NEW q \in Req, batch'[q].n > 0 PROVE BatchFits(q)'
    BY <1>1, <1>2, <1>6, <2>1, <2>2 DEF BatchIsFitting, BatchFits
  <2>3. ASSUME NEW q \in Req, batch'[q].n = 0 PROVE batch'[q] = NoWork
    BY <1>1, <2>3 DEF BatchIsFitting
  <2>4. Scheduling' = Scheduling /\ Len(device') = Len(device)
    BY <1>2 DEF Scheduling
  <2>5. ~Scheduling' => \A q \in Req : batch'[q] = NoWork
    BY <1>1, <2>4 DEF BatchIsFitting
  <2>6. QED
    BY <1>1, <2>2, <2>3, <2>4, <2>5 DEF BatchIsFitting
<1>9. Live' = Live
  BY <1>2 DEF Live
<1>10. StaleShareIsExact'
  <2>1. ASSUME NEW q \in Live', q \in R
        PROVE  /\ in_flight'[q] = SumOver(device', q, AllTokens)
               /\ stale'[q] = SumOver(device', q, StaleTokens(preemptions'[q]))
    BY <1>1, <1>2, <1>7, <1>9, <2>1 DEF StaleShareIsExact, Live
  <2>2. ASSUME NEW q \in Live', q \notin R
        PROVE  /\ in_flight'[q] = SumOver(device', q, AllTokens)
               /\ stale'[q] = SumOver(device', q, StaleTokens(preemptions'[q]))
    BY <1>1, <1>2, <1>9, <2>2 DEF StaleShareIsExact, Live
  <2>3. QED
    BY <2>1, <2>2 DEF StaleShareIsExact
<1>11. CountersFit'
  <2>1. \A q \in Req : spec'[q] <= NumSpec
    BY <1>1, <1>2, Constants DEF CountersFit
  <2>2. ASSUME NEW q \in Live' PROVE LiveFits(q)'
    BY <1>1, <1>2, <1>6, <1>7, <1>9, <2>2 DEF CountersFit, LiveFits, Live
  <2>3. ASSUME NEW q \in Req, status'[q] = "waiting" PROVE WaitingFits(q)'
    BY <1>1, <1>2, <1>7, <2>3 DEF CountersFit, WaitingFits
  <2>4. ASSUME NEW q \in Req, status'[q] = "running" PROVE RunningFits(q)'
    BY <1>1, <1>2, <1>6, <2>4 DEF CountersFit, RunningFits
  <2>5. QED
    BY <2>1, <2>2, <2>3, <2>4 DEF CountersFit
<1>12. DeliveriesChain'
  (* If the output of a preempted request is to be delivered, all that is  *)
  (* in flight belongs to the residency that has just ended.               *)
  <2>1. ASSUME NEW q \in R, ~drop'[q], NEW i \in DOMAIN device, device[i][q].n > 0
        PROVE  Deliverable(i, q)
    <3>1. q \in Live /\ q \in Req /\ RunningFits(q)
      BY <1>1, <1>2 DEF Live, CountersFit
    <3>2. ~(drop[q] /\ stale[q] > 0)
      BY <1>2, <2>1, <3>1
    <3>3. ~(stale[q] > 0)
      BY <3>1, <3>2 DEF RunningFits
    <3>4. ~(device[i][q].epoch < preemptions[q])
      BY <1>1, <2>1, <3>1, <3>3, StaleShareCounts
    <3>5. device[i][q].epoch \in Nat /\ device[i][q].epoch <= preemptions[q]
      BY <1>1, <3>1, SharesAreWork DEF StepsInOrder
    <3>6. QED
      BY <1>4, <2>1, <3>1, <3>4, <3>5 DEF Deliverable
  <2>2. ASSUME NEW q \in Live', q \in R PROVE ChainHolds(q)'
    <3>1. q \in Live /\ q \in Req /\ ChainHolds(q)
      BY <1>1, <1>9, <2>2 DEF DeliveriesChain, Live
    <3>2. \A i \in DOMAIN device : Deliverable(i, q)' <=> device[i][q].n > 0 /\ ~drop'[q]
      BY <1>2, <1>4, <1>7, <2>2, <3>1, SharesAreWork, <1>1 DEF Deliverable
    <3>3. CASE drop'[q]
      BY <1>2, <3>2, <3>3 DEF ChainHolds
    <3>4. CASE ~drop'[q]
      <4>1. \A i \in DOMAIN device : Deliverable(i, q)' <=> Deliverable(i, q)
        BY <2>1, <2>2, <3>2, <3>4 DEF Deliverable
      <4>2. \A i \in DOMAIN device : \A k \in 1 .. i - 1 : k \in DOMAIN device
        BY <1>1, <3>1, SharesAreWork
      <4>3. QED
        BY <1>2, <3>1, <4>1, <4>2 DEF ChainHolds
    <3>5. QED
      BY <3>3, <3>4
  <2>3. ASSUME NEW q \in Live', q \notin R PROVE ChainHolds(q)'
    <3>1. q \in Live /\ q \in Req /\ ChainHolds(q)
      BY <1>1, <1>9, <2>3 DEF DeliveriesChain, Live
    <3>2. \A i \in DOMAIN device : \A k \in 1 .. i - 1 : k \in DOMAIN device
      BY <1>1, <3>1, SharesAreWork
    <3>3. QED
      BY <1>2, <1>6, <2>3, <3>1, <3>2 DEF ChainHolds
  <2>4. ASSUME NEW q \in Live', IsContinued(q)'
        PROVE  known'[q] = tokens'[q] /\ stale'[q] = 0
    <3>1. q \in Live /\ q \in Req /\ q \notin R
      BY <1>2, <1>9, <2>4 DEF IsContinued, Live
    <3>2. IsContinued(q)
      BY <1>2, <1>6, <2>4, <3>1 DEF IsContinued
    <3>3. QED
      BY <1>1, <1>2, <3>1, <3>2 DEF DeliveriesChain
  <2>5. QED
    BY <2>2, <2>3, <2>4 DEF DeliveriesChain
<1>13. QED
  BY <1>3, <1>5, <1>8, <1>10, <1>11, <1>12 DEF IInv

LEMMA PreemptVictimKeeps ==
  ASSUME IInv, NEW r \in Req, PreemptVictim(r)
  PROVE  IInv'
<1>1. Types /\ NoWork \in Work
  BY TypesSuffice, NoWorkWeighsNothing DEF IInv
<1>2. /\ batch' \in [Req -> Work]
      /\ \A q \in Req : batch'[q] = IF q \in {r} THEN NoWork ELSE batch[q]
  BY <1>1 DEF PreemptVictim, Types
<1>3. /\ {r} \in SUBSET Req /\ KVDelivery \in BOOLEAN
      /\ _preempt_request({r}, KVDelivery) /\ preempted' \in BOOLEAN
      /\ UNCHANGED <<phase, device, known>>
  BY AccountingAssumption DEF AccountingAssumption, PreemptVictim
<1>4. QED
  BY <1>2, <1>3, PreemptionKeeps

LEMMA ResetKeeps ==
  ASSUME IInv, reset_prefix_cache
  PROVE  IInv'
<1>. DEFINE running == {r \in Req : status[r] = "running"}
<1>1. Types /\ \A q \in Req : batch[q] = NoWork
  BY TypesSuffice DEF IInv, BatchIsFitting, Scheduling, reset_prefix_cache
<1>2. /\ running \in SUBSET Req /\ _preempt_request(running, TRUE)
      /\ UNCHANGED <<phase, batch, preempted, device, known>>
  BY DEF reset_prefix_cache
<1>. HIDE DEF running
<1>3. /\ batch' \in [Req -> Work] /\ preempted' \in BOOLEAN
      /\ \A q \in Req : batch'[q] = IF q \in running THEN NoWork ELSE batch[q]
  BY <1>1, <1>2 DEF Types
<1>4. QED
  BY <1>2, <1>3, PreemptionKeeps

-----------------------------------------------------------------------------
(* A step is handed to the workers *)

LEMMA EmptyStepKeeps ==
  ASSUME IInv, _update_after_schedule, Scheduled = {}
  PROVE  IInv'
<1>1. /\ TypeOK /\ Types /\ StepsInOrder /\ BatchIsFitting /\ StaleShareIsExact
      /\ CountersFit /\ DeliveriesChain
  BY TypesSuffice DEF IInv
<1>2. \A r \in Req : batch[r].n = 0 /\ batch[r] = NoWork
  <2>1. ASSUME NEW r \in Req PROVE batch[r].n \in Nat /\ ~(batch[r].n > 0)
    BY <1>1 DEF Types, Work, Scheduled
  <2>2. QED
    BY <1>1, <2>1 DEF BatchIsFitting
<1>3. /\ computed' = computed /\ in_flight' = in_flight
      /\ placeholders' = placeholders /\ spec' = spec
  <2>1. {r \in Scheduled : ~is_prefill_chunk(r)} = {}
    OBVIOUS
  <2>2. computed' = [r \in Req |-> computed[r]] /\ in_flight' = [r \in Req |-> in_flight[r]]
    BY <1>1, <1>2 DEF _update_after_schedule, Types
  <2>3. placeholders' = [r \in Req |-> placeholders[r]] /\ spec' = [r \in Req |-> spec[r]]
    BY <2>1 DEF _update_after_schedule
  <2>4. QED
    BY <1>1, <2>2, <2>3 DEF Types
<1>4. /\ batch' = batch /\ phase' = "idle" /\ preempted' = FALSE
      /\ UNCHANGED <<device, status, tokens, stale, drop, preemptions, known>>
  BY <1>1, <1>2 DEF _update_after_schedule, Types
<1>5. TypeOK'
  BY <1>1, <1>3, <1>4, TypesSufficeNext DEF Types
<1>6. StepsInOrder'
  BY <1>1, <1>4 DEF StepsInOrder
<1>7. BatchIsFitting'
  BY <1>2, <1>4 DEF BatchIsFitting, Scheduling, NoWork
<1>8. StaleShareIsExact'
  BY <1>1, <1>3, <1>4 DEF StaleShareIsExact, Live
<1>9. CountersFit'
  BY <1>1, <1>3, <1>4
  DEF CountersFit, LiveFits, WaitingFits, RunningFits, Live, Promised, Fresh
<1>10. DeliveriesChain'
  BY <1>1, <1>4 DEF DeliveriesChain, ChainHolds, IsContinued, Live, Deliverable
<1>11. QED
  BY <1>5, <1>6, <1>7, <1>8, <1>9, <1>10 DEF IInv

LEMMA FullStepKeeps ==
  ASSUME IInv, _update_after_schedule, Scheduled # {}
  PROVE  IInv'
<1>. DEFINE samples == {r \in Scheduled : ~is_prefill_chunk(r)}
            share(r) == [batch[r] EXCEPT !.samples = r \in samples,
                                         !.epoch = preemptions[r]]
            step == [r \in Req |-> IF r \in Scheduled THEN share(r) ELSE NoWork]
<1>1. /\ TypeOK /\ Types /\ StepsInOrder /\ BatchIsFitting /\ StaleShareIsExact
      /\ CountersFit /\ DeliveriesChain
  BY TypesSuffice DEF IInv
<1>0. PICK last \in Nat : last = Len(device) + 1
  BY <1>1 DEF Types
<1>2. /\ Scheduling /\ phase' = "idle" /\ preempted' = FALSE
      /\ computed' = [r \in Req |-> computed[r] + batch[r].n]
      /\ in_flight' = [r \in Req |-> in_flight[r] + batch[r].n]
      /\ placeholders' = [r \in Req |-> IF Async /\ r \in samples
                            THEN placeholders[r] + 1 + batch[r].drafts
                            ELSE placeholders[r]]
      /\ spec' = [r \in Req |-> IF Async /\ r \in samples THEN NumSpec ELSE spec[r]]
      /\ device' = Append(device, step)
      /\ batch' = [r \in Req |-> NoWork]
      /\ UNCHANGED <<status, tokens, stale, drop, preemptions, known>>
  BY DEF _update_after_schedule, Scheduling
<1>3. ASSUME NEW r \in Req
      PROVE  /\ batch[r] \in Work /\ batch[r].n \in Nat /\ batch[r].drafts \in Nat
             /\ batch[r].base \in Nat /\ preemptions[r] \in Nat
             /\ tokens[r] \in Nat /\ placeholders[r] \in Nat /\ computed[r] \in Nat
             /\ in_flight[r] \in Nat /\ spec[r] \in Nat
             /\ (r \in Scheduled) <=> (batch[r].n > 0)
             /\ r \in samples => r \in Scheduled
  <2>1. batch[r] \in Work /\ preemptions[r] \in Nat /\ tokens[r] \in Nat
    BY <1>1, Constants DEF Types
  <2>2. batch[r].n \in Nat /\ batch[r].drafts \in Nat /\ batch[r].base \in Nat
    BY <2>1 DEF Work
  <2>3. /\ placeholders[r] \in Nat /\ computed[r] \in Nat
        /\ in_flight[r] \in Nat /\ spec[r] \in Nat
    BY <1>1 DEF Types
  <2>4. (r \in Scheduled) <=> (batch[r].n > 0)
    BY DEF Scheduled
  <2>5. QED
    BY <2>1, <2>2, <2>3, <2>4
<1>4. ASSUME NEW r \in Scheduled
      PROVE  /\ share(r) \in Work /\ share(r).n = batch[r].n
             /\ share(r).drafts = batch[r].drafts /\ share(r).base = batch[r].base
             /\ share(r).epoch = preemptions[r] /\ share(r).samples = (r \in samples)
  <2>1. r \in Req /\ batch[r] \in Work /\ preemptions[r] \in Nat
    BY <1>3 DEF Scheduled
  <2>2. (r \in samples) \in BOOLEAN
    OBVIOUS
  <2>3. QED
    BY <2>1, <2>2 DEF Work
<1>. HIDE DEF share
<1>5. /\ step \in [Req -> Work] /\ Scheduled \subseteq Req
      /\ \A r \in Req : step[r] = IF r \in Scheduled THEN share(r) ELSE NoWork
  BY <1>4, NoWorkWeighsNothing DEF Scheduled
<1>. HIDE DEF step
<1>6. /\ device' \in Seq([Req -> Work]) /\ Len(device') = last
      /\ DOMAIN device' = 1 .. last /\ DOMAIN device = 1 .. Len(device)
      /\ Len(device) \in Nat /\ Len(device) < MaxBatches /\ last = Len(device) + 1
      /\ device'[last] = step /\ \A i \in DOMAIN device : device'[i] = device[i]
  <2>1. device \in Seq([Req -> Work]) /\ Len(device) < MaxBatches
    BY <1>1, <1>2 DEF Types, BatchIsFitting
  <2>2. QED
    BY <1>0, <1>2, <1>5, <2>1
<1>. HIDE DEF samples
<1>7. ASSUME NEW r \in Req, NEW f \in [Work -> Nat]
      PROVE  SumOver(device', r, f) = SumOver(device, r, f) + f[step[r]]
  <2>1. device \in Seq([Req -> Work]) /\ step \in [Req -> Work]
    BY <1>1, <1>5 DEF Types
  <2>2. SumOver(Append(device, step), r, f) = SumOver(device, r, f) + f[step[r]]
    BY <2>1, SumOverAppended
  <2>3. QED
    BY <1>2, <2>2
<1>8. ASSUME NEW r \in Req, r \notin Scheduled
      PROVE  /\ step[r] = NoWork /\ batch[r] = NoWork /\ batch[r].n = 0
             /\ computed'[r] = computed[r] /\ in_flight'[r] = in_flight[r]
             /\ placeholders'[r] = placeholders[r] /\ spec'[r] = spec[r]
  <2>1. batch[r].n = 0 /\ batch[r] = NoWork
    BY <1>1, <1>3, <1>8 DEF BatchIsFitting
  <2>2. r \notin samples
    BY <1>3, <1>8
  <2>3. QED
    BY <1>2, <1>3, <1>5, <1>8, <2>1, <2>2
<1>9. ASSUME NEW r \in Scheduled
      PROVE  /\ BatchFits(r) /\ batch[r].n > 0 /\ r \in Req /\ r \in Live
             /\ status[r] = "running" /\ LiveFits(r) /\ RunningFits(r)
             /\ r \in samples <=>
                  computed[r] + batch[r].n >= tokens[r] + placeholders[r]
  <2>1. BatchFits(r) /\ batch[r].n > 0 /\ r \in Req
    BY <1>1 DEF BatchIsFitting, Scheduled
  <2>2. status[r] = "running" /\ r \in Live
    BY <2>1 DEF BatchFits, Live
  <2>3. r \in samples <=> computed[r] + batch[r].n >= tokens[r] + placeholders[r]
    BY <1>3, <2>1 DEF is_prefill_chunk, samples
  <2>4. QED
    BY <1>1, <2>1, <2>2, <2>3 DEF CountersFit
<1>10. TypeOK'
  <2>1. computed' \in [Req -> Nat] /\ in_flight' \in [Req -> Nat]
    <3>1. \A r \in Req : computed[r] + batch[r].n \in Nat /\ in_flight[r] + batch[r].n \in Nat
      BY <1>3
    <3>2. QED
      BY <1>2, <3>1
  <2>2. placeholders' \in [Req -> Nat] /\ spec' \in [Req -> Nat]
    <3>1. \A r \in Req : /\ placeholders[r] \in Nat /\ spec[r] \in Nat
                        /\ placeholders[r] + 1 + batch[r].drafts \in Nat
      BY <1>3
    <3>2. QED
      BY <1>2, <3>1, Constants
  <2>3. batch' \in [Req -> Work]
    BY <1>2, NoWorkWeighsNothing
  <2>4. Len(device') <= MaxBatches
    BY <1>6, Constants
  <2>5. QED
    BY <1>1, <1>2, <1>6, <2>1, <2>2, <2>3, <2>4, TypesSufficeNext DEF Types
(* What a scheduled request lacks, and what its share adds to the sums. *)
<1>11. ASSUME NEW r \in Scheduled
       PROVE  LET lacking == tokens[r] + placeholders[r] - computed[r]
              IN  /\ Promised(r) \in Nat /\ placeholders[r] = Promised(r)
                  /\ lacking >= 1 /\ (Promised(r) > 0 => lacking = 1)
                  /\ batch[r].drafts = IF batch[r].n > lacking
                                       THEN batch[r].n - lacking ELSE 0
                  /\ r \in samples <=> batch[r].n >= lacking
                  /\ Promised(r) > 0 => Async
  <2>1. /\ r \in Req /\ Promised(r) \in Nat
        /\ tokens[r] \in Nat /\ placeholders[r] \in Nat /\ computed[r] \in Nat
        /\ batch[r].n \in Nat
    BY <1>1, <1>3, <1>9, SumsAreNatural
  <2>2. (Promised(r) > 0 => Async) /\ placeholders[r] = Promised(r)
    BY <1>9, <2>1, Constants DEF BatchFits, LiveFits
  <2>3. /\ tokens[r] + Promised(r) - computed[r] >= 1
        /\ Promised(r) > 0 => tokens[r] + Promised(r) - computed[r] = 1
    BY <1>9 DEF RunningFits
  <2>4. batch[r].drafts = IF computed[r] + batch[r].n - tokens[r] - placeholders[r] > 0
                          THEN computed[r] + batch[r].n - tokens[r] - placeholders[r]
                          ELSE 0
    BY <1>9 DEF BatchFits
  <2>5. r \in samples <=> computed[r] + batch[r].n >= tokens[r] + placeholders[r]
    BY <1>9
  <2>6. QED
    BY <2>1, <2>2, <2>3, <2>4, <2>5
<1>12. ASSUME NEW r \in Req
       PROVE  /\ Fresh(r)' = Fresh(r) + batch[r].n
              /\ Promised(r)' = Promised(r) +
                   (IF r \in samples THEN 1 + batch[r].drafts ELSE 0)
              /\ SumOver(device', r, AllTokens)
                   = SumOver(device, r, AllTokens) + batch[r].n
              /\ SumOver(device', r, StaleTokens(preemptions[r]))
                   = SumOver(device, r, StaleTokens(preemptions[r]))
  <2>1. /\ step[r] \in Work /\ preemptions[r] \in Nat
        /\ Fresh(r) \in Nat /\ Promised(r) \in Nat
        /\ SumOver(device, r, AllTokens) \in Nat
        /\ SumOver(device, r, StaleTokens(preemptions[r])) \in Nat
    BY <1>1, <1>3, <1>5, SumsAreNatural
  <2>2. /\ FreshTokens(preemptions[r])[step[r]] = batch[r].n
        /\ MayAppend(preemptions[r])[step[r]] =
             (IF r \in samples THEN 1 + batch[r].drafts ELSE 0)
        /\ AllTokens[step[r]] = batch[r].n
        /\ StaleTokens(preemptions[r])[step[r]] = 0
    <3>1. CASE r \in Scheduled
      <4>1. /\ step[r].n = batch[r].n /\ step[r].epoch = preemptions[r]
            /\ step[r].drafts = batch[r].drafts /\ step[r].samples = (r \in samples)
        BY <1>4, <1>5, <3>1
      <4>2. step[r].n \in Nat /\ step[r].epoch \in Nat /\ step[r].drafts \in Nat
        BY <1>3, <4>1
      <4>3. /\ FreshTokens(preemptions[r])[step[r]] = batch[r].n
            /\ AllTokens[step[r]] = batch[r].n
        BY <2>1, <4>1 DEF FreshTokens, AllTokens
      <4>4. StaleTokens(preemptions[r])[step[r]] = 0
        BY <2>1, <4>1 DEF StaleTokens
      <4>5. MayAppend(preemptions[r])[step[r]] =
              (IF r \in samples THEN 1 + batch[r].drafts ELSE 0)
        BY <2>1, <4>1 DEF MayAppend
      <4>6. QED
        BY <4>3, <4>4, <4>5
    <3>2. CASE r \notin Scheduled
      <4>1. r \notin samples /\ step[r] = NoWork /\ batch[r].n = 0
        BY <1>3, <1>8, <3>2
      <4>2. QED
        BY <2>1, <4>1, NoWorkWeighsNothing
    <3>3. QED
      BY <3>1, <3>2
  <2>3. UNCHANGED preemptions
    BY <1>2
  <2>4. /\ FreshTokens(preemptions[r]) \in [Work -> Nat]
        /\ MayAppend(preemptions[r]) \in [Work -> Nat]
        /\ AllTokens \in [Work -> Nat] /\ StaleTokens(preemptions[r]) \in [Work -> Nat]
    BY <2>1, WeightTypes
  <2>5. /\ SumOver(device', r, FreshTokens(preemptions[r])) = Fresh(r) + batch[r].n
        /\ SumOver(device', r, MayAppend(preemptions[r]))
             = Promised(r) + (IF r \in samples THEN 1 + batch[r].drafts ELSE 0)
    BY <1>7, <2>2, <2>4 DEF Fresh, Promised
  <2>6. /\ SumOver(device', r, AllTokens) = SumOver(device, r, AllTokens) + batch[r].n
        /\ SumOver(device', r, StaleTokens(preemptions[r]))
             = SumOver(device, r, StaleTokens(preemptions[r])) + 0
    BY <1>7, <2>2, <2>4
  <2>7. QED
    BY <2>1, <2>3, <2>5, <2>6 DEF Fresh, Promised
<1>13. ASSUME NEW r \in Req
       PROVE  /\ \A i \in DOMAIN device : Deliverable(i, r)' = Deliverable(i, r)
              /\ Deliverable(last, r)' <=> (r \in Scheduled)
  <2>0. device'[last][r] = step[r] /\ preemptions' = preemptions
    BY <1>2, <1>6
  <2>1. \A i \in DOMAIN device : Deliverable(i, r)' = Deliverable(i, r)
    BY <1>2, <1>6 DEF Deliverable
  <2>2. CASE r \in Scheduled
    <3>1. step[r].n > 0 /\ step[r].epoch = preemptions[r]
      BY <1>4, <1>5, <1>9, <2>2
    <3>2. QED
      BY <2>0, <2>1, <2>2, <3>1 DEF Deliverable
  <2>3. CASE r \notin Scheduled
    <3>1. ~(step[r].n > 0)
      BY <1>8, <2>3 DEF NoWork
    <3>2. QED
      BY <2>0, <2>1, <2>3, <3>1 DEF Deliverable
  <2>4. QED
    BY <2>1, <2>2, <2>3
<1>14. StepsInOrder'
  <2>. SUFFICES ASSUME NEW r \in Req, NEW i \in 1 .. last
                PROVE  /\ device'[i][r].n = 0 => device'[i][r] = NoWork
                       /\ device'[i][r].epoch <= preemptions'[r]
                       /\ device'[i][r].samples => device'[i][r].drafts <= device'[i][r].n
                       /\ \A j \in 1 .. last :
                            i < j /\ device'[j][r].n > 0 =>
                              device'[i][r].epoch <= device'[j][r].epoch
    BY <1>6 DEF StepsInOrder
  <2>1. step[r].n > 0 => r \in Scheduled /\ step[r].epoch = preemptions[r]
    BY <1>4, <1>5, <1>8 DEF NoWork
  <2>2. CASE i \in DOMAIN device
    <3>1. /\ device'[i] = device[i] /\ device[i][r].epoch <= preemptions[r]
          /\ device[i][r].n = 0 => device[i][r] = NoWork
          /\ device[i][r].samples => device[i][r].drafts <= device[i][r].n
      BY <1>1, <1>6, <2>2 DEF StepsInOrder
    <3>2. ASSUME NEW j \in 1 .. last, i < j, device'[j][r].n > 0
          PROVE  device'[i][r].epoch <= device'[j][r].epoch
      <4>1. CASE j \in DOMAIN device
        BY <1>1, <1>6, <2>2, <3>2, <4>1 DEF StepsInOrder
      <4>2. CASE j = last
        BY <1>6, <2>1, <3>1, <3>2, <4>2
      <4>3. QED
        BY <1>6, <4>1, <4>2
    <3>3. QED
      BY <1>2, <3>1, <3>2
  <2>3. CASE i = last
    <3>1. ASSUME NEW j \in 1 .. last PROVE ~(i < j)
      BY <1>6, <2>3
    <3>2. step[r].n = 0 => step[r] = NoWork
      BY <1>4, <1>5, <1>9
    <3>3. step[r].epoch <= preemptions[r]
      BY <1>3, <1>4, <1>5, <1>8 DEF NoWork
    <3>4. step[r].samples => step[r].drafts <= step[r].n
      <4>1. CASE r \in Scheduled
        <5>. DEFINE lacking == tokens[r] + placeholders[r] - computed[r]
        <5>1. /\ lacking \in Int /\ lacking >= 1 /\ batch[r].n \in Nat
              /\ batch[r].drafts = IF batch[r].n > lacking
                                   THEN batch[r].n - lacking ELSE 0
          BY <1>3, <1>11, <4>1
        <5>. HIDE DEF lacking
        <5>2. batch[r].drafts <= batch[r].n
          BY <5>1
        <5>3. QED
          BY <1>4, <1>5, <4>1, <5>2
      <4>2. CASE r \notin Scheduled
        BY <1>8, <4>2 DEF NoWork
      <4>3. QED
        BY <4>1, <4>2
    <3>5. QED
      BY <1>2, <1>6, <2>3, <3>1, <3>2, <3>3, <3>4
  <2>4. QED
    BY <1>6, <2>2, <2>3
<1>15. BatchIsFitting'
  BY <1>2 DEF BatchIsFitting, Scheduling, NoWork
<1>16. Live' = Live
  BY <1>2 DEF Live
<1>17. StaleShareIsExact'
  BY <1>1, <1>2, <1>12, <1>16 DEF StaleShareIsExact, Live, Types
<1>18. CountersFit'
  <2>1. \A r \in Req : spec'[r] <= NumSpec
    BY <1>1, <1>2, Constants DEF CountersFit
  <2>2. ASSUME NEW r \in Live' PROVE LiveFits(r)'
    <3>1. r \in Req /\ r \in Live /\ LiveFits(r)
      BY <1>1, <1>16, <2>2 DEF CountersFit, Live
    <3>2. /\ Promised(r)' = Promised(r) +
               (IF r \in samples THEN 1 + batch[r].drafts ELSE 0)
          /\ placeholders'[r] = IF Async /\ r \in samples
                                THEN placeholders[r] + 1 + batch[r].drafts
                                ELSE placeholders[r]
          /\ Promised(r) \in Nat /\ batch[r].drafts \in Nat
      BY <1>1, <1>2, <1>3, <1>12, <3>1, SumsAreNatural
    <3>3. tokens'[r] = tokens[r]
      BY <1>2
    <3>4. Promised(r)' = Promised(r)' /\ placeholders'[r] = IF Async THEN Promised(r)' ELSE 0
      BY <3>1, <3>2 DEF LiveFits
    <3>5. QED
      BY <3>1, <3>3, <3>4 DEF LiveFits
  <2>3. ASSUME NEW r \in Req, status'[r] = "waiting" PROVE WaitingFits(r)'
    <3>1. r \notin Scheduled /\ WaitingFits(r)
      BY <1>1, <1>2, <1>9, <2>3 DEF CountersFit
    <3>2. QED
      BY <1>2, <1>6, <1>8, <3>1 DEF WaitingFits, NoWork
  <2>4. ASSUME NEW r \in Req, status'[r] = "running" PROVE RunningFits(r)'
    <3>1. RunningFits(r) /\ r \in Req
      BY <1>1, <1>2, <2>4 DEF CountersFit
    <3>2. CASE r \notin Scheduled
      <4>1. r \notin samples
        BY <1>3, <3>1, <3>2
      <4>2. Fresh(r)' = Fresh(r) /\ Promised(r)' = Promised(r)
        BY <1>1, <1>8, <1>12, <3>1, <3>2, <4>1, SumsAreNatural
      <4>3. QED
        BY <1>2, <1>8, <3>1, <3>2, <4>2 DEF RunningFits
    <3>3. CASE r \in Scheduled
      <4>. DEFINE lacking == tokens[r] + placeholders[r] - computed[r]
      <4>1. /\ Promised(r) \in Nat /\ placeholders[r] = Promised(r)
            /\ lacking >= 1 /\ (Promised(r) > 0 => lacking = 1)
            /\ batch[r].drafts = IF batch[r].n > lacking THEN batch[r].n - lacking ELSE 0
            /\ r \in samples <=> batch[r].n >= lacking
        BY <1>11, <3>3
      <4>2. /\ tokens[r] \in Nat /\ computed[r] \in Nat /\ batch[r].n \in Nat
            /\ batch[r].n > 0 /\ computed'[r] = computed[r] + batch[r].n
            /\ Fresh(r)' = Fresh(r) + batch[r].n /\ Fresh(r) \in Nat
            /\ Promised(r)' = Promised(r) +
                 (IF r \in samples THEN 1 + batch[r].drafts ELSE 0)
            /\ computed[r] >= Fresh(r)
        BY <1>1, <1>2, <1>3, <1>9, <1>12, <3>1, <3>3, SumsAreNatural DEF RunningFits
      <4>3. /\ computed'[r] >= Fresh(r)'
            /\ tokens[r] + Promised(r)' - computed'[r] >= 1
            /\ Promised(r)' > 0 => tokens[r] + Promised(r)' - computed'[r] = 1
        BY <4>1, <4>2
      <4>4. (stale[r] > 0 => drop[r]) /\ tokens'[r] = tokens[r]
            /\ stale'[r] = stale[r] /\ drop'[r] = drop[r]
        BY <1>2, <3>1 DEF RunningFits
      <4>5. QED
        BY <4>3, <4>4 DEF RunningFits
    <3>4. QED
      BY <3>2, <3>3
  <2>5. QED
    BY <2>1, <2>2, <2>3, <2>4 DEF CountersFit
<1>19. DeliveriesChain'
  <2>1. ASSUME NEW r \in Live'
        PROVE  /\ r \in Live /\ r \in Req /\ ChainHolds(r)
               /\ IsContinued(r) => known[r] = tokens[r] /\ stale[r] = 0
    BY <1>1, <1>16, <2>1 DEF DeliveriesChain, Live
  <2>2. ASSUME NEW r \in Scheduled
        PROVE  /\ device'[last][r].base = batch[r].base
               /\ batch[r].base > 0 => /\ batch[r].base = tokens[r]
                                       /\ \A i \in DOMAIN device : ~Deliverable(i, r)
    BY <1>4, <1>5, <1>6, <1>9 DEF BatchFits
  <2>3. ASSUME NEW r \in Live' PROVE ChainHolds(r)'
    <3>. SUFFICES ASSUME NEW i \in 1 .. last, Deliverable(i, r)'
                  PROVE  /\ \A j \in 1 .. last :
                              i < j /\ device'[j][r].n > 0 => device'[j][r].base = 0
                         /\ device'[i][r].base > 0 => device'[i][r].base = tokens'[r]
                         /\ device'[i][r].base = 0
                              /\ (\A k \in 1 .. i - 1 : ~Deliverable(k, r)') =>
                              /\ known'[r] = tokens'[r]
                              /\ \A k \in 1 .. i - 1 : device'[k][r].n = 0
      BY <1>6 DEF ChainHolds
    <3>1. CASE i \in DOMAIN device
      <4>1. Deliverable(i, r) /\ device'[i] = device[i]
        BY <1>6, <1>13, <2>1, <3>1
      <4>2. ASSUME NEW j \in 1 .. last, i < j, device'[j][r].n > 0
            PROVE  device'[j][r].base = 0
        <5>1. CASE j \in DOMAIN device
          BY <1>6, <2>1, <3>1, <4>1, <4>2, <5>1 DEF ChainHolds
        <5>2. CASE j = last
          <6>1. r \in Scheduled
            BY <1>6, <1>8, <2>1, <4>2, <5>2 DEF NoWork
          <6>2. ~(batch[r].base > 0) /\ batch[r].base \in Nat
            BY <1>3, <2>1, <2>2, <3>1, <4>1, <6>1
          <6>3. QED
            BY <2>2, <5>2, <6>1, <6>2
        <5>3. QED
          BY <1>6, <5>1, <5>2
      <4>3. device'[i][r].base > 0 => device'[i][r].base = tokens'[r]
        BY <1>2, <2>1, <3>1, <4>1 DEF ChainHolds
      <4>4. \A k \in 1 .. i - 1 : /\ k \in DOMAIN device /\ device'[k] = device[k]
                                  /\ Deliverable(k, r)' = Deliverable(k, r)
        BY <1>6, <1>13, <2>1, <3>1
      <4>5. ASSUME device'[i][r].base = 0, \A k \in 1 .. i - 1 : ~Deliverable(k, r)'
            PROVE  known'[r] = tokens'[r] /\ \A k \in 1 .. i - 1 : device'[k][r].n = 0
        BY <1>2, <2>1, <3>1, <4>1, <4>4, <4>5 DEF ChainHolds
      <4>6. QED
        BY <4>2, <4>3, <4>5
    <3>2. CASE i = last
      <4>1. r \in Scheduled
        BY <1>13, <2>1, <3>2
      <4>2. \A j \in 1 .. last : ~(i < j)
        BY <3>2
      <4>3. device'[i][r].base > 0 => device'[i][r].base = tokens'[r]
        BY <1>2, <2>2, <3>2, <4>1
      <4>4. ASSUME device'[i][r].base = 0, \A k \in 1 .. i - 1 : ~Deliverable(k, r)'
            PROVE  known'[r] = tokens'[r] /\ \A k \in 1 .. i - 1 : device'[k][r].n = 0
        <5>1. \A k \in DOMAIN device : ~Deliverable(k, r)
          BY <1>6, <1>13, <2>1, <3>2, <4>4
        <5>2. IsContinued(r)
          BY <1>9, <2>2, <3>2, <4>1, <4>4, <5>1 DEF IsContinued
        <5>3. known[r] = tokens[r] /\ stale[r] = 0
          BY <2>1, <5>2
        <5>4. ASSUME NEW k \in DOMAIN device PROVE device[k][r].n = 0
          <6>1. /\ device[k][r].n \in Nat /\ device[k][r].epoch \in Nat
                /\ device[k][r].epoch <= preemptions[r] /\ preemptions[r] \in Nat
            BY <1>1, <1>3, <2>1, SharesAreWork DEF StepsInOrder
          <6>2. ASSUME device[k][r].n > 0 PROVE FALSE
            <7>1. device[k][r].epoch < preemptions[r]
              BY <5>1, <6>1, <6>2 DEF Deliverable
            <7>2. stale[r] > 0
              BY <1>1, <2>1, <6>2, <7>1, StaleShareCounts
            <7>3. QED
              BY <5>3, <7>2
          <6>3. QED
            BY <6>1, <6>2
        <5>5. QED
          BY <1>2, <1>6, <3>2, <5>3, <5>4
      <4>5. QED
        BY <4>2, <4>3, <4>4
    <3>3. QED
      BY <1>6, <3>1, <3>2
  <2>4. ASSUME NEW r \in Live', IsContinued(r)'
        PROVE  known'[r] = tokens'[r] /\ stale'[r] = 0
    <3>1. \A i \in DOMAIN device : Deliverable(i, r) => device[i][r].base = 0
      BY <1>6, <1>13, <2>1, <2>4 DEF IsContinued
    <3>2. batch[r].base = 0
      <4>1. CASE r \in Scheduled
        BY <1>6, <1>13, <2>1, <2>2, <2>4, <4>1 DEF IsContinued
      <4>2. CASE r \notin Scheduled
        BY <1>8, <2>1, <4>2 DEF NoWork
      <4>3. QED
        BY <4>1, <4>2
    <3>3. IsContinued(r)
      BY <1>2, <2>4, <3>1, <3>2 DEF IsContinued
    <3>4. QED
      BY <1>2, <2>1, <3>3
  <2>5. QED
    BY <2>3, <2>4 DEF DeliveriesChain
<1>20. QED
  BY <1>10, <1>14, <1>15, <1>17, <1>18, <1>19 DEF IInv

-----------------------------------------------------------------------------
(* update_from_output: the share of one request leaves the oldest step     *)

(* The steps are those of before, d places further on, without the share   *)
(* of r in the oldest one; a step that goes holds nothing for the others.  *)
Advanced(r, d) ==
  /\ Len(device') = Len(device) - d
  /\ \A q \in Req, i \in 1 .. Len(device') :
       /\ i + d \in 1 .. Len(device)
       /\ device'[i][q] = IF q = r /\ i + d = 1 THEN NoWork ELSE device[i + d][q]
  /\ d = 1 => \A q \in Req : q # r => device[1][q] = NoWork

LEMMA DrainedShape ==
  ASSUME TypeOK, StepsInOrder, NEW r \in Req, device # <<>>, Drained(r)
  PROVE  /\ device' \in Seq([Req -> Work]) /\ Len(device') <= Len(device)
         /\ phase' \in {"idle", "update"}
         /\ \E d \in {0, 1} : Advanced(r, d)
<1>. DEFINE rest == [device[1] EXCEPT ![r] = NoWork]
<1>1. /\ device \in Seq([Req -> Work]) /\ Len(device) \in Nat /\ Len(device) > 0
      /\ DOMAIN device = 1 .. Len(device) /\ 1 \in DOMAIN device
  BY TypesSuffice DEF Types
<1>2. /\ device[1] \in [Req -> Work] /\ rest \in [Req -> Work]
      /\ \A q \in Req : rest[q] = IF q = r THEN NoWork ELSE device[1][q]
  BY <1>1, NoWorkWeighsNothing
<1>3. \/ /\ \A q \in Req : rest[q].n = 0
         /\ device' = Tail(device) /\ phase' = "idle"
      \/ device' = [device EXCEPT ![1] = rest] /\ phase' = "update"
  BY DEF Drained
<1>. HIDE DEF rest
<1>4. CASE /\ \A q \in Req : rest[q].n = 0
           /\ device' = Tail(device) /\ phase' = "idle"
  <2>1. /\ device' \in Seq([Req -> Work]) /\ Len(device') = Len(device) - 1
        /\ \A i \in 1 .. Len(device') :
             i + 1 \in 1 .. Len(device) /\ i + 1 # 1 /\ device'[i] = device[i + 1]
    BY <1>1, <1>4
  <2>2. \A q \in Req : q # r => device[1][q] = NoWork
    BY <1>1, <1>2, <1>4 DEF StepsInOrder
  <2>3. Advanced(r, 1)
    BY <2>1, <2>2 DEF Advanced
  <2>4. QED
    BY <1>1, <1>4, <2>1, <2>3
<1>5. CASE device' = [device EXCEPT ![1] = rest] /\ phase' = "update"
  <2>1. /\ device' \in Seq([Req -> Work]) /\ Len(device') = Len(device)
        /\ device'[1] = rest
        /\ \A i \in 1 .. Len(device') : i # 1 => device'[i] = device[i]
    BY <1>1, <1>2, <1>5
  <2>2. \A q \in Req, i \in 1 .. Len(device') :
          /\ i + 0 \in 1 .. Len(device)
          /\ device'[i][q] = IF q = r /\ i + 0 = 1 THEN NoWork ELSE device[i + 0][q]
    <3>. TAKE q \in Req, i \in 1 .. Len(device')
    <3>1. i \in 1 .. Len(device) /\ i + 0 = i
      BY <2>1
    <3>2. device'[i][q] = IF q = r /\ i = 1 THEN NoWork ELSE device[i][q]
      BY <1>2, <2>1
    <3>3. QED
      BY <3>1, <3>2
  <2>3. Len(device') = Len(device) - 0
    BY <1>1, <2>1
  <2>4. Advanced(r, 0)
    BY <2>2, <2>3 DEF Advanced
  <2>5. QED
    BY <1>1, <1>5, <2>1, <2>4
<1>6. QED
  BY <1>3, <1>4, <1>5

LEMMA DrainedSums ==
  ASSUME TypeOK, StepsInOrder, NEW r \in Req, device # <<>>, Drained(r),
         NEW q \in Req, NEW f \in [Work -> Nat], f[NoWork] = 0
  PROVE  SumOver(device', q, f) =
           SumOver(device, q, f) - (IF q = r THEN f[device[1][r]] ELSE 0)
<1>. DEFINE rest == [device[1] EXCEPT ![r] = NoWork]
<1>1. /\ device \in Seq([Req -> Work]) /\ Len(device) > 0
      /\ DOMAIN device = 1 .. Len(device) /\ 1 \in DOMAIN device
  <2>1. device \in Seq([Req -> Work])
    BY TypesSuffice DEF Types
  <2>2. QED
    BY <2>1
<1>2. /\ device[1] \in [Req -> Work] /\ rest \in [Req -> Work]
      /\ rest[q] = IF q = r THEN NoWork ELSE device[1][q]
  BY <1>1, NoWorkWeighsNothing
<1>3. \/ rest[q].n = 0 /\ device' = Tail(device)
      \/ device' = [device EXCEPT ![1] = rest]
  BY DEF Drained
<1>4. SumOver(device, q, f) \in Nat /\ f[device[1][q]] \in Nat
  BY <1>1, <1>2, SumOverBounds
<1>. HIDE DEF rest
<1>5. CASE rest[q].n = 0 /\ device' = Tail(device)
  <2>1. SumOver(device', q, f) = SumOver(device, q, f) - f[device[1][q]]
    BY <1>1, <1>5, SumOverTail
  <2>2. q # r => device[1][q] = NoWork
    BY <1>1, <1>2, <1>5 DEF StepsInOrder
  <2>3. QED
    BY <1>4, <2>1, <2>2
<1>6. CASE device' = [device EXCEPT ![1] = rest]
  <2>1. SumOver(device', q, f)
          = SumOver(device, q, f) - f[device[1][q]] + f[rest[q]]
    BY <1>1, <1>2, <1>6, SumOverHeadReplaced
  <2>2. CASE q = r
    BY <1>2, <1>4, <2>1, <2>2
  <2>3. CASE q # r
    BY <1>2, <1>4, <2>1, <2>3
  <2>4. QED
    BY <2>2, <2>3
<1>7. QED
  BY <1>3, <1>5, <1>6

LEMMA DrainedStepsInOrder ==
  ASSUME TypeOK, StepsInOrder, NEW r \in Req, device # <<>>, Drained(r),
         UNCHANGED preemptions
  PROVE  StepsInOrder'
<1>0. PICK d \in {0, 1} : Advanced(r, d)
  BY DrainedShape
<1>1. /\ Len(device') = Len(device) - d
      /\ \A q \in Req, i \in 1 .. Len(device') :
           /\ i + d \in 1 .. Len(device)
           /\ device'[i][q] = IF q = r /\ i + d = 1 THEN NoWork ELSE device[i + d][q]
  BY <1>0 DEF Advanced
<1>2. /\ DOMAIN device = 1 .. Len(device)
      /\ DOMAIN device' = 1 .. Len(device') /\ Len(device') \in Nat
  <2>1. device \in Seq([Req -> Work]) /\ device' \in Seq([Req -> Work])
    BY DrainedShape, TypesSuffice DEF Types
  <2>2. QED
    BY <2>1
<1>3. preemptions \in [Req -> Nat]
  BY Constants, TypesSuffice DEF Types
<1>4. NoWork.n = 0 /\ NoWork.epoch = 0 /\ ~NoWork.samples
  BY DEF NoWork
<1>5. ASSUME NEW q \in Req, NEW i \in 1 .. Len(device')
      PROVE  /\ device'[i][q].n = 0 => device'[i][q] = NoWork
             /\ device'[i][q].epoch <= preemptions'[q]
             /\ device'[i][q].samples => device'[i][q].drafts <= device'[i][q].n
             /\ \A j \in 1 .. Len(device') :
                  i < j /\ device'[j][q].n > 0 =>
                    device'[i][q].epoch <= device'[j][q].epoch
  <2>1. CASE device'[i][q] = NoWork
    <3>1. ASSUME NEW j \in 1 .. Len(device') PROVE device'[j][q].epoch >= 0
      <4>1. \A k \in 1 .. Len(device) : device[k][q].epoch \in Nat
        BY <1>2, SharesAreWork
      <4>2. QED
        BY <1>1, <1>4, <4>1
    <3>2. preemptions'[q] >= 0
      BY <1>3
    <3>3. QED
      BY <1>4, <2>1, <3>1, <3>2
  <2>2. CASE device'[i][q] = device[i + d][q] /\ i + d \in 1 .. Len(device)
    <3>1. /\ device[i + d][q].n = 0 => device[i + d][q] = NoWork
          /\ device[i + d][q].epoch <= preemptions[q]
          /\ device[i + d][q].samples => device[i + d][q].drafts <= device[i + d][q].n
      BY <1>2, <2>2 DEF StepsInOrder
    <3>2. ASSUME NEW j \in 1 .. Len(device'), i < j, device'[j][q].n > 0
          PROVE  device'[i][q].epoch <= device'[j][q].epoch
      <4>1. /\ j + d \in 1 .. Len(device) /\ i + d < j + d
            /\ device'[j][q] = device[j + d][q]
        BY <1>1, <1>2, <1>4, <3>2
      <4>. DEFINE k == i + d
                  l == j + d
      <4>2. /\ k \in 1 .. Len(device) /\ l \in 1 .. Len(device) /\ k < l
            /\ device[l][q].n > 0
        BY <2>2, <3>2, <4>1
      <4>3. device[k][q].epoch <= device[l][q].epoch
        <5>. HIDE DEF k, l
        <5>1. QED
          BY <1>2, <4>2 DEF StepsInOrder
      <4>4. QED
        BY <2>2, <4>1, <4>3
    <3>3. QED
      BY <2>2, <3>1, <3>2
  <2>3. QED
    BY <1>1, <2>1, <2>2
<1>6. QED
  BY <1>2, <1>5 DEF StepsInOrder

(* Whether the output now processed is stale is what the code concludes    *)
(* from num_stale_output_tokens.                                           *)
LEMMA HeadShare ==
  ASSUME IInv, NEW r \in Live, device # <<>>, device[1][r].n > 0
  PROVE  /\ device[1][r].n <= in_flight[r]
         /\ stale[r] > 0 =>
              /\ device[1][r].epoch < preemptions[r]
              /\ device[1][r].n <= stale[r]
         /\ stale[r] = 0 =>
              device[1][r].epoch = preemptions[r] /\ status[r] = "running"
<1>. DEFINE w == device[1][r]
            p == preemptions[r]
<1>1. r \in Req /\ r \in Live /\ TypeOK /\ StepsInOrder /\ StaleShareIsExact
  BY DEF IInv, Live
<1>2. /\ device \in Seq([Req -> Work]) /\ 1 \in DOMAIN device
      /\ DOMAIN device = 1 .. Len(device)
  BY <1>1, TypesSuffice DEF Types
<1>3. w \in Work /\ w.n \in Nat /\ w.epoch \in Nat /\ p \in Nat /\ w.epoch <= p
  BY <1>1, <1>2, SharesAreWork, SumsAreNatural DEF StepsInOrder
<1>4. w.n <= in_flight[r]
  <2>1. AllTokens[w] = w.n /\ AllTokens \in [Work -> Nat]
    BY <1>3, WeightTypes DEF AllTokens
  <2>2. AllTokens[w] <= SumOver(device, r, AllTokens)
    BY <1>1, <1>2, <2>1, SumOverBounds
  <2>3. QED
    BY <1>1, <2>1, <2>2 DEF StaleShareIsExact
<1>5. ASSUME w.epoch = p PROVE stale[r] = 0
  <2>1. ASSUME NEW i \in DOMAIN device PROVE StaleTokens(p)[device[i][r]] = 0
    <3>1. /\ device[i][r] \in Work /\ device[i][r].n \in Nat
          /\ device[i][r].epoch \in Nat
      BY <1>1, SharesAreWork
    <3>2. CASE device[i][r].n = 0
      <4>1. device[i][r] = NoWork
        BY <1>1, <3>2 DEF StepsInOrder
      <4>2. QED
        BY <1>3, <4>1, NoWorkWeighsNothing
    <3>3. CASE device[i][r].n > 0
      <4>1. device[i][r].epoch >= p
        <5>1. CASE i = 1
          BY <1>3, <1>5, <5>1
        <5>2. CASE 1 < i
          BY <1>1, <1>2, <1>5, <3>3, <5>2 DEF StepsInOrder
        <5>3. QED
          BY <1>2, <5>1, <5>2
      <4>2. QED
        BY <1>3, <3>1, <4>1 DEF StaleTokens
    <3>4. QED
      BY <3>1, <3>2, <3>3
  <2>2. StaleTokens(p) \in [Work -> Nat]
    BY <1>3, WeightTypes
  <2>3. SumOver(device, r, StaleTokens(p)) = 0
    BY <1>1, <1>2, <2>1, <2>2, SumOverNothing
  <2>4. QED
    BY <1>1, <2>3 DEF StaleShareIsExact
<1>6. ASSUME w.epoch < p PROVE stale[r] > 0 /\ stale[r] >= w.n
  BY <1>1, <1>2, <1>6, StaleShareCounts
<1>7. ASSUME w.epoch = p PROVE status[r] = "running"
  <2>1. status[r] # "waiting"
    BY <1>1, <1>2, <1>3, <1>7 DEF IInv, CountersFit, WaitingFits
  <2>2. status[r] \in {"waiting", "running", "finished"}
    BY <1>1, TypesSuffice DEF Types
  <2>3. QED
    BY <2>1, <2>2 DEF Live
<1>8. w.epoch = p \/ w.epoch < p
  BY <1>3
<1>9. stale[r] \in Nat
  BY <1>1, TypesSuffice DEF Types
<1>10. QED
  BY <1>3, <1>4, <1>5, <1>6, <1>7, <1>8, <1>9

(* What the invariant says of one request. *)
RequestFits(r) ==
  /\ spec[r] <= NumSpec
  /\ status[r] # "finished" =>
       /\ in_flight[r] = SumOver(device, r, AllTokens)
       /\ stale[r] = SumOver(device, r, StaleTokens(preemptions[r]))
       /\ LiveFits(r)
       /\ ChainHolds(r)
       /\ IsContinued(r) => known[r] = tokens[r] /\ stale[r] = 0
  /\ status[r] = "waiting" => WaitingFits(r)
  /\ status[r] = "running" => RunningFits(r)

LEMMA PerRequest ==
  StaleShareIsExact /\ CountersFit /\ DeliveriesChain <=> \A r \in Req : RequestFits(r)
BY DEF StaleShareIsExact, CountersFit, DeliveriesChain, RequestFits, Live

LEMMA PerRequestNext ==
  (StaleShareIsExact /\ CountersFit /\ DeliveriesChain)'
    <=> (\A r \in Req : RequestFits(r))'
BY PerRequest, PTL

(* How the sums of the request change whose share is processed. *)
LEMMA ShareWeights ==
  ASSUME IInv, NEW r \in Live, device # <<>>, device[1][r].n > 0,
         Drained(r), UNCHANGED preemptions
  PROVE  LET w == device[1][r]
         IN  /\ w \in Work /\ w.n \in Nat /\ w.drafts \in Nat
             /\ w.samples \in BOOLEAN /\ w.base \in Nat /\ w.epoch \in Nat
             /\ w.samples => w.drafts <= w.n
             /\ SumOver(device', r, AllTokens) = in_flight[r] - w.n
             /\ SumOver(device', r, StaleTokens(preemptions[r])) =
                  IF stale[r] > 0 THEN stale[r] - w.n ELSE 0
             /\ Fresh(r) \in Nat /\ Promised(r) \in Nat
             /\ stale[r] > 0 => Fresh(r)' = Fresh(r) /\ Promised(r)' = Promised(r)
             /\ stale[r] = 0 => /\ Fresh(r)' = Fresh(r) - w.n /\ w.n <= Fresh(r)
             /\ stale[r] = 0 /\ w.samples =>
                  /\ Promised(r)' = Promised(r) - (1 + w.drafts)
                  /\ 1 + w.drafts <= Promised(r)
             /\ stale[r] = 0 /\ ~w.samples => Promised(r)' = Promised(r)
<1>. DEFINE w == device[1][r]
            p == preemptions[r]
<1>1. r \in Req /\ r \in Live /\ TypeOK /\ StepsInOrder /\ StaleShareIsExact
  BY DEF IInv, Live
<1>2. device \in Seq([Req -> Work]) /\ DOMAIN device = 1 .. Len(device)
  BY <1>1, SharesAreWork, TypesSuffice DEF Types
<1>3. 1 \in DOMAIN device
  BY <1>2
<1>4. /\ w \in Work /\ w.n \in Nat /\ w.drafts \in Nat /\ w.samples \in BOOLEAN
      /\ w.base \in Nat /\ w.epoch \in Nat /\ p \in Nat
      /\ w.samples => w.drafts <= w.n
  BY <1>1, <1>3, SharesAreWork, SumsAreNatural DEF StepsInOrder
<1>5. /\ SumOver(device', r, AllTokens) = SumOver(device, r, AllTokens) - AllTokens[w]
      /\ SumOver(device', r, StaleTokens(p))
           = SumOver(device, r, StaleTokens(p)) - StaleTokens(p)[w]
      /\ SumOver(device', r, FreshTokens(p)) = Fresh(r) - FreshTokens(p)[w]
      /\ SumOver(device', r, MayAppend(p)) = Promised(r) - MayAppend(p)[w]
  BY <1>1, <1>4, DrainedSums, WeightTypes, NoWorkWeighsNothing DEF Fresh, Promised
<1>6. Fresh(r)' = Fresh(r) - FreshTokens(p)[w] /\ Promised(r)' = Promised(r) - MayAppend(p)[w]
  BY <1>5 DEF Fresh, Promised
<1>7. FreshTokens(p)[w] <= Fresh(r) /\ MayAppend(p)[w] <= Promised(r)
  <2>1. FreshTokens(p) \in [Work -> Nat] /\ MayAppend(p) \in [Work -> Nat]
    BY <1>4, WeightTypes
  <2>2. \A f \in [Work -> Nat] : f[w] <= SumOver(device, r, f)
    BY <1>1, <1>2, <1>3, SumOverBounds
  <2>3. /\ FreshTokens(p)[w] <= SumOver(device, r, FreshTokens(p))
        /\ MayAppend(p)[w] <= SumOver(device, r, MayAppend(p))
    <3>. HIDE DEF w, p
    <3>1. QED
      BY <2>1, <2>2
  <2>4. QED
    BY <2>3 DEF Fresh, Promised
<1>8. /\ in_flight[r] = SumOver(device, r, AllTokens)
      /\ stale[r] = SumOver(device, r, StaleTokens(p))
  BY <1>1 DEF StaleShareIsExact
<1>9. /\ Fresh(r) \in Nat /\ Promised(r) \in Nat /\ stale[r] \in Nat /\ in_flight[r] \in Nat
  BY <1>1, <1>8, SumsAreNatural
<1>10. AllTokens[w] = w.n
  BY <1>4 DEF AllTokens
<1>11. CASE stale[r] > 0
  <2>1. w.epoch < p
    BY <1>11, HeadShare
  <2>2. /\ StaleTokens(p)[w] = w.n /\ FreshTokens(p)[w] = 0 /\ MayAppend(p)[w] = 0
    BY <1>4, <2>1 DEF StaleTokens, FreshTokens, MayAppend
  <2>. HIDE DEF w, p
  <2>3. QED
    BY <1>4, <1>5, <1>6, <1>8, <1>9, <1>10, <1>11, <2>2 DEF w, p
<1>12. CASE stale[r] = 0
  <2>1. w.epoch = p
    BY <1>12, HeadShare
  <2>2. /\ StaleTokens(p)[w] = 0 /\ FreshTokens(p)[w] = w.n
        /\ MayAppend(p)[w] = IF w.samples THEN 1 + w.drafts ELSE 0
    BY <1>4, <2>1 DEF StaleTokens, FreshTokens, MayAppend
  <2>. HIDE DEF w, p
  <2>3. QED
    BY <1>4, <1>5, <1>6, <1>7, <1>8, <1>9, <1>10, <1>12, <2>2 DEF w, p
<1>13. QED
  BY <1>9, <1>11, <1>12

LEMMA OthersKeep ==
  ASSUME IInv, NEW r \in Req, device # <<>>, Drained(r), NEW q \in Req, q # r,
         UNCHANGED <<preemptions, drop, batch>>,
         UNCHANGED <<status[q], tokens[q], computed[q], placeholders[q],
                     in_flight[q], stale[q], spec[q], known[q]>>
  PROVE  RequestFits(q)'
<1>1. TypeOK /\ StepsInOrder /\ RequestFits(q)
  BY PerRequest DEF IInv
<1>2. PICK d \in {0, 1} : Advanced(r, d)
  BY <1>1, DrainedShape
<1>3. /\ Len(device') = Len(device) - d
      /\ \A i \in 1 .. Len(device') :
           i + d \in 1 .. Len(device) /\ device'[i][q] = device[i + d][q]
      /\ d = 1 => device[1][q] = NoWork
  BY <1>2 DEF Advanced
<1>4. /\ DOMAIN device = 1 .. Len(device) /\ Len(device) \in Nat
      /\ DOMAIN device' = 1 .. Len(device') /\ Len(device') \in Nat
  <2>1. device \in Seq([Req -> Work]) /\ device' \in Seq([Req -> Work])
    BY <1>1, DrainedShape, TypesSuffice DEF Types
  <2>2. QED
    BY <2>1
<1>5. /\ SumOver(device', q, AllTokens) = SumOver(device, q, AllTokens)
      /\ SumOver(device', q, StaleTokens(preemptions[q]))
           = SumOver(device, q, StaleTokens(preemptions[q]))
      /\ Fresh(q)' = Fresh(q) /\ Promised(q)' = Promised(q)
  <2>1. /\ SumOver(device, q, AllTokens) \in Nat
        /\ SumOver(device, q, StaleTokens(preemptions[q])) \in Nat
        /\ Fresh(q) \in Nat /\ Promised(q) \in Nat /\ preemptions[q] \in Nat
    BY <1>1, SumsAreNatural
  <2>2. /\ SumOver(device', q, AllTokens) = SumOver(device, q, AllTokens)
        /\ SumOver(device', q, StaleTokens(preemptions[q]))
             = SumOver(device, q, StaleTokens(preemptions[q]))
        /\ SumOver(device', q, FreshTokens(preemptions[q])) = Fresh(q)
        /\ SumOver(device', q, MayAppend(preemptions[q])) = Promised(q)
    <3>. DEFINE p == preemptions[q]
                Weights == {AllTokens, StaleTokens(p), FreshTokens(p), MayAppend(p)}
    <3>1. \A f \in Weights : f \in [Work -> Nat] /\ f[NoWork] = 0
      BY <2>1, WeightTypes, NoWorkWeighsNothing
    <3>2. \A f \in Weights : SumOver(device', q, f) = SumOver(device, q, f) - 0
      BY <1>1, <3>1, DrainedSums
    <3>3. \A f \in Weights : SumOver(device, q, f) \in Nat
      BY <2>1 DEF Fresh, Promised
    <3>4. \A f \in Weights : SumOver(device', q, f) = SumOver(device, q, f)
      <4>. HIDE DEF Weights
      <4>1. QED
        BY <3>2, <3>3
    <3>5. QED
      BY <3>4 DEF Fresh, Promised
  <2>3. QED
    BY <2>2 DEF Fresh, Promised
<1>6. \A i \in 1 .. Len(device') : Deliverable(i, q)' <=> Deliverable(i + d, q)
  BY <1>3 DEF Deliverable
<1>7. d = 1 => ~Deliverable(1, q) /\ device[1][q].n = 0
  BY <1>3 DEF Deliverable, NoWork
<1>8. ASSUME ChainHolds(q) PROVE ChainHolds(q)'
  <2>. SUFFICES ASSUME NEW i \in 1 .. Len(device'), Deliverable(i, q)'
                PROVE  /\ \A j \in 1 .. Len(device') :
                            i < j /\ device'[j][q].n > 0 => device'[j][q].base = 0
                       /\ device'[i][q].base > 0 => device'[i][q].base = tokens'[q]
                       /\ device'[i][q].base = 0
                            /\ (\A k \in 1 .. i - 1 : ~Deliverable(k, q)') =>
                            /\ known'[q] = tokens'[q]
                            /\ \A k \in 1 .. i - 1 : device'[k][q].n = 0
    BY <1>4 DEF ChainHolds
  <2>1. PICK ii \in 1 .. Len(device) : ii = i + d
    BY <1>3
  <2>2. Deliverable(ii, q) /\ device'[i][q] = device[ii][q]
    BY <1>3, <1>6, <2>1
  <2>3. /\ \A j \in 1 .. Len(device) :
             ii < j /\ device[j][q].n > 0 => device[j][q].base = 0
        /\ device[ii][q].base > 0 => device[ii][q].base = tokens[q]
        /\ device[ii][q].base = 0 /\ (\A k \in 1 .. ii - 1 : ~Deliverable(k, q)) =>
             /\ known[q] = tokens[q]
             /\ \A k \in 1 .. ii - 1 : device[k][q].n = 0
    BY <1>4, <1>8, <2>2 DEF ChainHolds
  <2>4. ASSUME NEW j \in 1 .. Len(device'), i < j, device'[j][q].n > 0
        PROVE  device'[j][q].base = 0
    <3>1. PICK jj \in 1 .. Len(device) : jj = j + d
      BY <1>3
    <3>2. ii < jj /\ device'[j][q] = device[jj][q]
      BY <1>3, <2>1, <2>4, <3>1
    <3>3. QED
      BY <2>3, <2>4, <3>2
  <2>5. ASSUME \A k \in 1 .. i - 1 : ~Deliverable(k, q)', device'[i][q].base = 0
        PROVE  /\ known'[q] = tokens'[q]
               /\ \A k \in 1 .. i - 1 : device'[k][q].n = 0
    <3>1. ASSUME NEW k \in 1 .. ii - 1 PROVE ~Deliverable(k, q)
      <4>1. CASE k - d \in 1 .. i - 1
        <5>1. PICK kk \in 1 .. i - 1 : kk = k - d
          BY <4>1
        <5>2. kk \in 1 .. Len(device') /\ kk + d = k
          BY <1>4, <5>1
        <5>3. QED
          BY <1>6, <2>5, <5>2
      <4>2. CASE k - d \notin 1 .. i - 1
        <5>1. d = 1 /\ k = 1
          BY <2>1, <4>2
        <5>2. QED
          BY <1>7, <5>1
      <4>3. QED
        BY <4>1, <4>2
    <3>2. known[q] = tokens[q] /\ \A k \in 1 .. ii - 1 : device[k][q].n = 0
      BY <2>2, <2>3, <2>5, <3>1
    <3>3. ASSUME NEW k \in 1 .. i - 1 PROVE device'[k][q].n = 0
      <4>1. PICK kk \in 1 .. ii - 1 : kk = k + d
        BY <2>1
      <4>2. k \in 1 .. Len(device')
        BY <1>4
      <4>3. device'[k][q] = device[kk][q]
        BY <1>3, <4>1, <4>2
      <4>4. QED
        BY <3>2, <4>3
    <3>4. QED
      BY <3>2, <3>3
  <2>6. QED
    BY <2>2, <2>3, <2>4, <2>5
<1>9. ASSUME IsContinued(q)' PROVE IsContinued(q)
  <2>1. status[q] = "running" /\ batch[q].base = 0
    BY <1>9 DEF IsContinued
  <2>2. ASSUME NEW k \in 1 .. Len(device), Deliverable(k, q)
        PROVE  device[k][q].base = 0
    <3>1. CASE k - d \in 1 .. Len(device')
      <4>1. PICK kk \in 1 .. Len(device') : kk = k - d
        BY <3>1
      <4>2. kk + d = k
        BY <4>1
      <4>3. Deliverable(kk, q)' /\ device'[kk][q] = device[k][q]
        BY <1>3, <1>6, <2>2, <4>2
      <4>4. QED
        BY <1>4, <1>9, <4>3 DEF IsContinued
    <3>2. CASE k - d \notin 1 .. Len(device')
      <4>1. d = 1 /\ k = 1
        BY <1>3, <1>4, <3>2
      <4>2. QED
        BY <1>7, <2>2, <4>1
    <3>3. QED
      BY <3>1, <3>2
  <2>3. QED
    BY <1>4, <2>1, <2>2 DEF IsContinued
<1>10. LiveFits(q) => LiveFits(q)'
  BY <1>5 DEF LiveFits
<1>11. RunningFits(q) => RunningFits(q)'
  BY <1>5 DEF RunningFits
<1>12. WaitingFits(q) => WaitingFits(q)'
  BY <1>3, <1>4 DEF WaitingFits
<1>13. QED
  BY <1>1, <1>5, <1>8, <1>9, <1>10, <1>11, <1>12 DEF RequestFits

LEMMA OwnShares ==
  ASSUME TypeOK, StepsInOrder, NEW r \in Req, device # <<>>, Drained(r),
         UNCHANGED <<preemptions, drop>>
  PROVE  /\ DOMAIN device = 1 .. Len(device) /\ Len(device) \in Nat /\ Len(device) > 0
         /\ DOMAIN device' = 1 .. Len(device') /\ Len(device') \in Nat
         /\ \A i \in 1 .. Len(device') :
              device'[i][r].n \in Nat /\ device'[i][r].base \in Nat
         /\ \E d \in {0, 1} :
              /\ Len(device') = Len(device) - d
              /\ \A i \in 1 .. Len(device') :
                   /\ i + d \in 1 .. Len(device)
                   /\ device'[i][r].n > 0 =>
                        i + d > 1 /\ device'[i][r] = device[i + d][r]
                   /\ i + d > 1 => device'[i][r] = device[i + d][r]
                   /\ Deliverable(i, r)' <=> (i + d > 1 /\ Deliverable(i + d, r))
<1>1. /\ DOMAIN device = 1 .. Len(device) /\ Len(device) \in Nat /\ Len(device) > 0
      /\ DOMAIN device' = 1 .. Len(device') /\ Len(device') \in Nat
  <2>1. device \in Seq([Req -> Work]) /\ device' \in Seq([Req -> Work])
    BY DrainedShape, TypesSuffice DEF Types
  <2>2. QED
    BY <2>1
<1>2. PICK d \in {0, 1} : Advanced(r, d)
  BY DrainedShape
<1>3. /\ Len(device') = Len(device) - d
      /\ \A i \in 1 .. Len(device') :
           /\ i + d \in 1 .. Len(device)
           /\ device'[i][r] = IF i + d = 1 THEN NoWork ELSE device[i + d][r]
  BY <1>2 DEF Advanced
<1>4. \A i \in 1 .. Len(device) : device[i][r].n \in Nat /\ device[i][r].base \in Nat
  BY <1>1, SharesAreWork
<1>5. NoWork.n = 0 /\ NoWork.base = 0
  BY DEF NoWork
<1>6. ASSUME NEW i \in 1 .. Len(device')
      PROVE  /\ i + d \in 1 .. Len(device)
             /\ device'[i][r].n > 0 => i + d > 1 /\ device'[i][r] = device[i + d][r]
             /\ i + d > 1 => device'[i][r] = device[i + d][r]
             /\ Deliverable(i, r)' <=> (i + d > 1 /\ Deliverable(i + d, r))
             /\ device'[i][r].n \in Nat /\ device'[i][r].base \in Nat
  <2>1. CASE i + d = 1
    <3>1. device'[i][r] = NoWork
      BY <1>3, <2>1
    <3>2. ~(Deliverable(i, r)')
      BY <1>5, <3>1 DEF Deliverable
    <3>3. QED
      BY <1>3, <1>5, <2>1, <3>1, <3>2
  <2>2. CASE i + d > 1
    <3>1. device'[i][r] = device[i + d][r]
      BY <1>3, <2>2
    <3>2. Deliverable(i, r)' <=> Deliverable(i + d, r)
      BY <3>1 DEF Deliverable
    <3>3. QED
      BY <1>3, <1>4, <2>2, <3>1, <3>2
  <2>3. QED
    BY <1>3, <2>1, <2>2
<1>7. QED
  BY <1>1, <1>3, <1>6

(* Output that is dropped changes neither the list nor the counters; the   *)
(* deliverable shares behind it still bring the list along.                *)
LEMMA DroppedKeeps ==
  ASSUME IInv, NEW r \in Live, device # <<>>, device[1][r].n > 0, Drained(r),
         stale[r] > 0, drop[r],
         UNCHANGED <<preemptions, drop, batch, status, tokens, computed,
                     placeholders, spec>>,
         in_flight'[r] = in_flight[r] - device[1][r].n,
         stale'[r] = stale[r] - device[1][r].n
  PROVE  RequestFits(r)'
<1>1. r \in Req /\ TypeOK /\ StepsInOrder /\ RequestFits(r) /\ status[r] # "finished"
  BY PerRequest DEF IInv, Live
<1>2. /\ SumOver(device', r, AllTokens) = in_flight'[r]
      /\ SumOver(device', r, StaleTokens(preemptions[r])) = stale'[r]
      /\ Fresh(r)' = Fresh(r) /\ Promised(r)' = Promised(r)
  BY ShareWeights
<1>3. ~Deliverable(1, r)
  <2>1. device[1][r].epoch < preemptions[r]
    BY HeadShare
  <2>2. preemptions[r] \in Nat /\ device[1][r].epoch \in Nat
    BY <1>1, ShareWeights, SumsAreNatural
  <2>3. QED
    BY <2>1, <2>2 DEF Deliverable
<1>4. /\ DOMAIN device = 1 .. Len(device) /\ Len(device) \in Nat /\ Len(device) > 0
      /\ DOMAIN device' = 1 .. Len(device') /\ Len(device') \in Nat
  BY <1>1, OwnShares
<1>5. PICK d \in {0, 1} :
        /\ Len(device') = Len(device) - d
        /\ \A i \in 1 .. Len(device') :
             /\ i + d \in 1 .. Len(device)
             /\ device'[i][r].n > 0 => i + d > 1 /\ device'[i][r] = device[i + d][r]
             /\ i + d > 1 => device'[i][r] = device[i + d][r]
             /\ Deliverable(i, r)' <=> (i + d > 1 /\ Deliverable(i + d, r))
  BY <1>1, OwnShares
<1>6. LiveFits(r)' /\ (status[r] = "running" => RunningFits(r)')
  <2>1. LiveFits(r) /\ (status[r] = "running" => RunningFits(r))
    BY <1>1 DEF RequestFits
  <2>2. QED
    BY <1>2, <2>1 DEF LiveFits, RunningFits
<1>7. status[r] = "waiting" => WaitingFits(r)'
  BY <1>1, <1>4, <1>5 DEF RequestFits, WaitingFits
<1>8. ~(IsContinued(r)')
  <2>1. ~IsContinued(r)
    BY <1>1 DEF RequestFits
  <2>2. ASSUME IsContinued(r)' PROVE IsContinued(r)
    <3>1. ASSUME NEW k \in 1 .. Len(device), Deliverable(k, r)
          PROVE  device[k][r].base = 0
      <4>1. k # 1
        BY <1>3, <3>1
      <4>2. PICK kk \in 1 .. Len(device') : kk + d = k
        <5>1. k - d \in 1 .. Len(device')
          BY <1>4, <1>5, <4>1
        <5>2. PICK kk \in 1 .. Len(device') : kk = k - d
          BY <5>1
        <5>3. kk + d = k
          BY <5>2
        <5>4. QED
          BY <5>3
      <4>3. Deliverable(kk, r)' /\ device'[kk][r] = device[k][r]
        BY <1>5, <3>1, <4>1, <4>2
      <4>4. QED
        BY <1>4, <2>2, <4>3 DEF IsContinued
    <3>2. QED
      BY <1>4, <2>2, <3>1 DEF IsContinued
  <2>3. QED
    BY <2>1, <2>2
<1>9. ChainHolds(r)'
  <2>. SUFFICES ASSUME NEW i \in 1 .. Len(device'), Deliverable(i, r)'
                PROVE  /\ \A j \in 1 .. Len(device') :
                            i < j /\ device'[j][r].n > 0 => device'[j][r].base = 0
                       /\ device'[i][r].base > 0 => device'[i][r].base = tokens'[r]
                       /\ ~(/\ device'[i][r].base = 0
                            /\ \A k \in 1 .. i - 1 : ~Deliverable(k, r)')
    BY <1>4 DEF ChainHolds
  <2>1. PICK ii \in 1 .. Len(device) : ii = i + d
    BY <1>5
  <2>2. Deliverable(ii, r) /\ device'[i][r] = device[ii][r] /\ ii > 1
    BY <1>5, <2>1
  <2>3. /\ \A j \in 1 .. Len(device) :
             ii < j /\ device[j][r].n > 0 => device[j][r].base = 0
        /\ device[ii][r].base > 0 => device[ii][r].base = tokens[r]
        /\ device[ii][r].base = 0 /\ (\A k \in 1 .. ii - 1 : ~Deliverable(k, r)) =>
             \A k \in 1 .. ii - 1 : device[k][r].n = 0
    BY <1>1, <1>4, <2>2 DEF RequestFits, ChainHolds
  <2>4. ASSUME NEW j \in 1 .. Len(device'), i < j, device'[j][r].n > 0
        PROVE  device'[j][r].base = 0
    <3>1. PICK jj \in 1 .. Len(device) : jj = j + d
      BY <1>5
    <3>2. ii < jj /\ device'[j][r] = device[jj][r]
      BY <1>5, <2>1, <2>4, <3>1
    <3>3. QED
      BY <2>3, <2>4, <3>2
  <2>5. ASSUME \A k \in 1 .. i - 1 : ~Deliverable(k, r)', device'[i][r].base = 0
        PROVE  FALSE
    <3>1. ASSUME NEW k \in 1 .. ii - 1 PROVE ~Deliverable(k, r)
      <4>1. CASE k - d \in 1 .. i - 1
        <5>1. PICK kk \in 1 .. i - 1 : kk = k - d
          BY <4>1
        <5>2. kk \in 1 .. Len(device') /\ kk + d = k
          BY <1>4, <5>1
        <5>3. k = 1 \/ k > 1
          OBVIOUS
        <5>4. QED
          BY <1>3, <1>5, <2>5, <5>2, <5>3
      <4>2. CASE k - d \notin 1 .. i - 1
        BY <1>3, <2>1, <4>2
      <4>3. QED
        BY <4>1, <4>2
    <3>2. device[1][r].n = 0
      BY <2>2, <2>3, <2>5, <3>1
    <3>3. QED
      BY <3>2
  <2>6. QED
    BY <2>2, <2>3, <2>4, <2>5
<1>10. status'[r] = status[r] /\ spec'[r] = spec[r] /\ preemptions' = preemptions
  OBVIOUS
<1>11. QED
  BY <1>1, <1>2, <1>6, <1>7, <1>8, <1>9, <1>10 DEF RequestFits

LEMMA RollbackKeepsLacking ==
  ASSUME NEW t \in Int, NEW p \in Int, NEW c \in Int, NEW g \in Int, NEW rejected \in Int,
         NEW drafts \in Int, g + rejected = 1 + drafts
  PROVE  (t + g) + (p - (1 + drafts)) - (c - rejected) = t + p - c
OBVIOUS

(* Output that is delivered and does not finish the request: it continues  *)
(* the list, and all that follows it in flight does too.                   *)
LEMMA DeliveredKeeps ==
  ASSUME IInv, NEW r \in Live, device # <<>>, device[1][r].n > 0, Drained(r),
         ~(stale[r] > 0 /\ drop[r]),
         NEW generated \in Nat, NEW rejected \in Nat,
         device[1][r].samples =>
           generated >= 1 /\ generated + rejected = 1 + device[1][r].drafts,
         ~device[1][r].samples => generated = 0 /\ rejected = 0,
         UNCHANGED <<preemptions, drop, batch>>, status'[r] = status[r],
         in_flight'[r] = in_flight[r] - device[1][r].n,
         stale'[r] = IF stale[r] > 0 THEN stale[r] - device[1][r].n ELSE stale[r],
         known'[r] = (IF device[1][r].base > 0 THEN device[1][r].base ELSE known[r])
                       + generated,
         tokens'[r] = tokens[r] + generated, tokens'[r] < Prompt + MaxOut,
         spec'[r] <= NumSpec,
         computed'[r] = IF ~(stale[r] > 0) /\ computed[r] > 0
                        THEN computed[r] - rejected ELSE computed[r],
         placeholders'[r] =
           IF stale[r] > 0 THEN placeholders[r]
           ELSE (IF placeholders[r] > 0 THEN placeholders[r] - rejected
                                        ELSE placeholders[r])
                  - (IF Async THEN generated ELSE 0)
  PROVE  RequestFits(r)'
<1>. DEFINE w == device[1][r]
<1>1. r \in Req /\ TypeOK /\ StepsInOrder /\ RequestFits(r) /\ status[r] # "finished"
  BY PerRequest DEF IInv, Live
<1>2. /\ w.n \in Nat /\ w.drafts \in Nat /\ w.samples \in BOOLEAN
      /\ w.base \in Nat /\ w.epoch \in Nat
      /\ w.samples => w.drafts <= w.n
      /\ SumOver(device', r, AllTokens) = in_flight[r] - w.n
      /\ SumOver(device', r, StaleTokens(preemptions[r])) =
           IF stale[r] > 0 THEN stale[r] - w.n ELSE 0
      /\ Fresh(r) \in Nat /\ Promised(r) \in Nat
      /\ stale[r] > 0 => Fresh(r)' = Fresh(r) /\ Promised(r)' = Promised(r)
      /\ stale[r] = 0 => /\ Fresh(r)' = Fresh(r) - w.n /\ w.n <= Fresh(r)
      /\ stale[r] = 0 /\ w.samples =>
           /\ Promised(r)' = Promised(r) - (1 + w.drafts)
           /\ 1 + w.drafts <= Promised(r)
      /\ stale[r] = 0 /\ ~w.samples => Promised(r)' = Promised(r)
  BY ShareWeights
<1>3. /\ stale[r] \in Nat /\ tokens[r] \in Nat /\ computed[r] \in Nat
      /\ placeholders[r] \in Nat /\ preemptions[r] \in Nat /\ drop[r] \in BOOLEAN
      /\ status[r] \in {"waiting", "running", "finished"}
  <2>1. /\ status \in [Req -> {"waiting", "running", "finished"}]
        /\ tokens \in [Req -> Prompt .. Prompt + MaxOut]
        /\ computed \in [Req -> Nat] /\ placeholders \in [Req -> Nat]
        /\ stale \in [Req -> Nat] /\ drop \in [Req -> BOOLEAN]
        /\ preemptions \in [Req -> 0 .. MaxPreemptions]
    BY <1>1, TypesSuffice DEF Types
  <2>2. tokens[r] \in Prompt .. Prompt + MaxOut /\ preemptions[r] \in 0 .. MaxPreemptions
    BY <1>1, <2>1
  <2>3. tokens[r] \in Nat /\ preemptions[r] \in Nat
    BY <2>2, Constants
  <2>4. QED
    BY <1>1, <2>1, <2>3
<1>4. /\ stale[r] > 0 => w.epoch < preemptions[r]
      /\ stale[r] = 0 => w.epoch = preemptions[r] /\ status[r] = "running"
  BY HeadShare
<1>5. status[r] = "running" => stale[r] = 0
  <2>1. status[r] = "running" => (stale[r] > 0 => drop[r])
    BY <1>1 DEF RequestFits, RunningFits
  <2>2. QED
    BY <1>3, <2>1
<1>6. /\ DOMAIN device = 1 .. Len(device) /\ Len(device) \in Nat /\ Len(device) > 0
      /\ DOMAIN device' = 1 .. Len(device') /\ Len(device') \in Nat
      /\ \A i \in 1 .. Len(device') :
           device'[i][r].n \in Nat /\ device'[i][r].base \in Nat
  BY <1>1, OwnShares
<1>7. PICK d \in {0, 1} :
        /\ Len(device') = Len(device) - d
        /\ \A i \in 1 .. Len(device') :
             /\ i + d \in 1 .. Len(device)
             /\ device'[i][r].n > 0 => i + d > 1 /\ device'[i][r] = device[i + d][r]
             /\ i + d > 1 => device'[i][r] = device[i + d][r]
             /\ Deliverable(i, r)' <=> (i + d > 1 /\ Deliverable(i + d, r))
  BY <1>1, OwnShares
<1>8. ASSUME NEW k \in 1 .. Len(device), device[k][r].n > 0 PROVE Deliverable(k, r)
  <2>1. CASE stale[r] > 0
    BY <1>3, <1>8, <2>1 DEF Deliverable
  <2>2. CASE stale[r] = 0
    <3>1. /\ device[k][r].epoch \in Nat /\ device[k][r].epoch <= preemptions[r]
      BY <1>1, <1>6, SharesAreWork DEF StepsInOrder
    <3>2. preemptions[r] <= device[k][r].epoch
      <4>1. CASE k = 1
        BY <1>2, <1>3, <1>4, <2>2, <4>1
      <4>2. CASE 1 < k
        <5>1. 1 \in DOMAIN device /\ k \in DOMAIN device
          BY <1>6
        <5>2. w.epoch <= device[k][r].epoch
          BY <1>1, <1>8, <4>2, <5>1 DEF StepsInOrder
        <5>3. w.epoch = preemptions[r]
          BY <1>4, <2>2
        <5>4. QED
          BY <5>2, <5>3
      <4>3. QED
        BY <4>1, <4>2
    <3>3. device[k][r].epoch = preemptions[r]
      BY <1>3, <3>1, <3>2
    <3>4. QED
      BY <1>8, <3>3 DEF Deliverable
  <2>3. QED
    BY <1>3, <2>1, <2>2
<1>9. /\ \A j \in 1 .. Len(device) : 1 < j /\ device[j][r].n > 0 => device[j][r].base = 0
      /\ known'[r] = tokens'[r]
  <2>1. 1 \in 1 .. Len(device) /\ Deliverable(1, r)
    BY <1>6, <1>8
  <2>2. /\ \A j \in 1 .. Len(device) :
             1 < j /\ device[j][r].n > 0 => device[j][r].base = 0
        /\ w.base > 0 => w.base = tokens[r]
        /\ w.base = 0 /\ (\A k \in 1 .. 1 - 1 : ~Deliverable(k, r)) =>
             known[r] = tokens[r]
    BY <1>1, <1>6, <2>1 DEF RequestFits, ChainHolds
  <2>3. w.base = 0 => known[r] = tokens[r]
    BY <2>2
  <2>4. QED
    BY <1>2, <2>2, <2>3
<1>10. LiveFits(r)'
  <2>1. placeholders[r] = IF Async THEN Promised(r) ELSE 0
    BY <1>1 DEF RequestFits, LiveFits
  <2>2. placeholders'[r] = IF Async THEN Promised(r)' ELSE 0
    <3>. HIDE DEF w
    <3>1. CASE stale[r] > 0
      BY <1>2, <2>1, <3>1
    <3>2. CASE stale[r] = 0 /\ Async
      <4>1. CASE device[1][r].samples
        BY <1>2, <2>1, <3>2, <4>1 DEF w
      <4>2. CASE ~device[1][r].samples
        BY <1>2, <2>1, <3>2, <4>2 DEF w
      <4>3. QED
        BY <4>1, <4>2
    <3>3. CASE stale[r] = 0 /\ ~Async
      BY <2>1, <3>3
    <3>4. QED
      BY <1>3, <3>1, <3>2, <3>3
  <2>3. QED
    BY <2>2 DEF LiveFits
<1>11. ASSUME status[r] = "running" PROVE RunningFits(r)'
  <2>1. /\ stale[r] = 0 /\ stale'[r] = 0 /\ Fresh(r)' = Fresh(r) - w.n /\ w.n <= Fresh(r)
    BY <1>2, <1>5, <1>11
  <2>2. /\ computed[r] >= Fresh(r)
        /\ tokens[r] + Promised(r) - computed[r] >= 1
        /\ Promised(r) > 0 => tokens[r] + Promised(r) - computed[r] = 1
    BY <1>1, <1>11 DEF RequestFits, RunningFits
  <2>3. computed[r] > 0 /\ computed'[r] = computed[r] - rejected
    BY <1>2, <1>3, <2>1, <2>2
  <2>4. /\ computed'[r] >= Fresh(r)'
        /\ tokens'[r] + Promised(r)' - computed'[r]
             = tokens[r] + Promised(r) - computed[r]
        /\ Promised(r)' > 0 => Promised(r) > 0
    <3>1. CASE w.samples
      <4>1. /\ Promised(r)' = Promised(r) - (1 + w.drafts)
            /\ generated >= 1 /\ generated + rejected = 1 + w.drafts
            /\ w.drafts <= w.n
        BY <1>2, <2>1, <3>1
      <4>2. w.n \in Nat /\ w.drafts \in Nat /\ Fresh(r) \in Nat /\ Promised(r) \in Nat
        BY <1>2
      <4>3. rejected <= w.n
        <5>. HIDE DEF w
        <5>1. QED
          BY <4>1, <4>2
      <4>4. computed'[r] >= Fresh(r)'
        <5>1. /\ computed[r] \in Nat /\ computed'[r] = computed[r] - rejected
              /\ computed[r] >= Fresh(r) /\ Fresh(r)' = Fresh(r) - w.n
          BY <1>3, <2>1, <2>2, <2>3
        <5>. HIDE DEF w
        <5>2. QED
          BY <4>2, <4>3, <5>1
      <4>5. tokens'[r] + Promised(r)' - computed'[r]
              = tokens[r] + Promised(r) - computed[r]
        <5>1. /\ computed[r] \in Nat /\ computed'[r] = computed[r] - rejected
              /\ tokens[r] \in Nat /\ tokens'[r] = tokens[r] + generated
          BY <1>3, <2>3
        <5>2. (tokens[r] + generated) + (Promised(r) - (1 + w.drafts))
                - (computed[r] - rejected) = tokens[r] + Promised(r) - computed[r]
          <6>1. /\ tokens[r] \in Int /\ Promised(r) \in Int /\ computed[r] \in Int
                /\ w.drafts \in Int /\ generated \in Int /\ rejected \in Int
            BY <4>2, <5>1
          <6>2. generated + rejected = 1 + w.drafts
            BY <4>1
          <6>. HIDE DEF w
          <6>3. QED
            BY <6>1, <6>2, RollbackKeepsLacking
        <5>3. QED
          BY <4>1, <5>1, <5>2
      <4>6. Promised(r)' > 0 => Promised(r) > 0
        <5>. HIDE DEF w
        <5>1. QED
          BY <4>1, <4>2
      <4>7. QED
        BY <4>4, <4>5, <4>6
    <3>2. CASE ~w.samples
      <4>1. Promised(r)' = Promised(r) /\ generated = 0 /\ rejected = 0
        BY <1>2, <2>1, <3>2
      <4>2. w.n \in Nat /\ Fresh(r) \in Nat /\ Promised(r) \in Nat
        BY <1>2
      <4>. HIDE DEF w
      <4>3. QED
        BY <1>3, <2>1, <2>2, <2>3, <4>1, <4>2
    <3>3. QED
      BY <3>1, <3>2
  <2>5. /\ tokens'[r] + Promised(r)' - computed'[r] >= 1
        /\ Promised(r)' > 0 => tokens'[r] + Promised(r)' - computed'[r] = 1
    BY <2>2, <2>4
  <2>6. QED
    BY <2>1, <2>4, <2>5 DEF RunningFits
<1>12. status[r] = "waiting" => WaitingFits(r)'
  BY <1>1, <1>6, <1>7 DEF RequestFits, WaitingFits
<1>13. ChainHolds(r)'
  <2>. SUFFICES ASSUME NEW i \in 1 .. Len(device'), Deliverable(i, r)'
                PROVE  /\ \A j \in 1 .. Len(device') :
                            i < j /\ device'[j][r].n > 0 => device'[j][r].base = 0
                       /\ device'[i][r].base > 0 => device'[i][r].base = tokens'[r]
                       /\ (\A k \in 1 .. i - 1 : ~Deliverable(k, r)') =>
                            \A k \in 1 .. i - 1 : device'[k][r].n = 0
    BY <1>6, <1>9 DEF ChainHolds
  <2>1. ASSUME NEW j \in 1 .. Len(device'), device'[j][r].n > 0
        PROVE  device'[j][r].base = 0 /\ Deliverable(j, r)'
    <3>1. PICK jj \in 1 .. Len(device) : jj = j + d
      BY <1>7
    <3>2. 1 < jj /\ device'[j][r] = device[jj][r] /\ (Deliverable(j, r)' <=> Deliverable(jj, r))
      BY <1>7, <2>1, <3>1
    <3>3. QED
      BY <1>8, <1>9, <2>1, <3>2
  <2>2. device'[i][r].n > 0
    BY DEF Deliverable
  <2>3. device'[i][r].base = 0
    BY <2>1, <2>2
  <2>4. ASSUME \A k \in 1 .. i - 1 : ~Deliverable(k, r)', NEW k \in 1 .. i - 1
        PROVE  device'[k][r].n = 0
    <3>1. k \in 1 .. Len(device')
      BY <1>6
    <3>2. QED
      BY <1>6, <2>1, <2>4, <3>1
  <2>5. QED
    BY <2>1, <2>3, <2>4
<1>14. IsContinued(r)' => known'[r] = tokens'[r] /\ stale'[r] = 0
  BY <1>5, <1>9 DEF IsContinued
<1>15. /\ SumOver(device', r, AllTokens) = in_flight'[r]
       /\ SumOver(device', r, StaleTokens(preemptions[r])) = stale'[r]
  BY <1>2, <1>3
<1>16. QED
  BY <1>1, <1>10, <1>11, <1>12, <1>13, <1>14, <1>15 DEF RequestFits

LEMMA OutputKeeps ==
  ASSUME IInv, NEW r \in Req, NEW accepted \in 0 .. NumSpec,
         NEW appended \in 0 .. NumSpec + 1, NEW stopped \in BOOLEAN,
         update_from_output(r, accepted, appended, stopped)
  PROVE  IInv'
<1>. DEFINE w == device[1][r]
            is_stale == stale[r] > 0
            generated == IF w.samples THEN 1 + accepted ELSE 0
            rejected == IF w.samples THEN w.drafts - accepted ELSE 0
            room == placeholders[r]
<1>1. /\ TypeOK /\ Types /\ StepsInOrder /\ BatchIsFitting
      /\ \A q \in Req : RequestFits(q)
  BY PerRequest, TypesSuffice DEF IInv
<1>2. /\ phase \in {"idle", "update"} /\ device # <<>> /\ w.n > 0
      /\ accepted \in 0 .. (IF w.samples THEN w.drafts ELSE 0)
      /\ Drained(r) /\ UNCHANGED <<batch, preempted, drop, preemptions>>
      /\ known' = [known EXCEPT ![r] =
                     (IF w.base > 0 THEN w.base ELSE known[r]) + generated]
  BY DEF update_from_output, requestVars
<1>3. \/ status[r] = "finished" /\ UNCHANGED <<status, requestVars>>
      \/ /\ status[r] # "finished" /\ is_stale /\ drop[r]
         /\ in_flight' = [in_flight EXCEPT ![r] = in_flight[r] - w.n]
         /\ stale' = [stale EXCEPT ![r] = IF is_stale THEN stale[r] - w.n ELSE stale[r]]
         /\ UNCHANGED <<status, tokens, computed, placeholders, spec>>
      \/ /\ status[r] # "finished" /\ ~(is_stale /\ drop[r])
         /\ in_flight' = [in_flight EXCEPT ![r] = in_flight[r] - w.n]
         /\ stale' = [stale EXCEPT ![r] = IF is_stale THEN stale[r] - w.n ELSE stale[r]]
         /\ appended \in 0 .. generated
         /\ tokens[r] + appended <= Prompt + MaxOut
         /\ (appended < generated
               \/ (tokens[r] + appended = Prompt + MaxOut /\ appended > 0)) => stopped
         /\ tokens' = [tokens EXCEPT ![r] = tokens[r] + appended]
         /\ status' = [status EXCEPT ![r] = IF stopped THEN "finished" ELSE status[r]]
         /\ computed' = [computed EXCEPT ![r] =
              IF ~is_stale /\ computed[r] > 0 THEN computed[r] - rejected ELSE computed[r]]
         /\ placeholders' = [placeholders EXCEPT ![r] =
              IF is_stale THEN room
              ELSE (IF room > 0 THEN room - rejected ELSE room)
                     - (IF Async THEN appended ELSE 0)]
         /\ \E k \in 0 .. NumSpec :
              spec' = IF w.samples /\ ~Async THEN [spec EXCEPT ![r] = k] ELSE spec
  BY DEF update_from_output, _rollback
<1>4. /\ StepsInOrder' /\ device' \in Seq([Req -> Work]) /\ Len(device') <= Len(device)
      /\ phase' \in {"idle", "update"}
  BY <1>1, <1>2, DrainedStepsInOrder, DrainedShape
<1>5. /\ Len(device') <= MaxBatches
      /\ device \in Seq([Req -> Work]) /\ 1 \in DOMAIN device
  <2>1. device \in Seq([Req -> Work]) /\ Len(device) <= MaxBatches
    BY <1>1 DEF Types
  <2>2. Len(device) \in Nat /\ Len(device') \in Nat /\ 1 \in DOMAIN device
    BY <1>2, <1>4, <2>1
  <2>3. QED
    BY <1>4, <2>1, <2>2, Constants
<1>6. BatchIsFitting'
  BY <1>1, <1>2, <1>4 DEF BatchIsFitting, Scheduling, NoWork
<1>7. /\ w.n \in Nat /\ w.drafts \in Nat /\ w.samples \in BOOLEAN /\ w.base \in Nat
      /\ accepted \in Nat /\ appended \in Nat
      /\ generated \in Nat /\ rejected \in Nat
      /\ w.samples => generated >= 1 /\ generated + rejected = 1 + w.drafts
      /\ ~w.samples => generated = 0 /\ rejected = 0
  <2>1. /\ w.n \in Nat /\ w.drafts \in Nat /\ w.samples \in BOOLEAN /\ w.base \in Nat
        /\ accepted \in Nat /\ appended \in Nat
    BY <1>1, <1>5, SharesAreWork, Constants
  <2>2. w.samples => accepted <= w.drafts
    BY <1>2
  <2>. HIDE DEF w
  <2>3. QED
    BY <2>1, <2>2
<1>8. /\ tokens[r] \in Nat /\ computed[r] \in Nat /\ room \in Nat
      /\ in_flight[r] \in Nat /\ stale[r] \in Nat /\ known[r] \in Nat
      /\ tokens[r] \in Prompt .. Prompt + MaxOut
  BY <1>1, Constants DEF Types
<1>9. known' \in [Req -> Nat]
       /\ known'[r] = (IF w.base > 0 THEN w.base ELSE known[r]) + generated
  <2>1. known \in [Req -> Nat]
    BY <1>1 DEF Types
  <2>2. (IF w.base > 0 THEN w.base ELSE known[r]) + generated \in Nat
    BY <1>7, <1>8
  <2>. HIDE DEF w, generated
  <2>3. QED
    BY <1>2, <2>1, <2>2
<1>10. ASSUME /\ status' \in [Req -> {"waiting", "running", "finished"}]
              /\ tokens' \in [Req -> Prompt .. Prompt + MaxOut]
              /\ computed' \in [Req -> Nat] /\ placeholders' \in [Req -> Nat]
              /\ in_flight' \in [Req -> Nat] /\ stale' \in [Req -> Nat]
              /\ spec' \in [Req -> Nat],
              \A q \in Req \ {r} :
                UNCHANGED <<status[q], tokens[q], computed[q], placeholders[q],
                            in_flight[q], stale[q], spec[q]>>,
              RequestFits(r)'
       PROVE  IInv'
  <2>1. Types'
    BY <1>1, <1>2, <1>4, <1>5, <1>9, <1>10 DEF Types
  <2>2. ASSUME NEW q \in Req PROVE RequestFits(q)'
    <3>1. CASE q = r
      BY <1>10, <3>1
    <3>2. CASE q # r
      <4>1. known'[q] = known[q]
        BY <1>1, <1>2, <3>2 DEF Types
      <4>2. UNCHANGED <<preemptions, drop, batch>>
        BY <1>2
      <4>3. UNCHANGED <<status[q], tokens[q], computed[q], placeholders[q],
                        in_flight[q], stale[q], spec[q], known[q]>>
        BY <1>10, <3>2, <4>1
      <4>4. QED
        BY <1>2, <3>2, <4>2, <4>3, OthersKeep
    <3>3. QED
      BY <3>1, <3>2
  <2>3. (StaleShareIsExact /\ CountersFit /\ DeliveriesChain)'
    BY <2>2, PerRequestNext
  <2>4. QED
    BY <1>4, <1>6, <2>1, <2>3, TypesSufficeNext DEF IInv
<1>11. CASE status[r] = "finished" /\ UNCHANGED <<status, requestVars>>
  <2>1. RequestFits(r)'
    BY <1>1, <1>11 DEF RequestFits, requestVars
  <2>2. QED
    BY <1>1, <1>10, <1>11, <2>1 DEF Types, requestVars
<1>12. CASE /\ status[r] # "finished" /\ is_stale /\ drop[r]
            /\ in_flight' = [in_flight EXCEPT ![r] = in_flight[r] - w.n]
            /\ stale' = [stale EXCEPT ![r] = IF is_stale THEN stale[r] - w.n ELSE stale[r]]
            /\ UNCHANGED <<status, tokens, computed, placeholders, spec>>
  <2>1. r \in Live /\ w.n <= in_flight[r] /\ w.n <= stale[r]
    BY <1>2, <1>12, HeadShare DEF Live
  <2>2. in_flight[r] - w.n \in Nat /\ stale[r] - w.n \in Nat
    BY <1>7, <1>8, <2>1
  <2>3. /\ in_flight' = [in_flight EXCEPT ![r] = in_flight[r] - w.n]
        /\ stale' = [stale EXCEPT ![r] = stale[r] - w.n]
    BY <1>12
  <2>4. /\ in_flight \in [Req -> Nat] /\ stale \in [Req -> Nat]
        /\ UNCHANGED <<status, tokens, computed, placeholders, spec>>
    BY <1>1, <1>12 DEF Types
  <2>5. /\ in_flight' \in [Req -> Nat] /\ stale' \in [Req -> Nat]
        /\ in_flight'[r] = in_flight[r] - w.n /\ stale'[r] = stale[r] - w.n
        /\ \A q \in Req \ {r} : in_flight'[q] = in_flight[q] /\ stale'[q] = stale[q]
    <3>. HIDE DEF w
    <3>1. QED
      BY <2>2, <2>3, <2>4
  <2>6. RequestFits(r)'
    BY <1>2, <1>12, <2>1, <2>4, <2>5, DroppedKeeps
  <2>7. QED
    BY <1>1, <1>10, <2>4, <2>5, <2>6 DEF Types
<1>13. CASE /\ status[r] # "finished" /\ ~(is_stale /\ drop[r])
            /\ in_flight' = [in_flight EXCEPT ![r] = in_flight[r] - w.n]
            /\ stale' = [stale EXCEPT ![r] = IF is_stale THEN stale[r] - w.n ELSE stale[r]]
            /\ appended \in 0 .. generated
            /\ tokens[r] + appended <= Prompt + MaxOut
            /\ (appended < generated
                  \/ (tokens[r] + appended = Prompt + MaxOut /\ appended > 0)) => stopped
            /\ tokens' = [tokens EXCEPT ![r] = tokens[r] + appended]
            /\ status' = [status EXCEPT ![r] = IF stopped THEN "finished" ELSE status[r]]
            /\ computed' = [computed EXCEPT ![r] =
                 IF ~is_stale /\ computed[r] > 0 THEN computed[r] - rejected ELSE computed[r]]
            /\ placeholders' = [placeholders EXCEPT ![r] =
                 IF is_stale THEN room
                 ELSE (IF room > 0 THEN room - rejected ELSE room)
                        - (IF Async THEN appended ELSE 0)]
            /\ \E k \in 0 .. NumSpec :
                 spec' = IF w.samples /\ ~Async THEN [spec EXCEPT ![r] = k] ELSE spec
  <2>. DEFINE computed_after == IF ~is_stale /\ computed[r] > 0
                                THEN computed[r] - rejected ELSE computed[r]
              room_after == IF is_stale THEN room
                            ELSE (IF room > 0 THEN room - rejected ELSE room)
                                   - (IF Async THEN appended ELSE 0)
              stale_after == IF is_stale THEN stale[r] - w.n ELSE stale[r]
  <2>1. /\ r \in Live /\ w.n <= in_flight[r] /\ (is_stale => w.n <= stale[r])
        /\ stale[r] = 0 => status[r] = "running"
    BY <1>2, <1>13, HeadShare DEF Live
  <2>2. /\ w.samples => w.drafts <= w.n
        /\ Fresh(r) \in Nat /\ Promised(r) \in Nat
        /\ stale[r] = 0 => w.n <= Fresh(r)
        /\ stale[r] = 0 /\ w.samples => 1 + w.drafts <= Promised(r)
    BY <1>2, <2>1, ShareWeights
  <2>3. in_flight[r] - w.n \in Nat /\ stale_after \in Nat
    BY <1>7, <1>8, <2>1
  <2>4. computed_after \in Nat
    <3>1. stale[r] = 0 => computed[r] >= Fresh(r)
      BY <1>1, <2>1 DEF RequestFits, RunningFits
    <3>2. rejected <= w.n
      <4>1. w.samples => w.drafts <= w.n
        BY <2>2
      <4>. HIDE DEF w, generated, rejected
      <4>2. QED
        BY <1>7, <4>1
    <3>. HIDE DEF w, rejected
    <3>3. QED
      BY <1>7, <1>8, <2>2, <3>1, <3>2
  <2>5. room_after \in Nat
    <3>1. room = IF Async THEN Promised(r) ELSE 0
      BY <1>1, <1>13 DEF RequestFits, LiveFits
    <3>2. CASE is_stale
      BY <1>8, <3>2
    <3>3. CASE ~is_stale /\ ~Async
      BY <3>1, <3>3
    <3>4. CASE ~is_stale /\ Async
      <4>1. stale[r] = 0 /\ room = Promised(r) /\ appended <= generated
        BY <1>8, <1>13, <3>1, <3>4
      <4>2. w.samples => /\ generated + rejected = 1 + w.drafts
                         /\ 1 + w.drafts <= room
        BY <1>7, <2>2, <4>1
      <4>3. ~w.samples => appended = 0 /\ rejected = 0
        BY <1>7, <4>1
      <4>. HIDE DEF w, generated, rejected, room
      <4>4. QED
        BY <1>7, <1>8, <3>4, <4>1, <4>2, <4>3
    <3>5. QED
      BY <3>2, <3>3, <3>4
  <2>6. tokens[r] + appended \in Prompt .. Prompt + MaxOut
    BY <1>7, <1>8, <1>13, Constants
  <2>7. /\ in_flight' = [in_flight EXCEPT ![r] = in_flight[r] - w.n]
        /\ stale' = [stale EXCEPT ![r] = stale_after]
        /\ tokens' = [tokens EXCEPT ![r] = tokens[r] + appended]
        /\ status' = [status EXCEPT ![r] = IF stopped THEN "finished" ELSE status[r]]
        /\ computed' = [computed EXCEPT ![r] = computed_after]
        /\ placeholders' = [placeholders EXCEPT ![r] = room_after]
    BY <1>13
  <2>8. PICK k \in 0 .. NumSpec :
          spec' = IF w.samples /\ ~Async THEN [spec EXCEPT ![r] = k] ELSE spec
    BY <1>13
  <2>9. /\ in_flight' \in [Req -> Nat] /\ stale' \in [Req -> Nat]
        /\ tokens' \in [Req -> Prompt .. Prompt + MaxOut]
        /\ computed' \in [Req -> Nat] /\ placeholders' \in [Req -> Nat]
        /\ in_flight'[r] = in_flight[r] - w.n /\ stale'[r] = stale_after
        /\ tokens'[r] = tokens[r] + appended
        /\ computed'[r] = computed_after /\ placeholders'[r] = room_after
        /\ \A q \in Req \ {r} :
             UNCHANGED <<in_flight[q], stale[q], tokens[q], computed[q], placeholders[q]>>
    <3>1. /\ in_flight \in [Req -> Nat] /\ stale \in [Req -> Nat]
          /\ tokens \in [Req -> Prompt .. Prompt + MaxOut]
          /\ computed \in [Req -> Nat] /\ placeholders \in [Req -> Nat]
      BY <1>1 DEF Types
    <3>. HIDE DEF w, stale_after, computed_after, room_after
    <3>2. QED
      BY <2>3, <2>4, <2>5, <2>6, <2>7, <3>1
  <2>10. /\ status' \in [Req -> {"waiting", "running", "finished"}]
         /\ status'[r] = IF stopped THEN "finished" ELSE status[r]
         /\ \A q \in Req \ {r} : status'[q] = status[q]
    BY <1>1, <2>7 DEF Types
  <2>11. /\ spec' \in [Req -> Nat] /\ spec'[r] <= NumSpec
         /\ \A q \in Req \ {r} : spec'[q] = spec[q]
    BY <1>1, <2>8, Constants DEF Types, RequestFits
  <2>12. RequestFits(r)'
    <3>1. CASE stopped
      BY <2>10, <2>11, <3>1 DEF RequestFits
    <3>2. CASE ~stopped
      <4>1. appended = generated /\ tokens'[r] < Prompt + MaxOut
        <5>1. ~(appended < generated) /\ appended \in 0 .. generated
          BY <1>13, <3>2
        <5>2. appended = generated
          <6>. HIDE DEF generated
          <6>1. QED
            BY <1>7, <5>1
        <5>3. CASE appended > 0
          BY <1>7, <1>8, <1>13, <2>9, <3>2, <5>3, Constants
        <5>4. CASE appended = 0
          <6>1. tokens[r] < Prompt + MaxOut
            BY <1>1, <1>13 DEF RequestFits, LiveFits
          <6>2. tokens'[r] = tokens[r]
            BY <1>8, <2>9, <5>4
          <6>3. QED
            BY <5>2, <6>1, <6>2
        <5>5. QED
          BY <1>7, <5>2, <5>3, <5>4
      <4>2. /\ status'[r] = status[r] /\ tokens'[r] = tokens[r] + generated
            /\ ~(stale[r] > 0 /\ drop[r]) /\ stale'[r] = stale_after
            /\ computed'[r] = computed_after
        BY <1>13, <2>9, <2>10, <3>2, <4>1
      <4>3. placeholders'[r] =
              IF is_stale THEN room
              ELSE (IF room > 0 THEN room - rejected ELSE room)
                     - (IF Async THEN generated ELSE 0)
        BY <2>9, <4>1
      <4>4. UNCHANGED <<preemptions, drop, batch>> /\ device # <<>> /\ w.n > 0 /\ Drained(r)
        BY <1>2
      <4>5. /\ r \in Live /\ in_flight'[r] = in_flight[r] - w.n /\ spec'[r] <= NumSpec
            /\ known'[r] = (IF w.base > 0 THEN w.base ELSE known[r]) + generated
        BY <1>9, <2>1, <2>9, <2>11
      <4>6. /\ generated \in Nat /\ rejected \in Nat
            /\ w.samples => generated >= 1 /\ generated + rejected = 1 + w.drafts
            /\ ~w.samples => generated = 0 /\ rejected = 0
        BY <1>7
      <4>. HIDE DEF generated, rejected
      <4>7. QED
        BY <4>1, <4>2, <4>3, <4>4, <4>5, <4>6, DeliveredKeeps
    <3>3. QED
      BY <3>1, <3>2
  <2>13. QED
    BY <1>10, <2>9, <2>10, <2>11, <2>12
<1>14. QED
  BY <1>3, <1>11, <1>12, <1>13

-----------------------------------------------------------------------------
(* The theorems *)

LEMMA StepKeeps == IInv /\ [Next]_vars => IInv'
<1>. SUFFICES ASSUME IInv, [Next]_vars PROVE IInv'
  OBVIOUS
<1>1. CASE UNCHANGED vars
  BY <1>1, StutterKeeps
<1>2. CASE BeginSchedule
  BY <1>2, BeginScheduleKeeps
<1>3. ASSUME NEW r \in Req, NEW n \in 1 .. Prompt + MaxOut + NumSpec, ScheduleRunning(r, n)
      PROVE  IInv'
  BY <1>3, ScheduleRunningKeeps
<1>4. ASSUME NEW r \in Req, PreemptVictim(r) PROVE IInv'
  BY <1>4, PreemptVictimKeeps
<1>5. CASE BeginWaiting
  BY <1>5, BeginWaitingKeeps
<1>6. ASSUME NEW r \in Req, NEW hit \in 0 .. Prompt + MaxOut,
             NEW n \in 1 .. Prompt + MaxOut + NumSpec, NEW pad \in BOOLEAN,
             ResumeWaiting(r, hit, n, pad)
      PROVE  IInv'
  BY <1>6, ResumeWaitingKeeps
<1>7. CASE _update_after_schedule
  BY <1>7, EmptyStepKeeps, FullStepKeeps
<1>8. ASSUME NEW r \in Req, NEW accepted \in 0 .. NumSpec,
             NEW appended \in 0 .. NumSpec + 1, NEW stopped \in BOOLEAN,
             update_from_output(r, accepted, appended, stopped)
      PROVE  IInv'
  BY <1>8, OutputKeeps
<1>9. ASSUME NEW r \in Req, finish_requests(r) PROVE IInv'
  BY <1>9, FinishKeeps
<1>10. CASE reset_prefix_cache
  BY <1>10, ResetKeeps
<1>11. QED
  BY <1>1, <1>2, <1>3, <1>4, <1>5, <1>6, <1>7, <1>8, <1>9, <1>10 DEF Next

LEMMA Invariance == Spec => []IInv
<1>1. Init => IInv
  BY Initially
<1>2. IInv /\ [Next]_vars => IInv'
  BY StepKeeps
<1>3. QED
  BY <1>1, <1>2, PTL DEF Spec

(* The counters of a request stay in range, with any number of steps in    *)
(* flight: a rejection or an output that arrives late never takes          *)
(* num_computed_tokens, num_output_placeholders, num_in_flight_tokens or   *)
(* num_stale_output_tokens below zero, and a request never grows past      *)
(* max_tokens.                                                             *)
THEOREM CountersInRange == Spec => []TypeOK
<1>1. IInv => TypeOK
  BY DEF IInv
<1>2. QED
  BY <1>1, Invariance, PTL

(* num_in_flight_tokens is what the unprocessed steps hold for a request,  *)
(* and num_stale_output_tokens the part of it from before the last         *)
(* preemption: what _preempt_request records at once and                   *)
(* update_from_output takes back step by step agree, whatever happened in  *)
(* between.                                                                *)
THEOREM StaleAccountingIsExact == Spec => []StaleShareIsExact
<1>1. IInv => StaleShareIsExact
  BY DEF IInv
<1>2. QED
  BY <1>1, Invariance, PTL

(* Output that is delivered continues the request exactly where its list   *)
(* ends: no preemption, reset or resumption makes update_from_output       *)
(* append a position twice, skip one or reorder two.                       *)
THEOREM OutputArrivesInOrder == Spec => []OutputInOrder
<1>1. IInv => OutputInOrder
  <2>. SUFFICES ASSUME IInv, device # <<>>, NEW r \in Live, device[1][r].samples,
                       ~(stale[r] > 0 /\ drop[r])
                PROVE  (IF device[1][r].base > 0 THEN device[1][r].base ELSE known[r])
                         = tokens[r]
    BY DEF OutputInOrder
  <2>1. r \in Req /\ TypeOK /\ StepsInOrder /\ ChainHolds(r)
    BY DEF IInv, DeliveriesChain, Live
  <2>2. DOMAIN device = 1 .. Len(device) /\ Len(device) \in Nat /\ 1 \in DOMAIN device
    <3>1. device \in Seq([Req -> Work])
      BY <2>1, TypesSuffice DEF Types
    <3>2. QED
      BY <3>1
  <2>3. device[1][r].n \in Nat /\ device[1][r].base \in Nat
    BY <2>1, <2>2, SharesAreWork
  <2>4. device[1][r].n > 0
    <3>1. device[1][r].n = 0 => device[1][r] = NoWork
      BY <2>1, <2>2 DEF StepsInOrder
    <3>2. QED
      BY <2>3, <3>1 DEF NoWork
  <2>5. stale[r] \in Nat
    BY <2>1, TypesSuffice DEF Types
  <2>6. Deliverable(1, r)
    <3>1. stale[r] = 0 => device[1][r].epoch = preemptions[r]
      BY <2>4, HeadShare
    <3>2. QED
      BY <2>4, <2>5, <3>1 DEF Deliverable
  <2>7. /\ device[1][r].base > 0 => device[1][r].base = tokens[r]
        /\ device[1][r].base = 0 => known[r] = tokens[r]
    BY <2>1, <2>2, <2>6 DEF ChainHolds
  <2>8. QED
    BY <2>3, <2>7
<1>2. QED
  BY <1>1, Invariance, PTL

(* num_output_placeholders is exactly what the fresh steps in flight may   *)
(* still append, rejected drafts included.                                 *)
THEOREM PlaceholdersAlwaysMatch == Spec => []PlaceholdersMatch
<1>1. IInv => PlaceholdersMatch
  BY DEF IInv, CountersFit, LiveFits, PlaceholdersMatch, Promised
<1>2. QED
  BY <1>1, Invariance, PTL

(* A running request of which nothing is in flight has no placeholder left *)
(* and a token to compute: no sequence of rejections, preemptions and late *)
(* outputs leaves counters behind that would keep schedule() from giving   *)
(* it a step.                                                              *)
THEOREM CountersAlwaysSettle == Spec => []CountersSettle
<1>1. IInv => CountersSettle
  <2>. SUFFICES ASSUME IInv, NEW r \in Req, status[r] = "running", in_flight[r] = 0
                PROVE  placeholders[r] = 0 /\ computed[r] < tokens[r]
    BY DEF CountersSettle
  <2>1. /\ TypeOK /\ StepsInOrder /\ r \in Live /\ LiveFits(r) /\ RunningFits(r)
        /\ SumOver(device, r, AllTokens) = 0
    BY DEF IInv, CountersFit, StaleShareIsExact, Live
  <2>2. device \in Seq([Req -> Work]) /\ preemptions[r] \in Nat
    BY <2>1, SumsAreNatural, TypesSuffice DEF Types
  <2>3. ASSUME NEW i \in DOMAIN device PROVE MayAppend(preemptions[r])[device[i][r]] = 0
    <3>1. device[i][r] \in Work /\ device[i][r].n \in Nat
      BY <2>1, SharesAreWork
    <3>2. AllTokens[device[i][r]] <= 0
      BY <2>1, <2>2, SumOverBounds, WeightTypes
    <3>3. device[i][r].n = 0
      BY <3>1, <3>2 DEF AllTokens
    <3>4. device[i][r] = NoWork
      BY <2>1, <3>3 DEF StepsInOrder
    <3>5. QED
      BY <2>2, <3>4, NoWorkWeighsNothing
  <2>4. Promised(r) = 0
    <3>1. MayAppend(preemptions[r]) \in [Work -> Nat]
      BY <2>2, WeightTypes
    <3>2. QED
      BY <2>2, <2>3, <3>1, SumOverNothing DEF Promised
  <2>5. computed[r] \in Nat /\ tokens[r] \in Nat
    BY <2>1, Constants, TypesSuffice DEF Types
  <2>6. QED
    BY <2>1, <2>4, <2>5 DEF LiveFits, RunningFits
<1>2. QED
  BY <1>1, Invariance, PTL

(* With at most two batches in flight, schedule() never spends a step on a *)
(* request that the step before it is certain to finish.                   *)
THEOREM NoStepIsWasted == ASSUME MaxBatches <= 2 PROVE Spec => []NoWastedStep
<1>1. IInv => NoWastedStep
  <2>. DEFINE will(r) == SumOver(device, r, WillAppend(preemptions[r]))
  <2>. SUFFICES ASSUME IInv, NEW r \in Live, batch[r].n > 0
                PROVE  tokens[r] + will(r) < Prompt + MaxOut
    BY DEF NoWastedStep
  <2>1. /\ r \in Req /\ TypeOK /\ BatchIsFitting /\ LiveFits(r) /\ BatchFits(r)
    BY DEF IInv, CountersFit, BatchIsFitting, Live
  <2>2. Scheduling
    BY <2>1 DEF BatchIsFitting, NoWork
  <2>3. /\ device \in Seq([Req -> Work]) /\ Len(device) <= 1 /\ Len(device) \in Nat
        /\ preemptions[r] \in Nat /\ tokens[r] \in Nat
    BY <2>1, <2>2, Constants, SumsAreNatural, TypesSuffice DEF Types, BatchIsFitting
  <2>4. WillAppend(preemptions[r]) \in [Work -> Nat] /\ MayAppend(preemptions[r]) \in [Work -> Nat]
    BY <2>3, WeightTypes
  <2>5. CASE device = <<>>
    <3>0. DOMAIN device = {}
      BY <2>5
    <3>1. will(r) = 0
      BY <2>1, <2>3, <2>4, <3>0, SumOverNothing
    <3>2. QED
      BY <2>1, <2>3, <3>1 DEF LiveFits
  <2>6. CASE device # <<>>
    <3>1. Tail(device) = <<>> /\ Tail(device) \in Seq([Req -> Work]) /\ 1 \in DOMAIN device
      BY <2>3, <2>6
    <3>2. SumOver(Tail(device), r, WillAppend(preemptions[r])) = 0
      <4>1. DOMAIN Tail(device) = {}
        BY <3>1
      <4>2. QED
        BY <2>1, <2>4, <3>1, <4>1, SumOverNothing
    <3>3. SumOver(Tail(device), r, WillAppend(preemptions[r]))
            = will(r) - WillAppend(preemptions[r])[device[1][r]]
      BY <2>1, <2>3, <2>4, <2>6, SumOverTail
    <3>4. /\ will(r) \in Nat /\ Promised(r) \in Nat
          /\ MayAppend(preemptions[r])[device[1][r]] <= Promised(r)
      BY <2>1, <2>3, <2>4, <3>1, SumOverBounds DEF Promised
    <3>5. device[1][r] \in Work /\ device[1][r].drafts \in Nat
      BY <2>1, <3>1, SharesAreWork
    <3>6. CASE device[1][r].samples /\ device[1][r].epoch = preemptions[r]
      <4>1. /\ WillAppend(preemptions[r])[device[1][r]] = 1
            /\ MayAppend(preemptions[r])[device[1][r]] > 0
        BY <3>5, <3>6 DEF WillAppend, MayAppend
      <4>2. Promised(r) > 0 /\ will(r) = 1
        BY <3>2, <3>3, <3>4, <3>5, <4>1, <2>4
      <4>3. QED
        BY <2>1, <4>2 DEF BatchFits
    <3>7. CASE ~(device[1][r].samples /\ device[1][r].epoch = preemptions[r])
      <4>1. WillAppend(preemptions[r])[device[1][r]] = 0
        BY <3>5, <3>7 DEF WillAppend
      <4>2. will(r) = 0
        BY <3>2, <3>3, <3>4, <4>1
      <4>3. QED
        BY <2>1, <2>3, <4>2 DEF LiveFits
    <3>8. QED
      BY <3>6, <3>7
  <2>7. QED
    BY <2>5, <2>6
<1>2. QED
  BY <1>1, Invariance, PTL
=============================================================================
