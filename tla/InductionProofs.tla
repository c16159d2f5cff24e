-------------------------- MODULE InductionProofs --------------------------
(***************************************************************************)
(* Induction over the natural numbers in the form of a set that contains 0 *)
(* and is closed under successors, and what follows from it for the sum of *)
(* a sequence and for the sum over a finite set; then what operations on   *)
(* sequences list, and that they list it once.  The other proofs cite      *)
(* these lemmas by name.                                                   *)
(***************************************************************************)
EXTENDS Totals, SequencesExt, FiniteSets, FiniteSetTheorems, WellFoundedInduction, TLAPS

(* A set that holds 0 and the successor of each of its natural numbers     *)
(* holds all of them: the first number outside would have no predecessor.  *)
LEMMA InductiveSet ==
  ASSUME NEW T, 0 \in T, \A n \in Nat : n \in T => n + 1 \in T
  PROVE  Nat \subseteq T
<1>. DEFINE Outside == Nat \ T
            Less == {p \in Nat \X Nat : p[1] < p[2]}
<1>1. SUFFICES ASSUME Outside # {} PROVE FALSE
  OBVIOUS
<1>2. IsWellFoundedOn(Less, Nat)
  BY NatLessThanWellFounded DEF OpToRel
<1>3. PICK m \in Outside : \A k \in Outside : ~(<<k, m>> \in Less)
  BY <1>1, <1>2, WFMin
<1>4. \A k \in Outside : ~(k < m)
  BY <1>3
<1>5. QED
  BY <1>4

-----------------------------------------------------------------------------
(* Totals *)

(* u lists the sums of the beginnings of s, up to the first n numbers. *)
Sums(u, s, n) ==
  /\ u \in [0 .. n -> Int]
  /\ u[0] = 0
  /\ \A i \in 1 .. n : u[i] = u[i - 1] + s[i]

LEMMA SumsExist ==
  ASSUME NEW s \in Seq(Int)
  PROVE  \E u : Sums(u, s, Len(s))
<1>. DEFINE T == {n \in Nat : n <= Len(s) => \E u : Sums(u, s, n)}
<1>1. 0 \in T
  <2>1. Sums([i \in 0 .. 0 |-> 0], s, 0)
    BY DEF Sums
  <2>2. QED
    BY <2>1
<1>2. ASSUME NEW n \in Nat, n \in T PROVE n + 1 \in T
  <2>1. SUFFICES ASSUME n + 1 <= Len(s) PROVE \E u : Sums(u, s, n + 1)
    OBVIOUS
  <2>2. PICK u : Sums(u, s, n)
    BY <1>2, <2>1
  <2>. DEFINE v == [i \in 0 .. n + 1 |-> IF i = n + 1 THEN u[n] + s[n + 1] ELSE u[i]]
  <2>3. s[n + 1] \in Int
    BY <2>1
  <2>4. u[n] \in Int /\ u[0] = 0 /\ \A i \in 0 .. n : u[i] \in Int
    BY <2>2 DEF Sums
  <2>5. v \in [0 .. n + 1 -> Int] /\ v[0] = 0
    BY <2>3, <2>4
  <2>6. ASSUME NEW i \in 1 .. n + 1 PROVE v[i] = v[i - 1] + s[i]
    <3>1. CASE i = n + 1
      BY <3>1
    <3>2. CASE i \in 1 .. n
      BY <2>2, <3>2 DEF Sums
    <3>3. QED
      BY <3>1, <3>2
  <2>7. Sums(v, s, n + 1)
    BY <2>5, <2>6 DEF Sums
  <2>8. QED
    BY <2>7
<1>3. Nat \subseteq T
  <2>. HIDE DEF T
  <2>1. QED
    BY <1>1, <1>2, InductiveSet
<1>4. QED
  BY <1>3

(* The prefix sums of s are determined. *)
LEMMA SumsAgree ==
  ASSUME NEW s, NEW m \in Nat, NEW u, NEW v, Sums(u, s, m), Sums(v, s, m)
  PROVE  u[m] = v[m]
<1>. DEFINE T == {n \in Nat : n <= m => u[n] = v[n]}
<1>1. 0 \in T
  BY DEF Sums
<1>2. ASSUME NEW n \in Nat, n \in T PROVE n + 1 \in T
  BY <1>2 DEF Sums
<1>3. Nat \subseteq T
  <2>. HIDE DEF T
  <2>1. QED
    BY <1>1, <1>2, InductiveSet
<1>4. QED
  BY <1>3

LEMMA TotalIsSum ==
  ASSUME NEW s \in Seq(Int), NEW u, Sums(u, s, Len(s))
  PROVE  Total(s) = u[Len(s)]
<1>. DEFINE Next(f) == [i \in 0 .. Len(s) |-> IF i = 0 THEN 0 ELSE f[i - 1] + s[i]]
            upto == CHOOSE f : f = Next(f)
<1>1. u = Next(u)
  BY DEF Sums
<1>2. upto = Next(upto)
  <2>. HIDE DEF Next
  <2>1. QED
    BY <1>1
<1>. HIDE DEF upto
<1>3. /\ upto[0] = 0
      /\ \A i \in 1 .. Len(s) : upto[i] = upto[i - 1] + s[i]
  <2>1. \A i \in 0 .. Len(s) :
          upto[i] = IF i = 0 THEN 0 ELSE upto[i - 1] + s[i]
    BY <1>2, Zenon
  <2>2. QED
    BY <2>1
<1>4. upto[Len(s)] = u[Len(s)]
  <2>. DEFINE T == {n \in Nat : n <= Len(s) => upto[n] = u[n]}
  <2>1. 0 \in T
    BY <1>3 DEF Sums
  <2>2. ASSUME NEW n \in Nat, n \in T PROVE n + 1 \in T
    BY <1>3, <2>2 DEF Sums
  <2>3. Nat \subseteq T
    <3>. HIDE DEF T
    <3>1. QED
      BY <2>1, <2>2, InductiveSet
  <2>4. QED
    BY <2>3
<1>5. QED
  BY <1>4 DEF Total, upto

LEMMA TotalEmpty == Total(<<>>) = 0
<1>1. Sums([i \in 0 .. 0 |-> 0], <<>>, 0)
  BY DEF Sums
<1>2. QED
  BY <1>1, TotalIsSum

(* One more number at the end. *)
LEMMA TotalAppended ==
  ASSUME NEW s \in Seq(Int), NEW t \in Seq(Int), Len(t) = Len(s) + 1,
         \A i \in 1 .. Len(s) : t[i] = s[i]
  PROVE  Total(t) = Total(s) + t[Len(t)]
<1>1. PICK u : Sums(u, s, Len(s))
  BY SumsExist
<1>. DEFINE v == [i \in 0 .. Len(t) |-> IF i = Len(t) THEN u[Len(s)] + t[Len(t)] ELSE u[i]]
<1>2. /\ t[Len(t)] \in Int /\ u[0] = 0 /\ \A i \in 0 .. Len(s) : u[i] \in Int
      /\ Len(s) \in Nat
  BY <1>1 DEF Sums
<1>3. Sums(v, t, Len(t))
  <2>1. v \in [0 .. Len(t) -> Int] /\ v[0] = 0
    BY <1>2
  <2>2. ASSUME NEW i \in 1 .. Len(t) PROVE v[i] = v[i - 1] + t[i]
    <3>1. CASE i = Len(t)
      BY <1>2, <3>1
    <3>2. CASE i \in 1 .. Len(s)
      BY <1>1, <1>2, <3>2 DEF Sums
    <3>3. QED
      BY <1>2, <3>1, <3>2
  <2>3. QED
    BY <2>1, <2>2 DEF Sums
<1>4. Total(t) = v[Len(t)] /\ Total(s) = u[Len(s)]
  BY <1>1, <1>3, TotalIsSum
<1>5. QED
  BY <1>4

(* The first number is taken away. *)
LEMMA TotalTail ==
  ASSUME NEW s \in Seq(Int), NEW t \in Seq(Int), Len(s) = Len(t) + 1,
         \A i \in 1 .. Len(t) : t[i] = s[i + 1]
  PROVE  Total(t) = Total(s) - s[1]
<1>1. PICK u : Sums(u, s, Len(s))
  BY SumsExist
<1>. DEFINE v == [i \in 0 .. Len(t) |-> u[i + 1] - s[1]]
<1>2. /\ s[1] \in Int /\ u[1] = s[1] /\ \A i \in 0 .. Len(s) : u[i] \in Int
      /\ Len(t) \in Nat
  BY <1>1 DEF Sums
<1>3. Sums(v, t, Len(t))
  <2>1. v \in [0 .. Len(t) -> Int] /\ v[0] = 0
    BY <1>2
  <2>2. ASSUME NEW i \in 1 .. Len(t) PROVE v[i] = v[i - 1] + t[i]
    <3>1. i + 1 \in 1 .. Len(s) /\ i + 1 - 1 = i
      BY <1>2
    <3>2. u[i + 1] = u[i + 1 - 1] + s[i + 1]
      <4>1. \A k \in 1 .. Len(s) : u[k] = u[k - 1] + s[k]
        BY <1>1 DEF Sums
      <4>. DEFINE k == i + 1
      <4>2. k \in 1 .. Len(s)
        BY <3>1
      <4>3. u[k] = u[k - 1] + s[k]
        <5>. HIDE DEF k
        <5>1. QED
          BY <4>1, <4>2
      <4>4. QED
        BY <4>3
    <3>3. s[i + 1] \in Int /\ u[i + 1] \in Int /\ u[i] \in Int
      BY <1>2, <3>1
    <3>4. v[i] = u[i + 1] - s[1] /\ v[i - 1] = u[i - 1 + 1] - s[1] /\ i - 1 + 1 = i
      BY <1>2
    <3>5. QED
      BY <1>2, <3>1, <3>2, <3>3, <3>4
  <2>3. QED
    BY <2>1, <2>2 DEF Sums
<1>4. Total(t) = v[Len(t)] /\ Total(s) = u[Len(s)]
  BY <1>1, <1>3, TotalIsSum
<1>5. QED
  BY <1>4

(* The first number is replaced. *)
LEMMA TotalHeadReplaced ==
  ASSUME NEW s \in Seq(Int), NEW t \in Seq(Int), Len(t) = Len(s), Len(s) > 0,
         \A i \in 2 .. Len(s) : t[i] = s[i]
  PROVE  Total(t) = Total(s) - s[1] + t[1]
<1>1. PICK u : Sums(u, s, Len(s))
  BY SumsExist
<1>. DEFINE v == [i \in 0 .. Len(t) |-> IF i = 0 THEN 0 ELSE u[i] - s[1] + t[1]]
<1>2. /\ s[1] \in Int /\ t[1] \in Int /\ u[0] = 0 /\ u[1] = s[1]
      /\ Len(t) \in Nat /\ \A i \in 0 .. Len(t) : u[i] \in Int
  <2>1. 1 \in 1 .. Len(s) /\ 1 \in 1 .. Len(t)
    OBVIOUS
  <2>2. s[1] \in Int /\ t[1] \in Int /\ Len(t) \in Nat
    BY <2>1
  <2>3. u[0] = 0 /\ \A i \in 0 .. Len(t) : u[i] \in Int
    BY <1>1 DEF Sums
  <2>4. u[1] = u[1 - 1] + s[1]
    BY <1>1, <2>1 DEF Sums
  <2>5. QED
    BY <2>2, <2>3, <2>4
<1>3. Sums(v, t, Len(t))
  <2>1. v \in [0 .. Len(t) -> Int] /\ v[0] = 0
    BY <1>2
  <2>2. ASSUME NEW i \in 1 .. Len(t) PROVE v[i] = v[i - 1] + t[i]
    <3>1. u[i] = u[i - 1] + s[i] /\ s[i] \in Int
      BY <1>1, <1>2 DEF Sums
    <3>2. CASE i = 1
      BY <1>2, <3>2
    <3>3. CASE i \in 2 .. Len(t)
      <4>1. u[i] \in Int /\ u[i - 1] \in Int /\ t[i] = s[i]
        BY <1>2, <3>3
      <4>. DEFINE j == i - 1
      <4>2. i \in 0 .. Len(t) /\ i # 0 /\ j \in 0 .. Len(t) /\ j # 0
        BY <1>2, <3>3
      <4>3. v[i] = u[i] - s[1] + t[1] /\ v[j] = u[j] - s[1] + t[1]
        BY <4>2, Zenon
      <4>. HIDE DEF v
      <4>4. QED
        BY <1>2, <3>1, <4>1, <4>3
    <3>4. QED
      BY <1>2, <3>2, <3>3
  <2>3. QED
    BY <2>1, <2>2 DEF Sums
<1>4. Total(t) = v[Len(t)] /\ Total(s) = u[Len(s)]
  BY <1>1, <1>3, TotalIsSum
<1>5. QED
  BY <1>4

LEMMA TotalInt ==
  ASSUME NEW s \in Seq(Int)
  PROVE  Total(s) \in Int
<1>1. PICK u : Sums(u, s, Len(s))
  BY SumsExist
<1>2. u[Len(s)] \in Int
  BY <1>1 DEF Sums
<1>3. QED
  BY <1>1, <1>2, TotalIsSum

(* A sum of natural numbers is at least each of them. *)
LEMMA TotalBoundsAll ==
  ASSUME NEW s \in Seq(Nat)
  PROVE  /\ Total(s) \in Nat
         /\ \A i \in 1 .. Len(s) : s[i] <= Total(s)
<1>0. s \in Seq(Int)
  OBVIOUS
<1>1. PICK u : Sums(u, s, Len(s))
  BY <1>0, SumsExist
<1>. DEFINE T == {n \in Nat : n <= Len(s) =>
                    u[n] >= 0 /\ \A i \in 1 .. n : s[i] <= u[n]}
<1>2. 0 \in T
  BY <1>1 DEF Sums
<1>3. ASSUME NEW n \in Nat, n \in T PROVE n + 1 \in T
  <2>1. SUFFICES ASSUME n + 1 <= Len(s)
                 PROVE  u[n + 1] >= 0 /\ \A i \in 1 .. n + 1 : s[i] <= u[n + 1]
    OBVIOUS
  <2>2. u[n] \in Int /\ u[n] >= 0 /\ \A i \in 1 .. n : s[i] <= u[n]
    <3>1. n \in 0 .. Len(s)
      BY <2>1
    <3>2. u[n] \in Int
      BY <1>1, <3>1 DEF Sums
    <3>3. QED
      BY <1>3, <3>1, <3>2
  <2>3. u[n + 1] = u[n] + s[n + 1] /\ s[n + 1] \in Nat
    BY <1>1, <2>1 DEF Sums
  <2>4. ASSUME NEW i \in 1 .. n + 1 PROVE s[i] <= u[n + 1]
    <3>1. s[i] \in Nat
      BY <2>1
    <3>2. QED
      BY <2>2, <2>3, <3>1
  <2>5. QED
    BY <2>2, <2>3, <2>4
<1>4. Nat \subseteq T
  <2>. HIDE DEF T
  <2>1. QED
    BY <1>2, <1>3, InductiveSet
<1>5. Total(s) = u[Len(s)] /\ u[Len(s)] \in Int
  BY <1>0, <1>1, TotalIsSum DEF Sums
<1>6. QED
  BY <1>4, <1>5

(* Numbers that are all zero. *)
LEMMA TotalOfZeros ==
  ASSUME NEW s \in Seq(Int), \A i \in 1 .. Len(s) : s[i] = 0
  PROVE  Total(s) = 0
<1>. DEFINE v == [i \in 0 .. Len(s) |-> 0]
<1>1. Sums(v, s, Len(s))
  BY DEF Sums
<1>2. Total(s) = v[Len(s)] /\ Len(s) \in Nat
  BY <1>1, TotalIsSum
<1>3. QED
  BY <1>2

-----------------------------------------------------------------------------
(* Sums over finite sets, in any order *)

(* u gives every set in U the sum of f over it, one element after the      *)
(* other as the fold takes them.                                           *)
Parts(u, f, U) ==
  /\ u \in [U -> Int]
  /\ \A T \in U : u[T] = (IF T = {} THEN 0 ELSE f[CHOOSE x \in T : TRUE] + u[T \ {CHOOSE x \in T : TRUE}])

UpTo(S, n) == {T \in SUBSET S : Cardinality(T) <= n}

LEMMA LessOne ==
  ASSUME NEW S, IsFiniteSet(S), NEW T \in SUBSET S, NEW x \in T
  PROVE  /\ IsFiniteSet(T) /\ Cardinality(T) \in Nat \ {0} /\ T \ {x} \in SUBSET S
         /\ Cardinality(T \ {x}) = Cardinality(T) - 1 /\ Cardinality(T \ {x}) \in Nat
<1>1. IsFiniteSet(T)
  BY FS_Subset
<1>2. Cardinality(T \ {x}) = Cardinality(T) - 1 /\ IsFiniteSet(T \ {x})
  BY <1>1, FS_RemoveElement
<1>3. Cardinality(T) \in Nat /\ Cardinality(T \ {x}) \in Nat
  BY <1>1, <1>2, FS_CardinalityType
<1>4. QED
  BY <1>1, <1>2, <1>3

LEMMA NoneLeft ==
  ASSUME NEW S, IsFiniteSet(S), NEW T \in SUBSET S, Cardinality(T) <= 0
  PROVE  T = {}
<1>1. IsFiniteSet(T)
  BY FS_Subset
<1>2. Cardinality(T) \in Nat
  BY <1>1, FS_CardinalityType
<1>3. Cardinality(T) = 0
  BY <1>2
<1>4. QED
  BY <1>1, <1>3, FS_EmptySet

LEMMA PartsExist ==
  ASSUME NEW S, IsFiniteSet(S), NEW f \in [S -> Int]
  PROVE  \E u : Parts(u, f, SUBSET S)
<1>. DEFINE P == {n \in Nat : \E u : Parts(u, f, UpTo(S, n))}
            c(T) == CHOOSE x \in T : TRUE
<1>1. 0 \in P
  <2>1. \A T \in UpTo(S, 0) : T = {}
    <3>1. \A T \in UpTo(S, 0) : T \in SUBSET S /\ Cardinality(T) <= 0
      BY DEF UpTo
    <3>2. QED
      BY <3>1, NoneLeft
  <2>2. Parts([T \in UpTo(S, 0) |-> 0], f, UpTo(S, 0))
    BY <2>1 DEF Parts
  <2>3. QED
    BY <2>2
<1>2. ASSUME NEW n \in Nat, n \in P PROVE n + 1 \in P
  <2>1. PICK u : Parts(u, f, UpTo(S, n))
    BY <1>2
  <2>. DEFINE v == [T \in UpTo(S, n + 1) |-> IF T \in UpTo(S, n) THEN u[T]
                                            ELSE f[c(T)] + u[T \ {c(T)}]]
  <2>2. \A T \in UpTo(S, n + 1) : T # {} => c(T) \in T /\ c(T) \in S /\ T \ {c(T)} \in UpTo(S, n)
    <3>1. SUFFICES ASSUME NEW T \in UpTo(S, n + 1), T # {}
          PROVE c(T) \in T /\ c(T) \in S /\ T \ {c(T)} \in UpTo(S, n)
      OBVIOUS
    <3>2. T \in SUBSET S /\ Cardinality(T) <= n + 1 /\ c(T) \in T
      BY <3>1 DEF UpTo
    <3>3. PICK x \in T : x = c(T)
      BY <3>2
    <3>4. Cardinality(T \ {x}) <= n /\ T \ {x} \in SUBSET S
      BY <3>2, LessOne
    <3>5. QED
      BY <3>2, <3>3, <3>4 DEF UpTo
  <2>3. {} \in UpTo(S, n)
    BY FS_EmptySet DEF UpTo
  <2>. HIDE DEF c
  <2>4. \A T \in UpTo(S, n + 1) : v[T] \in Int
    <3>1. ASSUME NEW T \in UpTo(S, n + 1) PROVE v[T] \in Int
      <4>1. CASE T \in UpTo(S, n)
        BY <2>1, <4>1 DEF Parts
      <4>2. CASE T \notin UpTo(S, n)
        <5>1. f[c(T)] \in Int /\ u[T \ {c(T)}] \in Int
          BY <2>1, <2>2, <2>3, <4>2 DEF Parts
        <5>2. QED
          BY <4>2, <5>1
      <4>3. QED
        BY <4>1, <4>2
    <3>2. QED
      BY <3>1
  <2>5. \A T \in UpTo(S, n) : T \in UpTo(S, n + 1) /\ v[T] = u[T]
    <3>1. \A T \in SUBSET S : Cardinality(T) \in Nat
      BY FS_Subset, FS_CardinalityType
    <3>2. \A T \in UpTo(S, n) : T \in UpTo(S, n + 1)
      BY <3>1 DEF UpTo
    <3>3. QED
      BY <3>2
  <2>6. ASSUME NEW T \in UpTo(S, n + 1)
        PROVE v[T] = (IF T = {} THEN 0 ELSE f[c(T)] + v[T \ {c(T)}])
    <3>1. CASE T = {}
      BY <2>1, <2>3, <2>5, <3>1 DEF Parts
    <3>2. CASE T # {}
      <4>1. v[T \ {c(T)}] = u[T \ {c(T)}]
        BY <2>2, <2>5, <3>2
      <4>2. T \in UpTo(S, n) => u[T] = f[c(T)] + u[T \ {c(T)}]
        BY <2>1, <3>2 DEF Parts, c
      <4>3. v[T] = f[c(T)] + u[T \ {c(T)}]
        BY <4>2
      <4>4. QED
        BY <3>2, <4>1, <4>3
    <3>3. QED
      BY <3>1, <3>2
  <2>7. v \in [UpTo(S, n + 1) -> Int]
    BY <2>4
  <2>8. Parts(v, f, UpTo(S, n + 1))
    <3>. HIDE DEF v
    <3>1. QED
      BY <2>6, <2>7 DEF Parts, c
  <2>9. QED
    BY <2>8
<1>3. Nat \subseteq P
  <2>. HIDE DEF P
  <2>1. QED
    BY <1>1, <1>2, InductiveSet
<1>4. UpTo(S, Cardinality(S)) = SUBSET S
  BY FS_Subset DEF UpTo
<1>5. Cardinality(S) \in Nat
  BY FS_CardinalityType
<1>6. QED
  BY <1>3, <1>4, <1>5

(* The sum over a set is the last of its parts. *)
LEMMA SumIsPart ==
  ASSUME NEW S, IsFiniteSet(S), NEW f \in [S -> Int]
  PROVE  \E u : Parts(u, f, SUBSET S) /\ SumFunctionOnSet(f, S) = u[S]
<1>. DEFINE Again(g) == [T \in SUBSET S |->
                          IF T = {} THEN 0
                          ELSE f[CHOOSE x \in T : TRUE] + g[T \ {CHOOSE x \in T : TRUE}]]
            fold == CHOOSE g : g = Again(g)
<1>1. PICK u : Parts(u, f, SUBSET S)
  BY PartsExist
<1>2. u = Again(u)
  <2>1. u \in [SUBSET S -> Int]
    BY <1>1 DEF Parts
  <2>2. \A T \in SUBSET S : u[T] = Again(u)[T]
    BY <1>1 DEF Parts
  <2>3. QED
    BY <2>1, <2>2
<1>3. fold = Again(fold)
  BY <1>2
<1>4. SumFunctionOnSet(f, S) = fold[S]
  BY DEF SumFunctionOnSet, FoldFunctionOnSet, MapThenFoldSet
<1>. HIDE DEF fold
<1>5. \A T \in SUBSET S :
        fold[T] = (IF T = {} THEN 0
                   ELSE f[CHOOSE x \in T : TRUE] + fold[T \ {CHOOSE x \in T : TRUE}])
  BY <1>3, Zenon
<1>6. fold[S] = u[S]
  <2>. DEFINE P == {n \in Nat : \A T \in SUBSET S : Cardinality(T) <= n => fold[T] = u[T]}
  <2>1. 0 \in P
    <3>1. \A T \in SUBSET S : Cardinality(T) <= 0 => T = {}
      BY NoneLeft
    <3>2. QED
      BY <1>1, <1>5, <3>1 DEF Parts
  <2>2. ASSUME NEW n \in Nat, n \in P PROVE n + 1 \in P
    <3>1. SUFFICES ASSUME NEW T \in SUBSET S, Cardinality(T) <= n + 1 PROVE fold[T] = u[T]
      OBVIOUS
    <3>2. CASE T = {}
      BY <1>1, <1>5, <3>2 DEF Parts
    <3>3. CASE T # {}
      <4>1. PICK x \in T : x = CHOOSE y \in T : TRUE
        BY <3>3
      <4>2. T \ {x} \in SUBSET S /\ Cardinality(T \ {x}) <= n
        BY <3>1, LessOne
      <4>3. fold[T \ {x}] = u[T \ {x}]
        BY <2>2, <4>2
      <4>4. fold[T] = f[x] + fold[T \ {x}] /\ u[T] = f[x] + u[T \ {x}]
        BY <1>1, <1>5, <3>3, <4>1 DEF Parts
      <4>5. QED
        BY <4>3, <4>4
    <3>4. QED
      BY <3>2, <3>3
  <2>3. Nat \subseteq P
    <3>. HIDE DEF P
    <3>1. QED
      BY <2>1, <2>2, InductiveSet
  <2>4. Cardinality(S) \in Nat /\ S \in SUBSET S
    BY FS_CardinalityType
  <2>5. QED
    BY <2>3, <2>4
<1>7. QED
  BY <1>1, <1>4, <1>6

(* The order in which a sum is taken does not matter. *)
LEMMA PartsWithout ==
  ASSUME NEW S, IsFiniteSet(S), NEW f \in [S -> Int], NEW u, Parts(u, f, SUBSET S),
         NEW A \in SUBSET S, NEW a \in A
  PROVE  u[A] = f[a] + u[A \ {a}]
<1>. DEFINE P == {n \in Nat : \A T \in SUBSET S : \A x \in T :
                     Cardinality(T) <= n => u[T] = f[x] + u[T \ {x}]}
<1>1. 0 \in P
  <2>1. \A T \in SUBSET S : Cardinality(T) <= 0 => T = {}
    BY NoneLeft
  <2>2. QED
    BY <2>1
<1>2. ASSUME NEW n \in Nat, n \in P PROVE n + 1 \in P
  <2>1. SUFFICES ASSUME NEW T \in SUBSET S, NEW x \in T, Cardinality(T) <= n + 1
        PROVE  u[T] = f[x] + u[T \ {x}]
    OBVIOUS
  <2>2. PICK y \in T : y = CHOOSE z \in T : TRUE
    OBVIOUS
  <2>3. u[T] = f[y] + u[T \ {y}]
    BY <2>2 DEF Parts
  <2>4. CASE x = y
    BY <2>3, <2>4
  <2>5. CASE x # y
    <3>. DEFINE B == T \ {x}
                C == T \ {y}
    <3>1. B \in SUBSET S /\ C \in SUBSET S /\ y \in B /\ x \in C /\ B \ {y} = C \ {x}
      BY <2>5
    <3>2. Cardinality(B) <= n /\ Cardinality(C) <= n
      BY <2>1, LessOne
    <3>. HIDE DEF B, C
    <3>3. u[B] = f[y] + u[B \ {y}] /\ u[C] = f[x] + u[C \ {x}]
      BY <1>2, <3>1, <3>2
    <3>4. u[B \ {y}] \in Int /\ f[x] \in Int /\ f[y] \in Int
      BY <3>1 DEF Parts
    <3>5. u[T] = f[y] + u[C]
      BY <2>3 DEF C
    <3>6. u[T] = f[x] + u[B]
      <4>1. PICK z \in Int : z = u[B \ {y}]
        BY <3>4
      <4>2. u[B] = f[y] + z /\ u[T] = f[y] + (f[x] + z)
        BY <3>1, <3>3, <3>5, <4>1
      <4>3. QED
        BY <3>4, <4>2
    <3>7. QED
      BY <3>6 DEF B
  <2>6. QED
    BY <2>4, <2>5
<1>3. Nat \subseteq P
  <2>. HIDE DEF P
  <2>1. QED
    BY <1>1, <1>2, InductiveSet
<1>4. IsFiniteSet(A) /\ Cardinality(A) \in Nat
  BY FS_Subset, FS_CardinalityType
<1>5. QED
  BY <1>3, <1>4

(* Functions that agree on a set have the same sum over it. *)
LEMMA PartsAgree ==
  ASSUME NEW S, IsFiniteSet(S), NEW f \in [S -> Int], NEW g \in [S -> Int],
         NEW u, Parts(u, f, SUBSET S), NEW w, Parts(w, g, SUBSET S),
         NEW A \in SUBSET S, \A x \in A : f[x] = g[x]
  PROVE  u[A] = w[A]
<1>. DEFINE P == {n \in Nat : \A T \in SUBSET A : Cardinality(T) <= n => u[T] = w[T]}
<1>1. 0 \in P
  <2>1. \A T \in SUBSET A : Cardinality(T) <= 0 => T = {}
    <3>1. \A T \in SUBSET A : T \in SUBSET S
      OBVIOUS
    <3>2. QED
      BY <3>1, NoneLeft
  <2>2. QED
    BY <2>1 DEF Parts
<1>2. ASSUME NEW n \in Nat, n \in P PROVE n + 1 \in P
  <2>1. SUFFICES ASSUME NEW T \in SUBSET A, Cardinality(T) <= n + 1 PROVE u[T] = w[T]
    OBVIOUS
  <2>2. CASE T = {}
    BY <2>2 DEF Parts
  <2>3. CASE T # {}
    <3>1. PICK x \in T : x = CHOOSE y \in T : TRUE
      BY <2>3
    <3>2. T \in SUBSET S
      OBVIOUS
    <3>3. T \ {x} \in SUBSET A /\ Cardinality(T \ {x}) <= n
      BY <2>1, <3>2, LessOne
    <3>4. u[T \ {x}] = w[T \ {x}]
      BY <1>2, <3>3
    <3>5. u[T] = f[x] + u[T \ {x}] /\ w[T] = g[x] + w[T \ {x}]
      BY <2>3, <3>1, <3>2 DEF Parts
    <3>6. QED
      BY <3>4, <3>5
  <2>4. QED
    BY <2>2, <2>3
<1>3. Nat \subseteq P
  <2>. HIDE DEF P
  <2>1. QED
    BY <1>1, <1>2, InductiveSet
<1>4. IsFiniteSet(A) /\ Cardinality(A) \in Nat /\ A \in SUBSET A
  BY FS_Subset, FS_CardinalityType
<1>5. QED
  BY <1>3, <1>4

LEMMA SumWithout ==
  ASSUME NEW S, IsFiniteSet(S), NEW f \in [S -> Int], NEW a \in S
  PROVE  \E u : /\ Parts(u, f, SUBSET S)
                /\ SumFunctionOnSet(f, S) = f[a] + u[S \ {a}] /\ u[S \ {a}] \in Int
<1>1. PICK u : Parts(u, f, SUBSET S) /\ SumFunctionOnSet(f, S) = u[S]
  BY SumIsPart
<1>2. PICK A \in SUBSET S : A = S /\ a \in A
  OBVIOUS
<1>3. u[A] = f[a] + u[A \ {a}]
  BY <1>1, <1>2, PartsWithout
<1>4. u[A \ {a}] \in Int
  BY <1>1 DEF Parts
<1>5. QED
  BY <1>1, <1>2, <1>3, <1>4

(* A sum over a set changes by as much as one of its terms. *)
LEMMA SumChanged ==
  ASSUME NEW S, IsFiniteSet(S), NEW f \in [S -> Int], NEW g \in [S -> Int], NEW a \in S,
         \A x \in S : x # a => f[x] = g[x]
  PROVE  /\ SumFunctionOnSet(f, S) \in Int
         /\ SumFunctionOnSet(g, S) = SumFunctionOnSet(f, S) - f[a] + g[a]
<1>1. PICK u : /\ Parts(u, f, SUBSET S)
              /\ SumFunctionOnSet(f, S) = f[a] + u[S \ {a}] /\ u[S \ {a}] \in Int
  BY SumWithout
<1>2. PICK w : /\ Parts(w, g, SUBSET S)
              /\ SumFunctionOnSet(g, S) = g[a] + w[S \ {a}] /\ w[S \ {a}] \in Int
  BY SumWithout
<1>3. u[S \ {a}] = w[S \ {a}]
  <2>. DEFINE A == S \ {a}
  <2>1. A \in SUBSET S /\ \A x \in A : f[x] = g[x]
    OBVIOUS
  <2>2. Parts(u, f, SUBSET S) /\ Parts(w, g, SUBSET S)
    BY <1>1, <1>2
  <2>. HIDE DEF A
  <2>3. u[A] = w[A]
    BY <2>1, <2>2, PartsAgree
  <2>4. QED
    BY <2>3 DEF A
<1>4. f[a] \in Int /\ g[a] \in Int
  OBVIOUS
<1>5. QED
  BY <1>1, <1>2, <1>3, <1>4

(* The sum of zeros. *)
LEMMA SumOfZeros ==
  ASSUME NEW S, IsFiniteSet(S), NEW f \in [S -> Int], \A x \in S : f[x] = 0
  PROVE  SumFunctionOnSet(f, S) = 0
<1>1. PICK u : Parts(u, f, SUBSET S) /\ SumFunctionOnSet(f, S) = u[S]
  BY SumIsPart
<1>. DEFINE w == [T \in SUBSET S |-> 0]
<1>2. Parts(w, f, SUBSET S)
  <2>1. \A T \in SUBSET S : T # {} => (CHOOSE x \in T : TRUE) \in S
    OBVIOUS
  <2>2. \A T \in SUBSET S : T # {} => f[CHOOSE x \in T : TRUE] = 0
    BY <2>1
  <2>3. w \in [SUBSET S -> Int]
    OBVIOUS
  <2>4. QED
    BY <2>2, <2>3 DEF Parts
<1>3. PICK v : v = w
  OBVIOUS
<1>4. v[S] = 0 /\ Parts(v, f, SUBSET S) /\ S \in SUBSET S
  BY <1>2, <1>3
<1>5. u[S] = v[S]
  BY <1>1, <1>4, PartsAgree
<1>6. QED
  BY <1>1, <1>4, <1>5

-----------------------------------------------------------------------------
(* Sequences: what an operation lists, and that it lists it once *)

(* One more request at the end. *)
LEMMA AppendLists ==
  ASSUME NEW S, NEW q \in Seq(S), NEW r \in S
  PROVE  /\ Append(q, r) \in Seq(S)
         /\ Range(Append(q, r)) = Range(q) \cup {r}
         /\ IsInjective(q) /\ r \notin Range(q) => IsInjective(Append(q, r))
<1>. DEFINE s == Append(q, r)
<1>1. /\ s \in Seq(S) /\ DOMAIN s = 1 .. Len(q) + 1 /\ DOMAIN q = 1 .. Len(q)
      /\ s[Len(q) + 1] = r /\ \A i \in 1 .. Len(q) : s[i] = q[i]
      /\ Len(q) \in Nat
  OBVIOUS
<1>. HIDE DEF s
<1>2. Range(s) = Range(q) \cup {r}
  <2>1. ASSUME NEW x \in Range(s) PROVE x \in Range(q) \cup {r}
    <3>1. PICK i \in DOMAIN s : x = s[i]
      BY DEF Range
    <3>2. i = Len(q) + 1 \/ i \in 1 .. Len(q)
      BY <1>1
    <3>3. QED
      BY <1>1, <3>1, <3>2 DEF Range
  <2>2. ASSUME NEW x \in Range(q) PROVE x \in Range(s)
    <3>1. PICK i \in DOMAIN q : x = q[i]
      BY DEF Range
    <3>2. i \in DOMAIN s /\ s[i] = x
      BY <1>1, <3>1
    <3>3. QED
      BY <3>2 DEF Range
  <2>3. r \in Range(s)
    <3>1. Len(q) + 1 \in DOMAIN s
      BY <1>1
    <3>2. QED
      BY <1>1, <3>1 DEF Range
  <2>4. QED
    BY <2>1, <2>2, <2>3
<1>3. ASSUME IsInjective(q), r \notin Range(q) PROVE IsInjective(s)
  <2>1. \A i \in 1 .. Len(q) : q[i] # r
    BY <1>1, <1>3 DEF Range
  <2>2. SUFFICES ASSUME NEW i \in DOMAIN s, NEW j \in DOMAIN s, s[i] = s[j] PROVE i = j
    BY DEF IsInjective
  <2>3. /\ i = Len(q) + 1 \/ i \in 1 .. Len(q)
        /\ j = Len(q) + 1 \/ j \in 1 .. Len(q)
    BY <1>1
  <2>4. QED
    BY <1>1, <1>3, <2>1, <2>2, <2>3 DEF IsInjective
<1>4. QED
  BY <1>1, <1>2, <1>3 DEF s

(* Two queues without a common request, one behind the other. *)
LEMMA ConcatLists ==
  ASSUME NEW S, NEW p \in Seq(S), NEW q \in Seq(S)
  PROVE  /\ p \o q \in Seq(S)
         /\ Range(p \o q) = Range(p) \cup Range(q)
         /\ IsInjective(p) /\ IsInjective(q) /\ Range(p) \cap Range(q) = {} => IsInjective(p \o q)
<1>. DEFINE s == p \o q
<1>1. /\ s \in Seq(S) /\ DOMAIN s = 1 .. Len(p) + Len(q)
      /\ DOMAIN p = 1 .. Len(p) /\ DOMAIN q = 1 .. Len(q)
      /\ Len(p) \in Nat /\ Len(q) \in Nat
      /\ \A i \in 1 .. Len(p) : s[i] = p[i]
      /\ \A i \in 1 .. Len(q) : s[Len(p) + i] = q[i]
  OBVIOUS
<1>. HIDE DEF s
<1>2. ASSUME NEW i \in DOMAIN s
      PROVE  \/ i \in 1 .. Len(p) /\ s[i] = p[i]
             \/ i - Len(p) \in 1 .. Len(q) /\ s[i] = q[i - Len(p)]
  <2>1. CASE i \in 1 .. Len(p)
    BY <1>1, <2>1
  <2>2. CASE i \notin 1 .. Len(p)
    <3>1. i - Len(p) \in 1 .. Len(q) /\ i = Len(p) + (i - Len(p))
      BY <1>1, <2>2
    <3>2. QED
      BY <1>1, <3>1
  <2>3. QED
    BY <2>1, <2>2
<1>3. Range(s) = Range(p) \cup Range(q)
  <2>1. ASSUME NEW x \in Range(s) PROVE x \in Range(p) \cup Range(q)
    BY <1>1, <1>2 DEF Range
  <2>2. ASSUME NEW x \in Range(p) PROVE x \in Range(s)
    <3>1. PICK i \in 1 .. Len(p) : x = p[i]
      BY <1>1 DEF Range
    <3>2. i \in DOMAIN s /\ s[i] = x
      BY <1>1, <3>1
    <3>3. QED
      BY <3>2 DEF Range
  <2>3. ASSUME NEW x \in Range(q) PROVE x \in Range(s)
    <3>1. PICK i \in 1 .. Len(q) : x = q[i]
      BY <1>1 DEF Range
    <3>2. Len(p) + i \in DOMAIN s /\ s[Len(p) + i] = x
      BY <1>1, <3>1
    <3>3. QED
      BY <3>2 DEF Range
  <2>4. QED
    BY <2>1, <2>2, <2>3
<1>4. ASSUME IsInjective(p), IsInjective(q), Range(p) \cap Range(q) = {} PROVE IsInjective(s)
  <2>1. \A i \in 1 .. Len(p), j \in 1 .. Len(q) : p[i] # q[j]
    BY <1>1, <1>4 DEF Range
  <2>2. SUFFICES ASSUME NEW i \in DOMAIN s, NEW j \in DOMAIN s, s[i] = s[j] PROVE i = j
    BY DEF IsInjective
  <2>3. CASE i \in 1 .. Len(p) /\ s[i] = p[i]
    <3>1. j \in 1 .. Len(p) /\ s[j] = p[j]
      BY <1>2, <2>1, <2>2, <2>3
    <3>2. QED
      BY <1>1, <1>4, <2>2, <2>3, <3>1 DEF IsInjective
  <2>4. CASE i - Len(p) \in 1 .. Len(q) /\ s[i] = q[i - Len(p)]
    <3>1. j - Len(p) \in 1 .. Len(q) /\ s[j] = q[j - Len(p)]
      BY <1>2, <2>1, <2>2, <2>4
    <3>2. i - Len(p) = j - Len(p)
      BY <1>1, <1>4, <2>2, <2>4, <3>1 DEF IsInjective
    <3>3. i \in Int /\ j \in Int /\ Len(p) \in Int
      BY <1>1
    <3>4. QED
      BY <3>2, <3>3
  <2>5. QED
    BY <1>2, <2>3, <2>4
<1>5. QED
  BY <1>1, <1>3, <1>4 DEF s

(* The first request of a queue, and what is left without it. *)
LEMMA TailLists ==
  ASSUME NEW S, NEW q \in Seq(S), q # <<>>
  PROVE  /\ Head(q) \in Range(q) /\ Tail(q) \in Seq(S)
         /\ IsInjective(q) => IsInjective(Tail(q)) /\ Range(Tail(q)) = Range(q) \ {Head(q)}
<1>. DEFINE s == Tail(q)
<1>1. /\ s \in Seq(S) /\ DOMAIN s = 1 .. Len(q) - 1 /\ DOMAIN q = 1 .. Len(q)
      /\ Len(q) \in Nat \ {0} /\ Head(q) = q[1]
      /\ \A i \in 1 .. Len(q) - 1 : s[i] = q[i + 1]
  OBVIOUS
<1>. HIDE DEF s
<1>2. 1 \in DOMAIN q
  BY <1>1
<1>3. ASSUME IsInjective(q) PROVE IsInjective(s) /\ Range(s) = Range(q) \ {Head(q)}
  <2>1. ASSUME NEW i \in DOMAIN s PROVE i + 1 \in DOMAIN q /\ s[i] = q[i + 1] /\ s[i] # q[1]
    <3>1. i + 1 \in DOMAIN q /\ s[i] = q[i + 1] /\ i + 1 # 1
      BY <1>1
    <3>2. QED
      BY <1>2, <1>3, <3>1 DEF IsInjective
  <2>2. IsInjective(s)
    <3>1. SUFFICES ASSUME NEW i \in DOMAIN s, NEW j \in DOMAIN s, s[i] = s[j] PROVE i = j
      BY DEF IsInjective
    <3>2. i + 1 = j + 1
      BY <1>3, <2>1, <3>1 DEF IsInjective
    <3>3. i \in Int /\ j \in Int
      BY <1>1
    <3>4. QED
      BY <3>2, <3>3
  <2>3. ASSUME NEW x \in Range(s) PROVE x \in Range(q) \ {Head(q)}
    BY <1>1, <2>1 DEF Range
  <2>4. ASSUME NEW x \in Range(q) \ {Head(q)} PROVE x \in Range(s)
    <3>1. PICK i \in DOMAIN q : x = q[i]
      BY DEF Range
    <3>2. i - 1 \in 1 .. Len(q) - 1 /\ i = (i - 1) + 1
      BY <1>1, <2>4, <3>1
    <3>3. i - 1 \in DOMAIN s /\ s[i - 1] = x
      BY <1>1, <3>1, <3>2
    <3>4. QED
      BY <3>3 DEF Range
  <2>5. QED
    BY <2>2, <2>3, <2>4
<1>4. Head(q) \in Range(q)
  BY <1>1, <1>2 DEF Range
<1>5. QED
  BY <1>1, <1>3, <1>4 DEF s

LEMMA LastListed ==
  ASSUME NEW S, NEW q \in Seq(S), q # <<>>
  PROVE  Last(q) \in Range(q)
<1>1. Len(q) \in DOMAIN q
  OBVIOUS
<1>2. QED
  BY <1>1 DEF Last, Range

(* A queue without repetitions has as many places as requests. *)
LEMMA LengthIsCardinality ==
  ASSUME NEW S, NEW q \in Seq(S), IsInjective(q)
  PROVE  IsFiniteSet(Range(q)) /\ Cardinality(Range(q)) = Len(q)
<1>1. IsFiniteSet(1 .. Len(q)) /\ Cardinality(1 .. Len(q)) = Len(q)
  <2>1. Len(q) \in Nat
    OBVIOUS
  <2>2. QED
    BY <2>1, FS_Interval
<1>2. q \in Bijection(1 .. Len(q), Range(q))
  <2>1. DOMAIN q = 1 .. Len(q) /\ q \in [1 .. Len(q) -> Range(q)]
    BY DEF Range
  <2>2. \A x \in Range(q) : \E i \in 1 .. Len(q) : q[i] = x
    BY <2>1 DEF Range
  <2>3. \A i, j \in 1 .. Len(q) : q[i] = q[j] => i = j
    BY <2>1 DEF IsInjective
  <2>4. q \in Injection(1 .. Len(q), Range(q))
    BY <2>1 DEF Injection
  <2>5. q \in Surjection(1 .. Len(q), Range(q))
    BY <2>1, <2>2 DEF Surjection
  <2>6. QED
    BY <2>4, <2>5 DEF Bijection
<1>3. ExistsBijection(1 .. Len(q), Range(q))
  BY <1>2 DEF ExistsBijection
<1>4. QED
  BY <1>1, <1>3, FS_Bijection

LEMMA ConcatPlaces ==
  ASSUME NEW S, NEW p \in Seq(S), NEW q \in Seq(S), NEW i \in 1 .. Len(p) + Len(q)
  PROVE  (p \o q)[i] = IF i <= Len(p) THEN p[i] ELSE q[i - Len(p)]
OBVIOUS

LEMMA BehindCut ==
  ASSUME NEW n \in Nat, NEW m \in Nat, NEW i \in 1 .. n - 1, i > m, m < n
  PROVE  /\ i - m \in 1 .. n - (m + 1) /\ i - m = i - (m + 1) + 1
         /\ i <= m + (n - (m + 1)) /\ (i - m) + (m + 1) = i + 1
OBVIOUS

(* One element less. *)
LEMMA RemoveAtLists ==
  ASSUME NEW S, NEW q \in Seq(S), NEW k \in DOMAIN q
  PROVE  /\ RemoveAt(q, k) \in Seq(S) /\ Len(RemoveAt(q, k)) = Len(q) - 1
         /\ \A i \in 1 .. Len(q) - 1 : RemoveAt(q, k)[i] = (IF i < k THEN q[i] ELSE q[i + 1])
         /\ IsInjective(q) => /\ IsInjective(RemoveAt(q, k))
                              /\ Range(RemoveAt(q, k)) = Range(q) \ {q[k]}
<1>. DEFINE s == RemoveAt(q, k)
            a == SubSeq(q, 1, k - 1)
            b == SubSeq(q, k + 1, Len(q))
<1>1. Len(q) \in Nat /\ k \in 1 .. Len(q) /\ DOMAIN q = 1 .. Len(q) /\ \A i \in 1 .. Len(q) : q[i] \in S
  OBVIOUS
<1>2. /\ a \in Seq(S) /\ Len(a) = k - 1 /\ \A i \in 1 .. k - 1 : a[i] = q[i]
  BY <1>1
<1>3. /\ b \in Seq(S) /\ Len(b) = Len(q) - k
      /\ \A i \in 1 .. Len(q) - k : b[i] = q[i + k]
  BY <1>1
<1>. HIDE DEF a, b
<1>4. s = a \o b
  BY DEF RemoveAt, a, b
<1>. HIDE DEF s
<1>5. s \in Seq(S) /\ Len(s) = Len(q) - 1 /\ DOMAIN s = 1 .. Len(q) - 1
  <2>1. s \in Seq(S) /\ Len(s) = Len(a) + Len(b)
    <3>1. a \in Seq(S) /\ b \in Seq(S)
      BY <1>2, <1>3
    <3>2. a \o b \in Seq(S) /\ Len(a \o b) = Len(a) + Len(b)
      BY <3>1
    <3>3. QED
      BY <1>4, <3>2
  <2>2. Len(a) + Len(b) = Len(q) - 1
    BY <1>1, <1>2, <1>3
  <2>3. DOMAIN s = 1 .. Len(s)
    BY <2>1
  <2>4. QED
    BY <2>1, <2>2, <2>3
<1>6. \A i \in 1 .. Len(q) - 1 : s[i] = (IF i < k THEN q[i] ELSE q[i + 1])
  <2>1. SUFFICES ASSUME NEW i \in 1 .. Len(q) - 1 PROVE s[i] = (IF i < k THEN q[i] ELSE q[i + 1])
    OBVIOUS
  <2>2. CASE i < k
    <3>1. i \in 1 .. k - 1 /\ i <= Len(a)
      BY <1>1, <1>2, <2>1, <2>2
    <3>2. (a \o b)[i] = a[i]
      <4>1. i \in 1 .. Len(a) + Len(b)
        BY <1>1, <1>2, <1>3, <3>1
      <4>2. QED
        BY <1>2, <1>3, <3>1, <4>1, ConcatPlaces
    <3>3. QED
      BY <1>2, <1>4, <2>2, <3>1, <3>2
  <2>3. CASE ~(i < k)
    <3>1. i - Len(a) \in 1 .. Len(q) - k /\ i - Len(a) = i - k + 1 /\ i > Len(a) /\ i <= Len(a) + Len(b)
      <4>1. PICK n \in Nat : n = Len(q)
        BY <1>1
      <4>2. PICK m \in Nat : m = k - 1
        BY <1>1
      <4>3. Len(a) = m /\ Len(b) = n - k /\ i \in 1 .. n - 1 /\ k = m + 1 /\ i > m /\ m < n
        BY <1>1, <1>2, <1>3, <2>1, <2>3, <4>1, <4>2
      <4>4. i - m \in 1 .. n - k /\ i - m = i - k + 1 /\ i <= m + (n - k)
        BY <4>3, BehindCut
      <4>5. QED
        BY <4>1, <4>3, <4>4
    <3>2. (a \o b)[i] = b[i - Len(a)]
      <4>1. i \in 1 .. Len(a) + Len(b) /\ ~(i <= Len(a))
        BY <1>1, <1>2, <1>3, <3>1
      <4>2. QED
        BY <1>2, <1>3, <4>1, ConcatPlaces
    <3>3. b[i - Len(a)] = q[(i - Len(a)) + k]
      BY <1>3, <3>1
    <3>4. (i - Len(a)) + k = i + 1
      BY <1>1, <3>1
    <3>5. QED
      BY <1>4, <2>3, <3>2, <3>3, <3>4
  <2>4. QED
    BY <2>2, <2>3
<1>7. ASSUME IsInjective(q) PROVE IsInjective(s) /\ Range(s) = Range(q) \ {q[k]}
  <2>. DEFINE from(i) == IF i < k THEN i ELSE i + 1
  <2>1. \A i \in DOMAIN s : from(i) \in DOMAIN q /\ from(i) # k /\ s[i] = q[from(i)]
    BY <1>1, <1>5, <1>6
  <2>2. \A i, j \in DOMAIN s : from(i) = from(j) => i = j
    BY <1>1, <1>5
  <2>3. \A j \in DOMAIN q : j # k => \E i \in DOMAIN s : from(i) = j
    <3>1. SUFFICES ASSUME NEW j \in DOMAIN q, j # k PROVE \E i \in DOMAIN s : from(i) = j
      OBVIOUS
    <3>2. CASE j < k
      BY <1>1, <1>5, <3>1, <3>2
    <3>3. CASE j > k
      <4>1. j - 1 \in DOMAIN s /\ from(j - 1) = j
        BY <1>1, <1>5, <3>1, <3>3
      <4>2. QED
        BY <4>1
    <3>4. QED
      BY <1>1, <3>1, <3>2, <3>3
  <2>. HIDE DEF from
  <2>4. IsInjective(s)
    BY <1>7, <2>1, <2>2 DEF IsInjective
  <2>5. \A x : x \in Range(s) <=> x \in Range(q) \ {q[k]}
    <3>1. ASSUME NEW x \in Range(s) PROVE x \in Range(q) \ {q[k]}
      <4>1. PICK i \in DOMAIN s : x = s[i]
        BY DEF Range
      <4>2. from(i) \in DOMAIN q /\ from(i) # k /\ x = q[from(i)]
        BY <2>1, <4>1
      <4>3. QED
        BY <1>1, <1>7, <4>2 DEF IsInjective, Range
    <3>2. ASSUME NEW x \in Range(q) \ {q[k]} PROVE x \in Range(s)
      <4>1. PICK j \in DOMAIN q : x = q[j] /\ j # k
        BY DEF Range
      <4>2. PICK i \in DOMAIN s : from(i) = j
        BY <2>3, <4>1
      <4>3. QED
        BY <2>1, <4>1, <4>2 DEF Range
    <3>3. QED
      BY <3>1, <3>2
  <2>6. QED
    BY <2>4, <2>5
<1>8. QED
  BY <1>5, <1>6, <1>7 DEF s
==============================================================================
