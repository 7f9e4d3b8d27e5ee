----------------------------- MODULE FoldProofs -----------------------------
(***************************************************************************)
(* Induction for the proofs about other modules.                           *)
(*                                                                         *)
(* FoldLeft keeps what its step keeps (FoldInduction).  The step and what  *)
(* holds are constants of this module: a proof about a fold makes an       *)
(* instance of it with both, F == INSTANCE FoldProofs WITH ..., and uses   *)
(* F!FoldInduction.  The first argument of each is a parameter.            *)
(*                                                                         *)
(* An instance takes along all that the module extends, so it extends as   *)
(* little as it can: Folded is FoldLeft of the community modules, written  *)
(* out.                                                                    *)
(***************************************************************************)
EXTENDS WellFoundedInduction, TLAPS

CONSTANTS
    FoldStep(_, _, _),      \* parameter, value so far, next item
    FoldHolds(_, _, _)      \* parameter, number of items, value

Greatest(S) == CHOOSE x \in S : \A y \in S : x >= y

(* FoldLeft(LAMBDA a, x : FoldStep(p, a, x), base, seq)                      *)
Folded(p, base, seq) ==
    LET iter[s \in SUBSET DOMAIN seq] ==
          IF s = {} THEN base ELSE FoldStep(p, iter[s \ {Greatest(s)}], seq[Greatest(s)])
    IN  iter[DOMAIN seq]

(* Numbers are well ordered, from below and, below a bound, from above.      *)
LEMMA LeastNumber ==
    ASSUME NEW T \in SUBSET Nat, T # {}
    PROVE  \E i \in T : \A j \in T : i <= j
<1> DEFINE R == OpToRel(<, Nat)
<1>1. PICK i \in T : \A j \in T : ~(<<j, i>> \in R)
  <2>1. IsWellFoundedOn(R, Nat)
    BY NatLessThanWellFounded
  <2> HIDE DEF R
  <2> QED BY <2>1, WFMin
<1>2. \A j \in T : ~(j < i)
  BY <1>1 DEF OpToRel
<1> QED BY <1>2

LEMMA Extremes ==
    ASSUME NEW n \in Nat, NEW S \in SUBSET (0 .. n), S # {}
    PROVE  /\ \E i \in S : \A j \in S : i <= j
           /\ Greatest(S) \in S /\ \A j \in S : j <= Greatest(S)
<1>1. \A T \in SUBSET (0 .. n) : T # {} => \E i \in T : \A j \in T : i <= j
  <2> SUFFICES ASSUME NEW T \in SUBSET (0 .. n), T # {} PROVE \E i \in T : \A j \in T : i <= j
    OBVIOUS
  <2>1. T \in SUBSET Nat
    OBVIOUS
  <2> QED BY <2>1, LeastNumber
<1>2. \E i \in S : \A j \in S : j <= i
  <2> DEFINE T == {n - j : j \in S}
  <2>1. T \in SUBSET (0 .. n) /\ T # {}
    <3>1. \A j \in S : j \in 0 .. n
      OBVIOUS
    <3>2. \A j \in S : n - j \in 0 .. n
      BY <3>1
    <3> QED BY <3>2
  <2>2. PICK t \in T : \A u \in T : t <= u
    BY <1>1, <2>1
  <2>3. PICK i \in S : t = n - i
    BY <2>2
  <2>4. ASSUME NEW j \in S PROVE j <= i
    <3>1. n - i <= n - j
      BY <2>2, <2>3
    <3>2. i \in 0 .. n /\ j \in 0 .. n
      OBVIOUS
    <3> QED BY <3>1, <3>2
  <2> QED BY <2>4
<1>3. \E i \in S : \A j \in S : i >= j
  BY <1>2
<1>4. Greatest(S) \in S /\ \A j \in S : Greatest(S) >= j
  BY <1>3 DEF Greatest
<1>5. \A j \in S : j \in Int
  OBVIOUS
<1>6. Greatest(S) \in Int
  BY <1>4, <1>5
<1> QED BY <1>1, <1>4, <1>5, <1>6

(* Induction up to a bound.                                                   *)
LEMMA Induction ==
    ASSUME NEW p, NEW n \in Nat, NEW h,
           FoldHolds(p, 0, h), \A k \in 1 .. n : FoldHolds(p, k - 1, h) => FoldHolds(p, k, h)
    PROVE  \A k \in 0 .. n : FoldHolds(p, k, h)
<1> DEFINE B == {k \in 0 .. n : ~FoldHolds(p, k, h)}
<1> SUFFICES ASSUME B # {} PROVE FALSE
  OBVIOUS
<1>1. PICK k \in B : \A j \in B : k <= j
  <2>1. B \in SUBSET (0 .. n)
    OBVIOUS
  <2> HIDE DEF B
  <2> QED BY <2>1, Extremes
<1>2. k # 0 /\ k \in 1 .. n /\ k - 1 \in 0 .. n
  BY <1>1
<1>3. k - 1 \notin B
  BY <1>1, <1>2
<1>4. FoldHolds(p, k - 1, h)
  BY <1>2, <1>3
<1> QED BY <1>1, <1>2, <1>4

(* What Folded computes is well defined: its recursive function exists.     *)
Unrolled(p, base, seq, g, k) ==
    \A s \in SUBSET (1 .. k) :
        g[s] = IF s = {} THEN base ELSE FoldStep(p, g[s \ {Greatest(s)}], seq[Greatest(s)])

IsFold(p, base, seq, n, g) ==
    g = [s \in SUBSET (1 .. n) |->
           IF s = {} THEN base ELSE FoldStep(p, g[s \ {Greatest(s)}], seq[Greatest(s)])]

LEMMA FoldExists ==
    ASSUME NEW p, NEW base, NEW seq, NEW n \in Nat
    PROVE  \E g : IsFold(p, base, seq, n, g)
<1> DEFINE Is(k) == \E g : Unrolled(p, base, seq, g, k)
           B == {k \in 0 .. n : ~Is(k)}
<1>1. Is(0)
  <2> DEFINE g == [s \in {{}} |-> base]
  <2>1. SUBSET (1 .. 0) = {{}}
    OBVIOUS
  <2>2. Unrolled(p, base, seq, g, 0)
    BY <2>1 DEF Unrolled
  <2> QED BY <2>2
<1>2. ASSUME NEW k \in 1 .. n, Is(k - 1) PROVE Is(k)
  <2>1. PICK g : Unrolled(p, base, seq, g, k - 1)
    BY <1>2
  <2> DEFINE f == [s \in SUBSET (1 .. k) |->
                     IF k \in s THEN FoldStep(p, g[s \ {k}], seq[k]) ELSE g[s]]
  <2>2. \A s \in SUBSET (1 .. k) : k \notin s => s \in SUBSET (1 .. k - 1)
    OBVIOUS
  <2>3. \A s \in SUBSET (1 .. k) : s \ {k} \in SUBSET (1 .. k - 1) /\ s \ {k} \in SUBSET (1 .. k) /\ k \notin s \ {k}
    OBVIOUS
  <2>4. \A s \in SUBSET (1 .. k) : k \in s => Greatest(s) = k
    <3> TAKE s \in SUBSET (1 .. k)
    <3> HAVE k \in s
    <3>1. s \in SUBSET (0 .. k) /\ s # {} /\ k \in Nat
      OBVIOUS
    <3>2. Greatest(s) \in s /\ k <= Greatest(s)
      BY <3>1, Extremes
    <3>3. Greatest(s) \in 1 .. k
      BY <3>2
    <3> HIDE DEF f
    <3> QED BY <3>2, <3>3
  <2>5. \A s \in SUBSET (1 .. k - 1) : s # {} => s \ {Greatest(s)} \in SUBSET (1 .. k - 1)
    OBVIOUS
  <2>6. \A s \in SUBSET (1 .. k - 1) : k \notin s /\ s \in SUBSET (1 .. k)
    OBVIOUS
  <2>7. \A s \in SUBSET (1 .. k - 1) : f[s] = g[s]
    BY <2>6
  <2>8. \A s \in SUBSET (1 .. k) : k \in s => f[s] = FoldStep(p, f[s \ {k}], seq[k])
    <3> TAKE s \in SUBSET (1 .. k)
    <3> HAVE k \in s
    <3>1. f[s] = FoldStep(p, g[s \ {k}], seq[k])
      OBVIOUS
    <3>2. f[s \ {k}] = g[s \ {k}]
      BY <2>3, <2>7
    <3> HIDE DEF f
    <3> QED BY <3>1, <3>2
  <2> HIDE DEF f
  <2>9. \A s \in SUBSET (1 .. k - 1) :
            f[s] = IF s = {} THEN base ELSE FoldStep(p, f[s \ {Greatest(s)}], seq[Greatest(s)])
    <3> TAKE s \in SUBSET (1 .. k - 1)
    <3>1. g[s] = IF s = {} THEN base ELSE FoldStep(p, g[s \ {Greatest(s)}], seq[Greatest(s)])
      BY <2>1 DEF Unrolled
    <3>2. f[s] = g[s]
      BY <2>7
    <3>3. s # {} => f[s \ {Greatest(s)}] = g[s \ {Greatest(s)}]
      BY <2>5, <2>7
    <3> QED BY <3>1, <3>2, <3>3
  <2>10. Unrolled(p, base, seq, f, k)
    <3> SUFFICES ASSUME NEW s \in SUBSET (1 .. k)
                 PROVE  f[s] = IF s = {} THEN base ELSE FoldStep(p, f[s \ {Greatest(s)}], seq[Greatest(s)])
      BY DEF Unrolled
    <3>1. CASE k \in s
      <4>1. Greatest(s) = k /\ s # {}
        BY <2>4, <3>1
      <4>2. f[s] = FoldStep(p, f[s \ {k}], seq[k])
        BY <2>8, <3>1
      <4> QED BY <4>1, <4>2
    <3>2. CASE k \notin s
      BY <2>2, <2>9, <3>2
    <3> QED BY <3>1, <3>2
  <2> QED BY <2>10
<1>3. Is(n)
  <2> SUFFICES ASSUME ~Is(n) PROVE FALSE
    OBVIOUS
  <2> HIDE DEF Is
  <2>1. B \in SUBSET (0 .. n) /\ B # {}
    OBVIOUS
  <2>2. PICK k \in B : \A j \in B : k <= j
    <3> HIDE DEF B
    <3> QED BY <2>1, Extremes
  <2>3. k # 0 /\ k \in 1 .. n /\ k - 1 \in 0 .. n
    BY <1>1, <2>2
  <2>4. k - 1 \notin B
    BY <2>2, <2>3
  <2>5. Is(k - 1)
    BY <2>3, <2>4
  <2> QED BY <1>2, <2>2, <2>3, <2>5
<1>4. PICK g : Unrolled(p, base, seq, g, n)
  BY <1>3
<1> DEFINE f == [s \in SUBSET (1 .. n) |-> g[s]]
<1>5. \A s \in SUBSET (1 .. n) : s \ {Greatest(s)} \in SUBSET (1 .. n)
  OBVIOUS
<1>6. \A s \in SUBSET (1 .. n) :
          f[s] = IF s = {} THEN base ELSE FoldStep(p, f[s \ {Greatest(s)}], seq[Greatest(s)])
  <2> TAKE s \in SUBSET (1 .. n)
  <2>1. g[s] = IF s = {} THEN base ELSE FoldStep(p, g[s \ {Greatest(s)}], seq[Greatest(s)])
    BY <1>4 DEF Unrolled
  <2>2. f[s] = g[s] /\ f[s \ {Greatest(s)}] = g[s \ {Greatest(s)}]
    BY <1>5
  <2> HIDE DEF f
  <2> QED BY <2>1, <2>2
<1>7. f = [s \in SUBSET (1 .. n) |-> f[s]]
  OBVIOUS
<1> HIDE DEF f
<1>8. f = [s \in SUBSET (1 .. n) |->
             IF s = {} THEN base ELSE FoldStep(p, f[s \ {Greatest(s)}], seq[Greatest(s)])]
  BY <1>6, <1>7
<1> QED BY <1>8 DEF IsFold

(* Induction along a list: what holds of the base, and of the next value if    *)
(* of this, holds of the fold.                                                 *)
LEMMA FoldInduction ==
    ASSUME NEW p, NEW q, NEW base, NEW seq, NEW n \in Nat, DOMAIN seq = 1 .. n,
           FoldHolds(q, 0, base),
           \A k \in 1 .. n : \A a : FoldHolds(q, k - 1, a) => FoldHolds(q, k, FoldStep(p, a, seq[k]))
    PROVE  FoldHolds(q, n, Folded(p, base, seq))
<1> DEFINE iter == CHOOSE g : g = [s \in SUBSET (1 .. n) |->
                       IF s = {} THEN base ELSE FoldStep(p, g[s \ {Greatest(s)}], seq[Greatest(s)])]
<1>1. Folded(p, base, seq) = iter[1 .. n]
  BY DEF Folded
<1>2. iter = [s \in SUBSET (1 .. n) |->
                 IF s = {} THEN base ELSE FoldStep(p, iter[s \ {Greatest(s)}], seq[Greatest(s)])]
  <2>1. iter = CHOOSE g : IsFold(p, base, seq, n, g)
    BY DEF IsFold
  <2>2. \E g : IsFold(p, base, seq, n, g)
    BY FoldExists
  <2>3. IsFold(p, base, seq, n, iter)
    <3> HIDE DEF iter
    <3> QED BY <2>1, <2>2
  <2> QED BY <2>3 DEF IsFold
<1> HIDE DEF iter
<1> DEFINE B == {k \in 0 .. n : ~FoldHolds(q, k, iter[1 .. k])}
<1>3. \A s \in SUBSET (1 .. n) :
          iter[s] = IF s = {} THEN base ELSE FoldStep(p, iter[s \ {Greatest(s)}], seq[Greatest(s)])
  BY <1>2
<1>4. FoldHolds(q, 0, iter[1 .. 0])
  <2>1. 1 .. 0 = {} /\ 1 .. 0 \in SUBSET (1 .. n)
    OBVIOUS
  <2> QED BY <1>3, <2>1
<1>5. ASSUME NEW k \in 1 .. n, FoldHolds(q, k - 1, iter[1 .. k - 1])
      PROVE  FoldHolds(q, k, iter[1 .. k])
  <2>1. 1 .. k \in SUBSET (1 .. n) /\ 1 .. k # {} /\ k \in 1 .. k
    BY SMTT(30)
  <2>2. Greatest(1 .. k) = k
    <3>1. 1 .. k \in SUBSET (0 .. n) /\ k \in Nat
      OBVIOUS
    <3>2. Greatest(1 .. k) \in 1 .. k /\ k <= Greatest(1 .. k)
      BY <2>1, <3>1, Extremes
    <3> QED BY <3>1, <3>2
  <2>3. (1 .. k) \ {k} = 1 .. k - 1
    OBVIOUS
  <2>4. iter[1 .. k] = FoldStep(p, iter[1 .. k - 1], seq[k])
    BY <1>3, <2>1, <2>2, <2>3
  <2> QED BY <1>5, <2>4
<1>6. FoldHolds(q, n, iter[1 .. n])
  <2> SUFFICES ASSUME ~FoldHolds(q, n, iter[1 .. n]) PROVE FALSE
    OBVIOUS
  <2>1. B \in SUBSET (0 .. n) /\ B # {}
    OBVIOUS
  <2>2. PICK k \in B : \A j \in B : k <= j
    <3> HIDE DEF B
    <3> QED BY <2>1, Extremes
  <2>3. k # 0 /\ k \in 1 .. n /\ k - 1 \in 0 .. n
    BY <1>4, <2>2
  <2>4. k - 1 \notin B
    BY <2>2, <2>3
  <2>5. FoldHolds(q, k - 1, iter[1 .. k - 1])
    BY <2>3, <2>4
  <2> QED BY <1>5, <2>2, <2>3, <2>5
<1> QED BY <1>1, <1>6
=============================================================================
