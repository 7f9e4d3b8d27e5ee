----------------------------- MODULE ListProofs -----------------------------
(***************************************************************************)
(* What the proofs about other modules need of lists.                      *)
(*                                                                         *)
(* Sorted lists every key of a finite set once, in increasing order, and   *)
(* StableOrder takes every item of a list once, in the order of keys.      *)
(* SortedBy leaves no trace of the order before it, if ItemLess tells all  *)
(* items apart (SortedBySorts).  A set is as large as the classes it falls *)
(* into have members together (ClassesSum), and lists that hold each thing *)
(* once can be made longer, joined and sorted (ListsOnce and after it).    *)
(***************************************************************************)
EXTENDS SortedKeys, SequencesExt, FiniteSetTheorems, TLAPS

CONSTANTS
    ItemLess(_, _)      \* what a list is sorted by

(* A strict total order of S, as a set of pairs, and what is below x in it. *)
IsStrictOrder(R, S) ==
    /\ \A x \in S : <<x, x>> \notin R
    /\ \A x, y, z \in S : <<x, y>> \in R /\ <<y, z>> \in R => <<x, z>> \in R
    /\ \A x, y \in S : x # y => <<x, y>> \in R \/ <<y, x>> \in R

Below(R, S, x) == {y \in S : <<y, x>> \in R}
PlaceIn(R, S, x) == Cardinality(Below(R, S, x))

(* Who is greater has more before him.                                       *)
LEMMA PlacesGrow ==
    ASSUME NEW S, IsFiniteSet(S), NEW R, IsStrictOrder(R, S)
    PROVE  /\ \A x \in S : PlaceIn(R, S, x) \in 0 .. Cardinality(S) - 1
           /\ \A x, y \in S : <<x, y>> \in R => PlaceIn(R, S, x) < PlaceIn(R, S, y)
<1>1. \A x \in S : /\ IsFiniteSet(Below(R, S, x)) /\ PlaceIn(R, S, x) \in Nat
                    /\ PlaceIn(R, S, x) <= Cardinality(S) - 1
  <2> TAKE x \in S
  <2>1. /\ IsFiniteSet(S \ {x}) /\ Cardinality(S \ {x}) = Cardinality(S) - 1
    BY FS_RemoveElement
  <2>2. Below(R, S, x) \in SUBSET (S \ {x})
    BY DEF Below, IsStrictOrder
  <2>3. IsFiniteSet(Below(R, S, x)) /\ PlaceIn(R, S, x) <= Cardinality(S \ {x})
    BY <2>1, <2>2, FS_Subset DEF PlaceIn
  <2> QED BY <2>1, <2>3, FS_CardinalityType DEF PlaceIn
<1>2. ASSUME NEW x \in S, NEW y \in S, <<x, y>> \in R PROVE PlaceIn(R, S, x) < PlaceIn(R, S, y)
  <2>1. Below(R, S, x) \in SUBSET Below(R, S, y) /\ x \in Below(R, S, y) /\ x \notin Below(R, S, x)
    BY <1>2 DEF Below, IsStrictOrder
  <2>2. /\ PlaceIn(R, S, x) <= PlaceIn(R, S, y)
        /\ (PlaceIn(R, S, y) = PlaceIn(R, S, x) => Below(R, S, y) = Below(R, S, x))
    BY <1>1, <2>1, FS_Subset DEF PlaceIn
  <2>3. PlaceIn(R, S, x) # PlaceIn(R, S, y)
    BY <2>1, <2>2
  <2> QED BY <1>1, <2>2, <2>3
<1>3. Cardinality(S) \in Nat
  BY FS_CardinalityType
<1> QED BY <1>1, <1>2, <1>3

(* So no two have one place, and who has a lower one is less.                *)
LEMMA PlacesTell ==
    ASSUME NEW S, IsFiniteSet(S), NEW R, IsStrictOrder(R, S), NEW x \in S, NEW y \in S
    PROVE  /\ (PlaceIn(R, S, x) = PlaceIn(R, S, y) => x = y)
           /\ (PlaceIn(R, S, x) < PlaceIn(R, S, y) => <<x, y>> \in R)
<1> DEFINE p == PlaceIn(R, S, x)
           q == PlaceIn(R, S, y)
<1>1. p \in Int /\ q \in Int
  BY PlacesGrow
<1>2. (<<x, y>> \in R => p < q) /\ (<<y, x>> \in R => q < p) /\ (x = y => p = q)
  BY PlacesGrow
<1>3. x = y \/ <<x, y>> \in R \/ <<y, x>> \in R
  BY DEF IsStrictOrder
<1> HIDE DEF p, q
<1>4. (p = q => x = y) /\ (p < q => <<x, y>> \in R)
  BY <1>1, <1>2, <1>3
<1> QED BY <1>4 DEF p, q

(* Every place is taken.                                                     *)
LEMMA PlacesAreTaken ==
    ASSUME NEW S, IsFiniteSet(S), NEW R, IsStrictOrder(R, S), NEW i \in 1 .. Cardinality(S)
    PROVE  \E x \in S : PlaceIn(R, S, x) = i - 1
<1> DEFINE T == 0 .. Cardinality(S) - 1
           f == [x \in S |-> PlaceIn(R, S, x)]
<1>1. Cardinality(S) \in Nat
  BY FS_CardinalityType
<1>2. IsFiniteSet(T) /\ Cardinality(T) = Cardinality(S)
  <2> DEFINE c == Cardinality(S)
  <2>1. c \in Nat /\ 0 \in Int /\ c - 1 \in Int
    BY <1>1
  <2> HIDE DEF c
  <2>2. IsFiniteSet(0 .. c - 1) /\ Cardinality(0 .. c - 1) = IF 0 > c - 1 THEN 0 ELSE c - 1 - 0 + 1
    BY <2>1, FS_Interval
  <2>3. Cardinality(0 .. c - 1) = c
    BY <2>1, <2>2
  <2> QED BY <2>2, <2>3 DEF c
<1>3. f \in Injection(S, T)
  <2>1. f \in [S -> T]
    BY PlacesGrow
  <2>2. \A x, y \in S : f[x] = f[y] => x = y
    BY PlacesTell
  <2> QED BY <2>1, <2>2 DEF Injection, IsInjective
<1>4. f \in Surjection(S, T)
  BY <1>2, <1>3, FS_Injection
<1>5. i - 1 \in T
  BY <1>1
<1> QED BY <1>4, <1>5 DEF Surjection

(* For every finite set of keys: the list has each of them, once, and in     *)
(* increasing order.                                                         *)
THEOREM SortedListsKeys ==
    ASSUME NEW S \in SUBSET Nat, IsFiniteSet(S)
    PROVE  /\ Sorted(S) \in Seq(S) /\ Len(Sorted(S)) = Cardinality(S)
           /\ \A n \in S : \E i \in DOMAIN Sorted(S) : Sorted(S)[i] = n
           /\ \A i, k \in DOMAIN Sorted(S) : i < k => Sorted(S)[i] < Sorted(S)[k]
<1> DEFINE c == Cardinality(S)
           s == Sorted(S)
           R == {e \in S \X S : e[1] < e[2]}
<1>0. c \in Nat
  BY FS_CardinalityType
<1>1. \A m, n \in S : <<m, n>> \in R <=> m < n
  OBVIOUS
<1>2. IsStrictOrder(R, S)
  <2>1. \A m \in S : m \in Nat
    OBVIOUS
  <2> HIDE DEF R
  <2> QED BY <1>1, <2>1 DEF IsStrictOrder
<1>3. /\ DOMAIN s = 1 .. c
      /\ \A i \in 1 .. c : s[i] = CHOOSE n \in S : Cardinality({m \in S : m < n}) = i - 1
  BY DEF Sorted
<1> HIDE DEF R
<1>4. \A n \in S : Cardinality({m \in S : m < n}) = PlaceIn(R, S, n)
  <2> TAKE n \in S
  <2>1. {m \in S : m < n} = Below(R, S, n)
    BY <1>1 DEF Below
  <2> QED BY <2>1 DEF PlaceIn
<1>5. \A i \in 1 .. c : s[i] \in S /\ PlaceIn(R, S, s[i]) = i - 1
  <2> TAKE i \in 1 .. c
  <2>1. \E n \in S : Cardinality({m \in S : m < n}) = i - 1
    <3>1. \E n \in S : PlaceIn(R, S, n) = i - 1
      BY <1>2, PlacesAreTaken
    <3> QED BY <1>4, <3>1
  <2>2. s[i] \in S /\ Cardinality({m \in S : m < s[i]}) = i - 1
    BY <1>3, <2>1
  <2> QED BY <1>4, <2>2
<1>6. s \in [1 .. c -> S]
  BY <1>5 DEF Sorted
<1> HIDE DEF s, c
<1>7. s \in Seq(S) /\ Len(s) = c
  BY <1>0, <1>6
<1>8. ASSUME NEW i \in 1 .. c, NEW k \in 1 .. c, i < k PROVE s[i] < s[k]
  <2>1. PlaceIn(R, S, s[i]) < PlaceIn(R, S, s[k])
    BY <1>0, <1>5, <1>8
  <2> QED BY <1>1, <1>2, <1>5, <2>1, PlacesTell
<1>9. ASSUME NEW n \in S PROVE \E i \in 1 .. c : s[i] = n
  <2>1. PlaceIn(R, S, n) + 1 \in 1 .. c /\ PlaceIn(R, S, n) \in Int
    BY <1>0, <1>2, PlacesGrow DEF c
  <2>2. PICK i \in 1 .. c : i - 1 = PlaceIn(R, S, n)
    BY <1>0, <2>1
  <2>3. s[i] = n
    BY <1>2, <1>5, <2>2, PlacesTell
  <2> QED BY <2>3
<1> QED BY <1>3, <1>7, <1>8, <1>9 DEF s, c

(* A finite set of keys has a least one.                                     *)
LEMMA LeastKey ==
    ASSUME NEW G \in SUBSET Nat, IsFiniteSet(G), G # {}
    PROVE  \E i \in G : \A j \in G : i <= j
<1> DEFINE s == Sorted(G)
<1>1. /\ s \in Seq(G) /\ \A m \in G : \E i \in DOMAIN s : s[i] = m
      /\ \A i, k \in DOMAIN s : i < k => s[i] < s[k]
  BY SortedListsKeys
<1> HIDE DEF s
<1>2. \A i \in DOMAIN s : i \in Nat /\ i >= 1 /\ s[i] \in Nat /\ s[i] \in G
  <2>1. \A i \in DOMAIN s : i \in Nat /\ i >= 1 /\ s[i] \in G
    BY <1>1
  <2> QED BY <2>1
<1>3. 1 \in DOMAIN s
  <2>1. PICK i \in DOMAIN s : TRUE
    BY <1>1
  <2> QED BY <1>1, <2>1
<1>4. \A j \in G : s[1] <= j
  <2> TAKE j \in G
  <2>1. PICK i \in DOMAIN s : s[i] = j
    BY <1>1
  <2>2. i = 1 \/ 1 < i
    BY <1>2
  <2> QED BY <1>1, <1>2, <1>3, <2>1, <2>2
<1> QED BY <1>2, <1>3, <1>4

(* For every list of keys: the order takes each item once, the keys grow,    *)
(* and items with one key stay in order.                                     *)
THEOREM StableOrderSorts ==
    ASSUME NEW n \in Nat, NEW key \in [1 .. n -> Nat]
    PROVE  /\ StableOrder(key) \in [1 .. n -> 1 .. n]
           /\ \A i \in 1 .. n : \E k \in 1 .. n : StableOrder(key)[k] = i
           /\ \A i, k \in 1 .. n : i < k =>
                 \/ key[StableOrder(key)[i]] < key[StableOrder(key)[k]]
                 \/ /\ key[StableOrder(key)[i]] = key[StableOrder(key)[k]]
                    /\ StableOrder(key)[i] < StableOrder(key)[k]
<1> DEFINE S == 1 .. n
           o == StableOrder(key)
           Less(j, i) == key[j] < key[i] \/ (key[j] = key[i] /\ j < i)
           R == {e \in S \X S : Less(e[1], e[2])}
<1>0. IsFiniteSet(S) /\ Cardinality(S) = n
  <2>1. IsFiniteSet(1 .. n) /\ Cardinality(1 .. n) = IF 1 > n THEN 0 ELSE n - 1 + 1
    BY FS_Interval
  <2> QED BY <2>1
<1>1. \A j, i \in S : <<j, i>> \in R <=> Less(j, i)
  OBVIOUS
<1>2. \A i \in S : i \in Nat /\ key[i] \in Nat
  OBVIOUS
<1>3. IsStrictOrder(R, S)
  <2>1. \A j, i, k \in S : /\ ~Less(j, j)
                           /\ Less(j, i) /\ Less(i, k) => Less(j, k)
                           /\ j # i => Less(j, i) \/ Less(i, j)
    BY <1>2
  <2> HIDE DEF R, S, Less
  <2> QED BY <1>1, <2>1 DEF IsStrictOrder
<1>4. /\ DOMAIN o = S
      /\ \A k \in S : o[k] = CHOOSE i \in S : Cardinality({j \in S : Less(j, i)}) = k - 1
  BY DEF StableOrder
<1> HIDE DEF R
<1>5. \A i \in S : Cardinality({j \in S : Less(j, i)}) = PlaceIn(R, S, i)
  <2> TAKE i \in S
  <2>1. {j \in S : Less(j, i)} = Below(R, S, i)
    BY <1>1 DEF Below
  <2> QED BY <2>1 DEF PlaceIn
<1> HIDE DEF Less
<1>6. \A k \in S : o[k] \in S /\ PlaceIn(R, S, o[k]) = k - 1
  <2> TAKE k \in S
  <2>1. \E i \in S : Cardinality({j \in S : Less(j, i)}) = k - 1
    <3>1. k \in 1 .. Cardinality(S)
      BY <1>0
    <3>2. \E i \in S : PlaceIn(R, S, i) = k - 1
      BY <1>0, <1>3, <3>1, PlacesAreTaken
    <3> QED BY <1>5, <3>2
  <2>2. o[k] \in S /\ Cardinality({j \in S : Less(j, o[k])}) = k - 1
    BY <1>4, <2>1
  <2> QED BY <1>5, <2>2
<1>7. o \in [S -> S]
  BY <1>4, <1>6 DEF StableOrder
<1> HIDE DEF o
<1>8. ASSUME NEW i \in S, NEW k \in S, i < k PROVE Less(o[i], o[k])
  <2>1. PlaceIn(R, S, o[i]) < PlaceIn(R, S, o[k])
    BY <1>6, <1>8
  <2>2. <<o[i], o[k]>> \in R
    BY <1>0, <1>3, <1>6, <2>1, PlacesTell
  <2> QED BY <1>1, <1>6, <2>2
<1>9. ASSUME NEW i \in S PROVE \E k \in S : o[k] = i
  <2>1. PlaceIn(R, S, i) \in 0 .. n - 1
    BY <1>0, <1>3, PlacesGrow
  <2>2. PICK k \in S : k - 1 = PlaceIn(R, S, i)
    BY <2>1, SMTT(30)
  <2>3. o[k] \in S /\ PlaceIn(R, S, o[k]) = PlaceIn(R, S, i)
    BY <1>6, <2>2
  <2>4. o[k] = i
    BY <1>0, <1>3, <2>3, PlacesTell
  <2> QED BY <2>4
<1> QED BY <1>7, <1>8, <1>9 DEF o, Less, S

-----------------------------------------------------------------------------
(* A nonempty set of natural numbers below a bound has a least and a greatest *)
LEMMA Extremes ==
    ASSUME NEW n \in Nat, NEW S \in SUBSET (0 .. n), S # {}
    PROVE  /\ \E i \in S : \A j \in S : i <= j
           /\ Max(S) \in S /\ \A j \in S : j <= Max(S)
<1>1. \A T \in SUBSET (0 .. n) : T # {} => \E i \in T : \A j \in T : i <= j
  <2> SUFFICES ASSUME NEW T \in SUBSET (0 .. n), T # {} PROVE \E i \in T : \A j \in T : i <= j
    OBVIOUS
  <2>1. T \in SUBSET Nat /\ \A s \in T : s <= n
    OBVIOUS
  <2>2. IsFiniteSet(T)
    BY <2>1, FS_BoundedSetOfNaturals
  <2> QED BY <2>1, <2>2, LeastKey
<1>2. \E i \in S : \A j \in S : j <= i
  <2> DEFINE T == {n - j : j \in S}
  <2>1. T \in SUBSET (0 .. n) /\ T # {}
    <3>1. \A j \in S : j \in 0 .. n
      OBVIOUS
    <3>2. \A j \in S : n - j \in 0 .. n
      BY <3>1
    <3> QED BY <3>2
  <2>2. PICK t \in T : \A u \in T : t <= u
    BY <1>1, <2>1
  <2>3. PICK i \in S : t = n - i
    BY <2>2
  <2>4. ASSUME NEW j \in S PROVE j <= i
    <3>1. n - i <= n - j
      BY <2>2, <2>3
    <3>2. i \in 0 .. n /\ j \in 0 .. n
      OBVIOUS
    <3> QED BY <3>1, <3>2
  <2> QED BY <2>4
<1>3. \E i \in S : \A j \in S : i >= j
  BY <1>2
<1>4. Max(S) \in S /\ \A j \in S : Max(S) >= j
  BY <1>3 DEF Max
<1>5. \A j \in S : j \in Int
  OBVIOUS
<1>6. Max(S) \in Int
  BY <1>4, <1>5
<1> QED BY <1>1, <1>4, <1>5, <1>6

-----------------------------------------------------------------------------
LessIsStrict(S) ==
    /\ \A a \in S : ~ItemLess(a, a)
    /\ \A a, b, c \in S : ItemLess(a, b) /\ ItemLess(b, c) => ItemLess(a, c)
LessOrders(s) == \A i, j \in DOMAIN s : i # j => ItemLess(s[i], s[j]) \/ ItemLess(s[j], s[i])

(* Whatever the strict order, SortedBy puts a list in it and loses nothing.  *)
THEOREM SortedBySorts ==
    ASSUME NEW S, NEW s \in Seq(S),
           LessIsStrict(S),
           LessOrders(s)
    PROVE  LET t == SortedBy(s, ItemLess)
           IN  /\ t \in Seq(S) /\ Len(t) = Len(s) /\ DOMAIN t = DOMAIN s
               /\ \A i \in DOMAIN s : \E k \in DOMAIN t : t[k] = s[i]
               /\ \A k \in DOMAIN t : \E i \in DOMAIN s : t[k] = s[i]
               /\ \A i, k \in DOMAIN t : i < k => ItemLess(t[i], t[k])
<1> DEFINE n == Len(s)
           D == 1 .. n
           t == SortedBy(s, ItemLess)
           R == {e \in D \X D : ItemLess(s[e[1]], s[e[2]])}
           First(i) == {j \in D : ItemLess(s[j], s[i]) \/ (~ItemLess(s[i], s[j]) /\ j < i)}
           At(k) == CHOOSE i \in D : Cardinality(First(i)) = k - 1
<1>0. n \in Nat /\ DOMAIN s = D /\ \A i \in D : s[i] \in S
  OBVIOUS
<1> HIDE DEF n
<1>1. IsFiniteSet(D) /\ Cardinality(D) = n
  <2>1. 1 \in Int /\ n \in Int
    BY <1>0
  <2>2. IsFiniteSet(1 .. n) /\ Cardinality(1 .. n) = IF 1 > n THEN 0 ELSE n - 1 + 1
    BY <2>1, FS_Interval
  <2>3. Cardinality(1 .. n) = n
    BY <1>0, <2>2
  <2> QED BY <2>2, <2>3
<1>2. \A i, j \in D : <<i, j>> \in R <=> ItemLess(s[i], s[j])
  OBVIOUS
<1> HIDE DEF D
<1> HIDE DEF R
<1>3. IsStrictOrder(R, D)
  BY <1>0, <1>2 DEF IsStrictOrder, LessIsStrict, LessOrders
<1>4. \A i \in D : First(i) = Below(R, D, i)
  <2> TAKE i \in D
  <2>1. \A j \in D : ~ItemLess(s[i], s[j]) /\ j < i => ItemLess(s[j], s[i])
    <3> SUFFICES ASSUME NEW j \in D, ~ItemLess(s[i], s[j]), j < i PROVE ItemLess(s[j], s[i])
      OBVIOUS
    <3>1. i # j
      BY <1>0 DEF D
    <3> QED BY <1>0, <3>1 DEF LessOrders
  <2> QED BY <1>2, <2>1 DEF Below
<1>5. t = [k \in D |-> s[At(k)]]
  BY <1>0 DEF SortedBy
<1>6. \A k \in D : At(k) \in D /\ PlaceIn(R, D, At(k)) = k - 1
  <2> TAKE k \in D
  <2>1. \E i \in D : PlaceIn(R, D, i) = k - 1
    <3>1. k \in 1 .. Cardinality(D)
      BY <1>1 DEF D
    <3> QED BY <1>1, <1>3, <3>1, PlacesAreTaken
  <2>2. \E i \in D : Cardinality(First(i)) = k - 1
    BY <1>4, <2>1 DEF PlaceIn
  <2>3. At(k) \in D /\ Cardinality(First(At(k))) = k - 1
    <3> HIDE DEF First
    <3> QED BY <2>2
  <2> HIDE DEF At, First
  <2> QED BY <1>4, <2>3 DEF PlaceIn
<1> HIDE DEF At, First
<1>7. t \in [D -> S] /\ \A k \in D : t[k] = s[At(k)]
  <2> HIDE DEF t
  <2> QED BY <1>0, <1>5, <1>6
<1>8. t \in Seq(S) /\ Len(t) = n /\ DOMAIN t = D
  <2> HIDE DEF t
  <2> QED BY <1>0, <1>7 DEF D
<1> HIDE DEF t
<1>9. ASSUME NEW i \in D PROVE \E k \in D : t[k] = s[i]
  <2>1. PlaceIn(R, D, i) \in 0 .. n - 1
    BY <1>1, <1>3, PlacesGrow
  <2> DEFINE k == PlaceIn(R, D, i) + 1
  <2>2. k \in D /\ k - 1 = PlaceIn(R, D, i)
    BY <1>0, <2>1 DEF D
  <2> HIDE DEF k
  <2>3. At(k) = i
    <3>1. At(k) \in D /\ PlaceIn(R, D, At(k)) = PlaceIn(R, D, i)
      BY <1>6, <2>2
    <3> QED BY <1>1, <1>3, <3>1, PlacesTell
  <2> QED BY <1>7, <2>2, <2>3
<1>10. ASSUME NEW i \in D, NEW k \in D, i < k PROVE ItemLess(t[i], t[k])
  <2>1. i \in Nat /\ k \in Nat
    BY DEF D
  <2>2. PlaceIn(R, D, At(i)) < PlaceIn(R, D, At(k))
    BY <1>6, <1>10, <2>1
  <2>3. <<At(i), At(k)>> \in R
    BY <1>1, <1>3, <1>6, <2>2, PlacesTell
  <2> QED BY <1>2, <1>6, <1>7, <2>3
<1>11. \A k \in D : \E i \in D : t[k] = s[i]
  BY <1>6, <1>7
<1> QED BY <1>0, <1>8, <1>9, <1>10, <1>11 DEF t, n

(* The elements of a set in some order, each once.                           *)
LEMMA ElementsListed ==
    ASSUME NEW S, IsFiniteSet(S)
    PROVE  LET s == SetToSeq(S)
           IN  /\ s \in Seq(S) /\ Len(s) = Cardinality(S) /\ DOMAIN s = 1 .. Cardinality(S)
               /\ \A x \in S : \E i \in DOMAIN s : s[i] = x
               /\ \A i, j \in DOMAIN s : i # j => s[i] # s[j]
<1> DEFINE n == Cardinality(S)
           s == SetToSeq(S)
<1>1. n \in Nat /\ \E f : f \in Bijection(1 .. n, S)
  BY FS_CardinalityType DEF ExistsBijection
<1>2. \E f \in [1 .. n -> S] : IsInjective(f)
  BY <1>1 DEF Bijection, Injection, IsInjective
<1>3. s \in [1 .. n -> S] /\ IsInjective(s)
  BY <1>2 DEF SetToSeq
<1> HIDE DEF s, n
<1>4. \A i, j \in 1 .. n : i # j => s[i] # s[j]
  BY <1>3 DEF IsInjective
<1>5. IsFiniteSet(1 .. n) /\ Cardinality(1 .. n) = n
  <2>1. 1 \in Int /\ n \in Int
    BY <1>1
  <2>2. IsFiniteSet(1 .. n) /\ Cardinality(1 .. n) = IF 1 > n THEN 0 ELSE n - 1 + 1
    BY <2>1, FS_Interval
  <2>3. Cardinality(1 .. n) = n
    BY <1>1, <2>2
  <2> QED BY <2>2, <2>3
<1>6. \A x \in S : \E i \in 1 .. n : s[i] = x
  <2>1. s \in Injection(1 .. n, S)
    BY <1>3, <1>4 DEF Injection, IsInjective
  <2>2. Cardinality(1 .. n) = Cardinality(S)
    BY <1>5 DEF n
  <2>3. s \in Surjection(1 .. n, S)
    BY <1>5, <2>1, <2>2, FS_Injection
  <2> QED BY <2>3 DEF Surjection
<1>7. s \in Seq(S) /\ Len(s) = n /\ DOMAIN s = 1 .. n
  BY <1>1, <1>3
<1> QED BY <1>4, <1>6, <1>7 DEF s, n

TotalOf(f) == FoldFunction(+, 0, f)

(* A sum of what is counted in classes counts everything once.               *)
LEMMA ClassesSum ==
    ASSUME NEW D, IsFiniteSet(D), NEW E, IsFiniteSet(E), NEW h \in [E -> D], NEW f,
           DOMAIN f = D, \A d \in D : f[d] = Cardinality({k \in E : h[k] = d})
    PROVE  TotalOf(f) = Cardinality(E)
<1> DEFINE In(s) == {k \in E : h[k] \in s}
           c(s) == CHOOSE x \in s : TRUE
           Is(g) == g = [s \in SUBSET D |-> IF s = {} THEN 0 ELSE f[c(s)] + g[s \ {c(s)}]]
           count == [s \in SUBSET D |-> Cardinality(In(s))]
           total == FoldFunction(+, 0, f)
<1>1. total = (CHOOSE g : Is(g))[D]
  BY DEF FoldFunction, FoldFunctionOnSet, MapThenFoldSet
<1>2. \A s \in SUBSET D : IsFiniteSet(In(s)) /\ Cardinality(In(s)) \in Nat
  <2> TAKE s \in SUBSET D
  <2>1. In(s) \in SUBSET E
    OBVIOUS
  <2> HIDE DEF In
  <2> QED BY <2>1, FS_Subset, FS_CardinalityType
<1>3. \A s \in SUBSET D : s # {} => c(s) \in s
  OBVIOUS
<1> HIDE DEF c
<1>4. ASSUME NEW s \in SUBSET D, s # {} PROVE count[s] = f[c(s)] + count[s \ {c(s)}]
  <2> DEFINE x == c(s)
             A == In({x})
             B == In(s \ {x})
  <2>1. x \in s /\ x \in D /\ {x} \in SUBSET D /\ s \ {x} \in SUBSET D
    BY <1>3, <1>4
  <2> HIDE DEF x
  <2>2. In(s) = A \union B /\ A \intersect B = {}
    BY <2>1
  <2>3. f[x] = Cardinality(A)
    <3>1. A = {k \in E : h[k] = x}
      OBVIOUS
    <3> HIDE DEF A
    <3> QED BY <2>1, <3>1
  <2>4. count[s] = Cardinality(In(s)) /\ count[s \ {x}] = Cardinality(B)
    BY <2>1
  <2>5. IsFiniteSet(A) /\ IsFiniteSet(B) /\ Cardinality(A) \in Nat /\ Cardinality(B) \in Nat
    BY <1>2, <2>1
  <2> HIDE DEF In, A, B, count
  <2>6. Cardinality(A \union B) = Cardinality(A) + Cardinality(B) - Cardinality(A \intersect B)
    BY <2>5, FS_Union
  <2>7. Cardinality(A \union B) = Cardinality(A) + Cardinality(B)
    <3>1. Cardinality(A \intersect B) = 0
      BY <2>2, FS_EmptySet
    <3> QED BY <2>5, <2>6, <3>1
  <2> QED BY <2>2, <2>3, <2>4, <2>7 DEF x
<1>5. count[{}] = 0
  <2>1. In({}) = {}
    OBVIOUS
  <2> HIDE DEF In
  <2> QED BY <2>1, FS_EmptySet
<1>6. Is(count)
  <2>1. count = [s \in SUBSET D |-> count[s]]
    OBVIOUS
  <2> HIDE DEF count
  <2>2. [s \in SUBSET D |-> count[s]] = [s \in SUBSET D |-> IF s = {} THEN 0 ELSE f[c(s)] + count[s \ {c(s)}]]
    BY <1>4, <1>5
  <2> QED BY <2>1, <2>2
<1>7. ASSUME NEW g, Is(g) PROVE g[D] = count[D]
  <2> DEFINE Differ == {s \in SUBSET D : g[s] # count[s]}
             sizes == {Cardinality(s) : s \in Differ}
  <2>1. /\ g[{}] = 0
        /\ \A s \in SUBSET D : s # {} => g[s] = f[c(s)] + g[s \ {c(s)}]
    <3>1. \A s \in SUBSET D : g[s] = IF s = {} THEN 0 ELSE f[c(s)] + g[s \ {c(s)}]
      BY <1>7
    <3> HIDE DEF Is
    <3> QED BY <3>1
  <2> HIDE DEF Is, count
  <2>2. \A s \in SUBSET D : IsFiniteSet(s) /\ Cardinality(s) \in 0 .. Cardinality(D)
    BY FS_Subset, FS_CardinalityType
  <2>3. Differ = {}
    <3> SUFFICES ASSUME Differ # {} PROVE FALSE
      OBVIOUS
    <3>1. sizes \in SUBSET (0 .. Cardinality(D)) /\ sizes # {} /\ Cardinality(D) \in Nat
      BY <2>2, FS_CardinalityType
    <3>2. PICK n \in sizes : \A m \in sizes : n <= m
      <4> HIDE DEF sizes
      <4> QED BY <3>1, Extremes
    <3>3. PICK s \in Differ : n = Cardinality(s)
      OBVIOUS
    <3>4. s \in SUBSET D /\ g[s] # count[s] /\ s # {}
      BY <1>5, <2>1, <3>3
    <3> DEFINE r == s \ {c(s)}
    <3>5. r \in SUBSET D /\ c(s) \in s
      BY <1>3, <3>4
    <3>6. Cardinality(r) < Cardinality(s)
      <4>1. Cardinality(r) = Cardinality(s) - 1 /\ Cardinality(s) \in Int
        BY <2>2, <3>4, <3>5, FS_RemoveElement
      <4> QED BY <4>1
    <3>7. r \notin Differ
      <4>1. r \in Differ => Cardinality(s) <= Cardinality(r)
        BY <3>2, <3>3
      <4>2. Cardinality(s) \in Int /\ Cardinality(r) \in Int
        BY <2>2, <3>4, <3>5
      <4> QED BY <3>6, <4>1, <4>2
    <3>8. g[r] = count[r]
      BY <3>5, <3>7
    <3> QED BY <1>4, <2>1, <3>4, <3>8
  <2> QED BY <2>3
<1>8. (CHOOSE g : Is(g))[D] = count[D]
  <2> HIDE DEF Is, count
  <2> QED BY <1>6, <1>7
<1>9. count[D] = Cardinality(E)
  <2>1. In(D) = E
    OBVIOUS
  <2> HIDE DEF In
  <2> QED BY <2>1
<1> HIDE DEF Is, count, total
<1>10. total = Cardinality(E)
  BY <1>1, <1>8, <1>9
<1> QED BY <1>10 DEF total, TotalOf, FoldFunction, FoldFunctionOnSet, MapThenFoldSet

-----------------------------------------------------------------------------
(* The lexical order is a strict order.                                      *)
LEMMA LexLessIs ==
    ASSUME NEW p \in Seq(Nat), NEW q \in Seq(Nat)
    PROVE  LexLess(p, q) <=>
             \/ Len(p) < Len(q) /\ \A i \in 1 .. Len(p) : p[i] = q[i]
             \/ \E i \in 1 .. Len(p) : i <= Len(q) /\ p[i] < q[i] /\ \A j \in 1 .. i - 1 : p[j] = q[j]
<1>1. DOMAIN p = 1 .. Len(p) /\ DOMAIN q = 1 .. Len(q) /\ Len(p) \in Nat /\ Len(q) \in Nat
  OBVIOUS
<1>2. \A i : i \in DOMAIN p \intersect DOMAIN q <=> i \in 1 .. Len(p) /\ i <= Len(q)
  BY <1>1
<1> QED BY <1>1, <1>2 DEF LexLess

LEMMA LexLessIsStrict ==
    ASSUME NEW p \in Seq(Nat)
    PROVE  ~LexLess(p, p)
<1>1. \A i \in 1 .. Len(p) : p[i] \in Nat
  OBVIOUS
<1>2. Len(p) \in Nat
  OBVIOUS
<1> QED BY <1>1, <1>2, LexLessIs

LEMMA LexLessIsTransitive ==
    ASSUME NEW p \in Seq(Nat), NEW q \in Seq(Nat), NEW r \in Seq(Nat), LexLess(p, q), LexLess(q, r)
    PROVE  LexLess(p, r)
<1>0. /\ Len(p) \in Nat /\ Len(q) \in Nat /\ Len(r) \in Nat
      /\ \A i \in 1 .. Len(p) : p[i] \in Nat
      /\ \A i \in 1 .. Len(q) : q[i] \in Nat
      /\ \A i \in 1 .. Len(r) : r[i] \in Nat
  OBVIOUS
<1> DEFINE Shorter(a, b) == Len(a) < Len(b) /\ \A i \in 1 .. Len(a) : a[i] = b[i]
           Less(a, b, i) == i \in 1 .. Len(a) /\ i <= Len(b) /\ a[i] < b[i] /\ \A j \in 1 .. i - 1 : a[j] = b[j]
<1>1. /\ LexLess(p, q) <=> Shorter(p, q) \/ \E i : Less(p, q, i)
      /\ LexLess(q, r) <=> Shorter(q, r) \/ \E i : Less(q, r, i)
      /\ LexLess(p, r) <=> Shorter(p, r) \/ \E i : Less(p, r, i)
  BY LexLessIs
<1>2. CASE Shorter(p, q) /\ Shorter(q, r)
  <2>1. Shorter(p, r)
    <3>1. Len(p) < Len(r)
      BY <1>0, <1>2
    <3>2. ASSUME NEW i \in 1 .. Len(p) PROVE p[i] = r[i]
      <4>1. i \in 1 .. Len(q)
        BY <1>0, <1>2
      <4> QED BY <1>2, <4>1
    <3> QED BY <3>1, <3>2
  <2> QED BY <1>1, <2>1
<1>3. ASSUME Shorter(p, q), NEW k, Less(q, r, k) PROVE LexLess(p, r)
  <2>1. CASE k <= Len(p)
    <3>1. k \in 1 .. Len(p) /\ k <= Len(r) /\ p[k] < r[k]
      BY <1>0, <1>3, <2>1
    <3>2. ASSUME NEW j \in 1 .. k - 1 PROVE p[j] = r[j]
      <4>1. j \in 1 .. Len(p)
        BY <1>0, <1>3, <2>1
      <4> QED BY <1>3, <4>1
    <3>3. Less(p, r, k)
      BY <3>1, <3>2
    <3> QED BY <1>1, <3>3
  <2>2. CASE ~(k <= Len(p))
    <3>1. Len(p) < Len(r)
      BY <1>0, <1>3, <2>2
    <3>2. ASSUME NEW j \in 1 .. Len(p) PROVE p[j] = r[j]
      <4>1. j \in 1 .. k - 1
        BY <1>0, <1>3, <2>2
      <4> QED BY <1>3, <4>1
    <3>3. Shorter(p, r)
      BY <3>1, <3>2
    <3> QED BY <1>1, <3>3
  <2> QED BY <2>1, <2>2
<1>4. ASSUME NEW i, Less(p, q, i), Shorter(q, r) PROVE LexLess(p, r)
  <2>1. i \in 1 .. Len(q) /\ i <= Len(r) /\ p[i] < r[i]
    BY <1>0, <1>4
  <2>2. ASSUME NEW j \in 1 .. i - 1 PROVE p[j] = r[j]
    <3>1. j \in 1 .. Len(q)
      BY <1>0, <2>1
    <3> QED BY <1>4, <3>1
  <2>3. Less(p, r, i)
    BY <1>4, <2>1, <2>2
  <2> QED BY <1>1, <2>3
<1>5. ASSUME NEW i, Less(p, q, i), NEW k, Less(q, r, k) PROVE LexLess(p, r)
  <2>0. i \in Nat /\ k \in Nat /\ i >= 1 /\ k >= 1 /\ i <= Len(p) /\ i <= Len(q) /\ k <= Len(q) /\ k <= Len(r)
    BY <1>0, <1>5
  <2>1. CASE i <= k
    <3>1. i <= Len(r) /\ i \in 1 .. Len(p) /\ i \in 1 .. Len(q) /\ i \in 1 .. Len(r)
      BY <1>0, <2>0, <2>1
    <3>2. q[i] = r[i] \/ q[i] < r[i]
      <4>1. i = k \/ i \in 1 .. k - 1
        BY <2>0, <2>1
      <4> QED BY <1>5, <4>1
    <3>3. p[i] < r[i]
      <4>1. p[i] \in Nat /\ q[i] \in Nat /\ r[i] \in Nat /\ p[i] < q[i]
        BY <1>0, <1>5, <3>1
      <4> QED BY <3>2, <4>1
    <3>4. ASSUME NEW j \in 1 .. i - 1 PROVE p[j] = r[j]
      <4>1. j \in 1 .. k - 1
        BY <2>0, <2>1
      <4> QED BY <1>5, <4>1
    <3>5. Less(p, r, i)
      BY <3>1, <3>3, <3>4
    <3> QED BY <1>1, <3>5
  <2>2. CASE ~(i <= k)
    <3>1. k \in 1 .. i - 1 /\ k \in 1 .. Len(p)
      BY <2>0, <2>2
    <3>2. p[k] < r[k]
      BY <1>5, <3>1
    <3>3. ASSUME NEW j \in 1 .. k - 1 PROVE p[j] = r[j]
      <4>1. j \in 1 .. i - 1
        BY <2>0, <2>2
      <4> QED BY <1>5, <4>1
    <3>4. Less(p, r, k)
      BY <2>0, <3>1, <3>2, <3>3
    <3> QED BY <1>1, <3>4
  <2> QED BY <2>1, <2>2
<1> HIDE DEF Shorter, Less
<1> QED BY <1>1, <1>2, <1>3, <1>4, <1>5

LEMMA LexLessIsTotal ==
    ASSUME NEW p \in Seq(Nat), NEW q \in Seq(Nat), p # q
    PROVE  LexLess(p, q) \/ LexLess(q, p)
<1> DEFINE D == {i \in 1 .. Len(p) : i <= Len(q) /\ p[i] # q[i]}
<1>0. /\ Len(p) \in Nat /\ Len(q) \in Nat
      /\ \A i \in 1 .. Len(p) : p[i] \in Nat
      /\ \A i \in 1 .. Len(q) : q[i] \in Nat
      /\ DOMAIN p = 1 .. Len(p) /\ DOMAIN q = 1 .. Len(q)
  OBVIOUS
<1>1. CASE D = {}
  <2>1. \A i \in 1 .. Len(p) : i <= Len(q) => p[i] = q[i]
    BY <1>1
  <2>2. Len(p) # Len(q)
    <3> SUFFICES ASSUME Len(p) = Len(q) PROVE p = q
      OBVIOUS
    <3>1. \A i \in 1 .. Len(p) : p[i] = q[i]
      BY <1>0, <2>1
    <3> QED BY <3>1
  <2>3. CASE Len(p) < Len(q)
    <3>1. \A i \in 1 .. Len(p) : p[i] = q[i]
      BY <1>0, <2>1, <2>3
    <3> QED BY <2>3, <3>1, LexLessIs
  <2>4. CASE Len(q) < Len(p)
    <3>1. ASSUME NEW i \in 1 .. Len(q) PROVE q[i] = p[i]
      <4>1. i \in 1 .. Len(p) /\ i <= Len(q)
        BY <1>0, <2>4
      <4> QED BY <2>1, <4>1
    <3> QED BY <2>4, <3>1, LexLessIs
  <2>5. Len(p) < Len(q) \/ Len(q) < Len(p)
    <3>1. Len(p) \in Nat /\ Len(q) \in Nat
      OBVIOUS
    <3>2. \A x, y \in Nat : x # y => x < y \/ y < x
      OBVIOUS
    <3> QED BY <2>2, <3>1, <3>2, Zenon
  <2> QED BY <2>3, <2>4, <2>5
<1>2. CASE D # {}
  <2>1. D \in SUBSET (0 .. Len(p))
    BY <1>0
  <2>2. PICK i \in D : \A j \in D : i <= j
    <3> HIDE DEF D
    <3> QED BY <1>0, <1>2, <2>1, Extremes
  <2>3. i \in 1 .. Len(p) /\ i \in 1 .. Len(q) /\ i <= Len(p) /\ i <= Len(q) /\ p[i] # q[i]
    BY <1>0, <2>2
  <2>4. ASSUME NEW j \in 1 .. i - 1 PROVE p[j] = q[j]
    <3>1. j \in 1 .. Len(p) /\ j <= Len(q) /\ ~(i <= j)
      BY <1>0, <2>3
    <3>2. j \notin D
      BY <2>2, <3>1
    <3> QED BY <3>1, <3>2
  <2>5. p[i] < q[i] \/ q[i] < p[i]
    BY <1>0, <2>3
  <2>6. CASE p[i] < q[i]
    BY <2>3, <2>4, <2>6, LexLessIs
  <2>7. CASE q[i] < p[i]
    <3>1. \A j \in 1 .. i - 1 : q[j] = p[j]
      BY <2>4
    <3> QED BY <2>3, <2>7, <3>1, LexLessIs
  <2> QED BY <2>5, <2>6, <2>7
<1> QED BY <1>1, <1>2


-----------------------------------------------------------------------------
(* A list that has each element of a set once, and nothing else.             *)
ListsOnce(s, S) ==
    /\ s \in Seq(S)
    /\ \A x \in S : \E i \in DOMAIN s : s[i] = x
    /\ \A i, j \in DOMAIN s : i # j => s[i] # s[j]

LEMMA SetIsListed == ASSUME NEW S, IsFiniteSet(S) PROVE ListsOnce(SetToSeq(S), S)
BY ElementsListed DEF ListsOnce

LEMMA NothingIsListed == ListsOnce(<<>>, {})
BY DEF ListsOnce

LEMMA ListsConcatenate ==
    ASSUME NEW S, NEW s, ListsOnce(s, S), NEW T, NEW t, ListsOnce(t, T), S \intersect T = {}
    PROVE  ListsOnce(s \o t, S \union T)
<1> DEFINE m == Len(s)
           n == Len(t)
           r == s \o t
<1>1. /\ s \in Seq(S) /\ t \in Seq(T) /\ m \in Nat /\ n \in Nat /\ DOMAIN s = 1 .. m /\ DOMAIN t = 1 .. n
      /\ \A i \in 1 .. m : s[i] \in S
      /\ \A i \in 1 .. n : t[i] \in T
  BY DEF ListsOnce
<1>2. s \in Seq(S \union T) /\ t \in Seq(S \union T)
  BY <1>1
<1>3. /\ r \in Seq(S \union T) /\ DOMAIN r = 1 .. m + n
      /\ \A i \in 1 .. m + n : r[i] = IF i <= m THEN s[i] ELSE t[i - m]
  BY <1>1, <1>2
<1> HIDE DEF m, n, r
<1>4. ASSUME NEW x \in S \union T PROVE \E i \in 1 .. m + n : r[i] = x
  <2>1. CASE x \in S
    <3>1. PICK i \in 1 .. m : s[i] = x
      BY <1>1, <2>1 DEF ListsOnce
    <3>2. i \in 1 .. m + n /\ i <= m
      BY <1>1
    <3> QED BY <1>3, <3>1, <3>2
  <2>2. CASE x \in T
    <3>1. PICK i \in 1 .. n : t[i] = x
      BY <1>1, <2>2 DEF ListsOnce
    <3>2. i + m \in 1 .. m + n /\ ~(i + m <= m) /\ (i + m) - m = i
      BY <1>1
    <3> QED BY <1>3, <3>1, <3>2
  <2> QED BY <2>1, <2>2
<1>5. \A i \in 1 .. m + n : \/ i <= m /\ i \in 1 .. m /\ r[i] = s[i]
                            \/ ~(i <= m) /\ i - m \in 1 .. n /\ r[i] = t[i - m]
  BY <1>1, <1>3
<1>6. ASSUME NEW i \in 1 .. m + n, NEW j \in 1 .. m + n, i # j PROVE r[i] # r[j]
  <2>1. CASE i <= m /\ j <= m
    BY <1>1, <1>5, <1>6, <2>1 DEF ListsOnce
  <2>2. CASE ~(i <= m) /\ ~(j <= m)
    <3>1. i - m # j - m
      BY <1>1, <1>6
    <3>2. i - m \in 1 .. n /\ r[i] = t[i - m] /\ j - m \in 1 .. n /\ r[j] = t[j - m]
      BY <1>5, <2>2
    <3> QED BY <1>1, <3>1, <3>2 DEF ListsOnce
  <2>3. CASE i <= m /\ ~(j <= m)
    BY <1>1, <1>5, <2>3
  <2>4. CASE ~(i <= m) /\ j <= m
    BY <1>1, <1>5, <2>4
  <2> QED BY <2>1, <2>2, <2>3, <2>4
<1> QED BY <1>3, <1>4, <1>6 DEF ListsOnce, r

LEMMA ListsAppend ==
    ASSUME NEW S, NEW s, ListsOnce(s, S), NEW x, x \notin S
    PROVE  ListsOnce(Append(s, x), S \union {x})
<1>1. ListsOnce(<<x>>, {x})
  <2>1. <<x>> \in Seq({x}) /\ DOMAIN <<x>> = {1} /\ <<x>>[1] = x
    OBVIOUS
  <2> QED BY <2>1 DEF ListsOnce
<1>2. Append(s, x) = s \o <<x>>
  BY DEF ListsOnce
<1>3. S \intersect {x} = {}
  OBVIOUS
<1> QED BY <1>1, <1>2, <1>3, ListsConcatenate

(* And it does so when it is sorted.                                         *)
LEMMA ListsSort ==
    ASSUME NEW S, NEW s, ListsOnce(s, S),
           LessIsStrict(S),
           \A a, b \in S : a # b => ItemLess(a, b) \/ ItemLess(b, a)
    PROVE  LET t == SortedBy(s, ItemLess)
           IN  ListsOnce(t, S) /\ \A i, k \in DOMAIN t : i < k => ItemLess(t[i], t[k])
<1> DEFINE t == SortedBy(s, ItemLess)
<1>1. /\ s \in Seq(S)
      /\ \A i \in DOMAIN s : s[i] \in S
      /\ \A x \in S : \E i \in DOMAIN s : s[i] = x
      /\ \A i, j \in DOMAIN s : i # j => s[i] # s[j]
  BY DEF ListsOnce
<1>2. LessOrders(s)
  BY <1>1 DEF LessOrders
<1>3. /\ t \in Seq(S)
      /\ \A i \in DOMAIN s : \E k \in DOMAIN t : t[k] = s[i]
      /\ \A i, k \in DOMAIN t : i < k => ItemLess(t[i], t[k])
  BY <1>1, <1>2, SortedBySorts
<1> HIDE DEF t
<1>4. ASSUME NEW x \in S PROVE \E k \in DOMAIN t : t[k] = x
  <2>1. PICK i \in DOMAIN s : s[i] = x
    BY <1>1
  <2> QED BY <1>3, <2>1
<1>5. ASSUME NEW i \in DOMAIN t, NEW j \in DOMAIN t, i # j PROVE t[i] # t[j]
  <2>1. t[i] \in S /\ t[j] \in S /\ i \in Nat /\ j \in Nat
    BY <1>3
  <2>2. i < j \/ j < i
    BY <1>5, <2>1
  <2> QED BY <1>3, <2>1, <2>2 DEF LessIsStrict
<1> QED BY <1>3, <1>4, <1>5 DEF ListsOnce, t

LEMMA ImageIsFinite ==
    ASSUME NEW S, IsFiniteSet(S), NEW f, DOMAIN f = S
    PROVE  IsFiniteSet({f[x] : x \in S})
<1> DEFINE T == {f[x] : x \in S}
           g == [x \in S |-> f[x]]
<1>1. g \in Surjection(S, T)
  BY DEF Surjection
<1> HIDE DEF T, g
<1>2. IsFiniteSet(T)
  BY <1>1, FS_Surjection
<1> QED BY <1>2 DEF T
=============================================================================
