----------------------------- MODULE SortedKeys -----------------------------
(***************************************************************************)
(* Sorting by key.  Sorted lists the keys of a Go map in lexical order:    *)
(* sortedKeys of internal/catalog/loader.go, and the collect-and-sort that *)
(* the rest of the program does by hand.  StableOrder is sort.SliceStable. *)
(* A key is a number, its rank in lexical order; a text whose characters   *)
(* matter is the sequence of their codes, which LexLess compares.          *)
(***************************************************************************)
EXTENDS Naturals, Sequences, FiniteSets

(* Lexical order on sequences of numbers, a sequence before its extensions. *)
LexLess(p, q) ==
    \/ Len(p) < Len(q) /\ \A i \in DOMAIN p : p[i] = q[i]
    \/ \E i \in DOMAIN p \intersect DOMAIN q : p[i] < q[i] /\ \A j \in 1 .. i - 1 : p[j] = q[j]

(* The key with i - 1 keys before it comes at place i.                      *)
Sorted(S) ==
    [i \in 1 .. Cardinality(S) |-> CHOOSE n \in S : Cardinality({m \in S : m < n}) = i - 1]

(* Which item of a list, given by its keys, comes to each place: the keys   *)
(* grow, and items with one key stay in order.                              *)
StableOrder(key) ==
    [k \in DOMAIN key |-> CHOOSE i \in DOMAIN key :
        Cardinality({j \in DOMAIN key : key[j] < key[i] \/ (key[j] = key[i] /\ j < i)}) = k - 1]

(* sort.Slice by an order that tells all items apart: an item has those     *)
(* before it that are less.  (Go leaves open how equals come out; here they *)
(* stay in order.)                                                          *)
SortedBy(s, Less(_, _)) ==
    [k \in DOMAIN s |-> s[CHOOSE i \in DOMAIN s :
        Cardinality({j \in DOMAIN s : Less(s[j], s[i]) \/ (~Less(s[i], s[j]) /\ j < i)}) = k - 1]]
=============================================================================
