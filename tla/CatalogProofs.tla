---------------------------- MODULE CatalogProofs ----------------------------
(***************************************************************************)
(* Proofs about the catalog.                                               *)
(*                                                                         *)
(* The loader, for any directory of any number of files: a catalog is all  *)
(* there or not at all, and the error of a load that fails is the first.   *)
(*                                                                         *)
(* The statistics, for any catalog that a load returns and any order in    *)
(* which its maps are walked: the tables count every entry once, no order  *)
(* of the walk shows in them, and they list the placeholders that are      *)
(* left.                                                                   *)
(*                                                                         *)
(* Drift, for any reference version and any constraint the validator       *)
(* accepts: an entry is reported if the constraint excludes the version,   *)
(* and only then.                                                          *)
(***************************************************************************)
EXTENDS CatalogStats, Drift, ListProofs, Integers

Keys == [section: Section, type: Type]
Has(n, k) == Declares(n, k.section, k.type)
Text(n, k) == dir[n].entries[k.section][k.type]

(* The files merged as a whole, and the keys merged of the one at hand.      *)
Past == YamlFiles \ ToSet(files)
PastOfFile == IF pc = "merge" THEN {k \in Keys : Has(Head(files), k) /\ k \notin ToSet(todo)} ELSE {}

-----------------------------------------------------------------------------
(* What is known while the load has not ended.                              *)

FilesInOrder ==
    pc \in {"read", "merge", "validate"} =>
        /\ dir # Unreadable
        /\ files \in Seq(YamlFiles)
        /\ \A i, k \in DOMAIN files : i < k => files[i] < files[k]
        /\ \A m \in Past, i \in DOMAIN files : m < files[i]
        /\ Mergeable(Past)

CatalogSoFar ==
  /\ pc = "list" => DOMAIN cat = {}
  /\ pc \in {"read", "merge", "validate"} =>
        /\ DOMAIN cat \subseteq Keys /\ IsFiniteSet(DOMAIN cat)
        /\ \A k \in Keys : k \in DOMAIN cat <=> k \in PastOfFile \/ \E n \in Past : Has(n, k)
        /\ \A k \in DOMAIN cat :
              /\ Has(firstSeen[k], k)
              /\ firstSeen[k] \in Past \/ (pc = "merge" /\ firstSeen[k] = Head(files) /\ k \in PastOfFile)

FileAtHand ==
    pc = "merge" =>
        /\ files # <<>> /\ dir[Head(files)].status = "ok"
        /\ todo \in Seq(Keys)
        /\ \A i \in DOMAIN todo : Has(Head(files), todo[i])
        /\ \A k \in PastOfFile : Text(Head(files), k) # Malformed /\ \A n \in Past : ~Has(n, k)

ValidatedSoFar ==
    pc = "validate" =>
        /\ files = <<>>
        /\ todo \in Seq(DOMAIN cat)
        /\ \A k \in DOMAIN cat : k \in ToSet(todo) \/ Passes(k)

LoadInv ==
    /\ TypeOK /\ dir \in Directories
    /\ FilesInOrder /\ CatalogSoFar /\ FileAtHand /\ ValidatedSoFar
    /\ AllOrNothing /\ FirstErrorIsStable

-----------------------------------------------------------------------------
(* What the helpers return.                                                 *)

LEMMA SectionIs == Section = {"resources", "data_sources", "iam_bindings"}
BY DEF Section, Sections, ToSet

(* The list of one section has its keys, once each.                          *)
LEMMA PartIs ==
    ASSUME NEW s \in Section, NEW types \in SUBSET Type, IsFiniteSet(types)
    PROVE  /\ Part(s, types) \in Seq(Keys)
           /\ \A i \in DOMAIN Part(s, types) : Part(s, types)[i].section = s
           /\ \A i, k \in DOMAIN Part(s, types) : Part(s, types)[i] = Part(s, types)[k] => i = k
           /\ \A t : t \in types <=> \E i \in DOMAIN Part(s, types) : Part(s, types)[i].type = t
<1> DEFINE keys == Sorted(types)
           p == Part(s, types)
<1>1. types \in SUBSET Nat
  BY TypeAssumption
<1>2. /\ keys \in Seq(types) /\ \A n \in types : \E i \in DOMAIN keys : keys[i] = n
      /\ \A i, k \in DOMAIN keys : i < k => keys[i] < keys[k]
  BY <1>1, SortedListsKeys
<1>3. p = [i \in DOMAIN keys |-> [section |-> s, type |-> keys[i]]]
  BY DEF Part
<1> HIDE DEF keys, p
<1>4. \A i \in DOMAIN keys : keys[i] \in types /\ keys[i] \in Nat /\ i \in Nat
  <2>1. DOMAIN keys = 1 .. Len(keys) /\ Len(keys) \in Nat /\ \A i \in DOMAIN keys : keys[i] \in types
    BY <1>2
  <2>2. \A i \in 1 .. Len(keys) : i \in Nat
    BY <2>1
  <2>3. \A t \in types : t \in Nat
    BY <1>1
  <2> QED BY <2>1, <2>2, <2>3
<1>5. p \in Seq(Keys) /\ DOMAIN p = DOMAIN keys
  <2>1. DOMAIN keys = 1 .. Len(keys) /\ Len(keys) \in Nat
    BY <1>2
  <2>2. p \in [1 .. Len(keys) -> Keys]
    BY <1>3, <1>4, <2>1 DEF Keys
  <2> QED BY <2>1, <2>2
<1>6. \A i \in DOMAIN p : p[i].section = s /\ p[i].type = keys[i]
  BY <1>3
<1>7. \A i, k \in DOMAIN p : p[i] = p[k] => i = k
  <2> SUFFICES ASSUME NEW i \in DOMAIN p, NEW k \in DOMAIN p, i # k PROVE p[i] # p[k]
    OBVIOUS
  <2>1. i < k \/ k < i
    BY <1>4, <1>5
  <2>2. keys[i] # keys[k]
    BY <1>2, <1>4, <1>5, <2>1
  <2> QED BY <1>6, <2>2
<1>8. \A t : t \in types <=> \E i \in DOMAIN p : p[i].type = t
  BY <1>2, <1>4, <1>5, <1>6
<1> QED BY <1>5, <1>6, <1>7, <1>8 DEF p

LEMMA ConcatIs ==
    ASSUME NEW X, NEW s \in Seq(X), NEW t \in Seq(X)
    PROVE  /\ s \o t \in Seq(X)
           /\ DOMAIN (s \o t) = 1 .. Len(s) + Len(t)
           /\ \A i \in 1 .. Len(s) + Len(t) :
                 (s \o t)[i] = IF i <= Len(s) THEN s[i] ELSE t[i - Len(s)]
OBVIOUS

(* Two lists with no element in common, one after the other.                 *)
LEMMA ConcatInjective ==
    ASSUME NEW X, NEW s \in Seq(X), NEW t \in Seq(X),
           \A i, k \in DOMAIN s : s[i] = s[k] => i = k,
           \A i, k \in DOMAIN t : t[i] = t[k] => i = k,
           \A i \in DOMAIN s, k \in DOMAIN t : s[i] # t[k]
    PROVE  /\ s \o t \in Seq(X)
           /\ \A i, k \in DOMAIN (s \o t) : (s \o t)[i] = (s \o t)[k] => i = k
           /\ \A x : (\E i \in DOMAIN (s \o t) : (s \o t)[i] = x) <=>
                     (\E i \in DOMAIN s : s[i] = x) \/ (\E i \in DOMAIN t : t[i] = x)
<1> DEFINE c == s \o t
           m == Len(s)
           n == Len(t)
<1>1. /\ c \in Seq(X) /\ m \in Nat /\ n \in Nat
      /\ DOMAIN c = 1 .. m + n /\ DOMAIN s = 1 .. m /\ DOMAIN t = 1 .. n
      /\ \A i \in 1 .. m + n : c[i] = IF i <= m THEN s[i] ELSE t[i - m]
  BY ConcatIs
<1> HIDE DEF c, m, n
<1>2. \A i \in 1 .. m + n : \/ i \in 1 .. m /\ c[i] = s[i]
                            \/ i - m \in 1 .. n /\ c[i] = t[i - m]
  BY <1>1
<1>3. \A i, k \in 1 .. m + n : c[i] = c[k] => i = k
  <2> SUFFICES ASSUME NEW i \in 1 .. m + n, NEW k \in 1 .. m + n, c[i] = c[k] PROVE i = k
    OBVIOUS
  <2>1. CASE i \in 1 .. m /\ c[i] = s[i] /\ k \in 1 .. m /\ c[k] = s[k]
    BY <1>1, <2>1
  <2>2. CASE i - m \in 1 .. n /\ c[i] = t[i - m] /\ k - m \in 1 .. n /\ c[k] = t[k - m]
    <3>1. i - m = k - m
      BY <1>1, <2>2
    <3> QED BY <1>1, <3>1
  <2>3. ~(i \in 1 .. m /\ c[i] = s[i] /\ k - m \in 1 .. n /\ c[k] = t[k - m])
    BY <1>1
  <2>4. ~(k \in 1 .. m /\ c[k] = s[k] /\ i - m \in 1 .. n /\ c[i] = t[i - m])
    BY <1>1
  <2> QED BY <1>2, <2>1, <2>2, <2>3, <2>4
<1>4. ASSUME NEW x, NEW i \in 1 .. m + n, c[i] = x
      PROVE  (\E k \in DOMAIN s : s[k] = x) \/ (\E k \in DOMAIN t : t[k] = x)
  BY <1>1, <1>2, <1>4
<1>5. ASSUME NEW k \in 1 .. m PROVE \E i \in 1 .. m + n : c[i] = s[k]
  <2>1. k \in 1 .. m + n /\ c[k] = s[k]
    BY <1>1
  <2> QED BY <2>1
<1>6. ASSUME NEW k \in 1 .. n PROVE \E i \in 1 .. m + n : c[i] = t[k]
  <2>1. k + m \in 1 .. m + n /\ ~(k + m <= m) /\ k + m - m = k
    BY <1>1
  <2>2. c[k + m] = t[k]
    BY <1>1, <2>1
  <2> QED BY <2>1, <2>2
<1>7. \A x : (\E i \in 1 .. m + n : c[i] = x) <=>
              (\E i \in 1 .. m : s[i] = x) \/ (\E i \in 1 .. n : t[i] = x)
  <2> TAKE x
  <2>1. ASSUME NEW i \in 1 .. m + n, c[i] = x
        PROVE  (\E k \in 1 .. m : s[k] = x) \/ (\E k \in 1 .. n : t[k] = x)
    BY <1>1, <1>4, <2>1
  <2>2. ASSUME NEW k \in 1 .. m, s[k] = x PROVE \E i \in 1 .. m + n : c[i] = x
    BY <1>5, <2>2
  <2>3. ASSUME NEW k \in 1 .. n, t[k] = x PROVE \E i \in 1 .. m + n : c[i] = x
    BY <1>6, <2>3
  <2> QED BY <2>1, <2>2, <2>3
<1>8. c \in Seq(X) /\ DOMAIN c = 1 .. m + n /\ DOMAIN s = 1 .. m /\ DOMAIN t = 1 .. n
  BY <1>1
<1> QED BY <1>3, <1>7, <1>8, Zenon DEF c

LEMMA AgendaIs ==
    ASSUME NEW keysOf \in [Section -> SUBSET Type], \A s \in Section : IsFiniteSet(keysOf[s])
    PROVE  /\ Agenda(keysOf) \in Seq(Keys)
           /\ \A i, k \in DOMAIN Agenda(keysOf) : Agenda(keysOf)[i] = Agenda(keysOf)[k] => i = k
           /\ \A x \in Keys : x \in ToSet(Agenda(keysOf)) <=> x.type \in keysOf[x.section]
<1> DEFINE part(s) == Part(s, keysOf[s])
           ab == part("resources") \o part("data_sources")
           c == part("iam_bindings")
<1>1. ASSUME NEW s \in Section
      PROVE  /\ part(s) \in Seq(Keys)
             /\ \A i \in DOMAIN part(s) : part(s)[i].section = s /\ part(s)[i] \in Keys
             /\ \A i, k \in DOMAIN part(s) : part(s)[i] = part(s)[k] => i = k
             /\ \A x \in Keys : (\E i \in DOMAIN part(s) : part(s)[i] = x) <=>
                                  x.section = s /\ x.type \in keysOf[s]
  <2> DEFINE p == part(s)
             types == keysOf[s]
  <2>1. types \in SUBSET Type /\ IsFiniteSet(types)
    OBVIOUS
  <2>2. /\ p \in Seq(Keys) /\ \A i \in DOMAIN p : p[i].section = s
        /\ \A i, k \in DOMAIN p : p[i] = p[k] => i = k
        /\ \A t : t \in types <=> \E i \in DOMAIN p : p[i].type = t
    BY <2>1, PartIs
  <2> HIDE DEF p, types
  <2>3. \A i \in DOMAIN p : p[i] \in Keys
    BY <2>2
  <2>4. \A x \in Keys : (\E i \in DOMAIN p : p[i] = x) <=> x.section = s /\ x.type \in types
    BY <2>2, <2>3 DEF Keys
  <2> QED BY <2>2, <2>3, <2>4 DEF p, types
<1>2. "resources" \in Section /\ "data_sources" \in Section /\ "iam_bindings" \in Section
  BY SectionIs
<1>3. Agenda(keysOf) = ab \o c
  BY DEF Agenda
<1> HIDE DEF part
<1>4. /\ ab \in Seq(Keys)
      /\ \A i, k \in DOMAIN ab : ab[i] = ab[k] => i = k
      /\ \A x : (\E i \in DOMAIN ab : ab[i] = x) <=>
                   \/ \E i \in DOMAIN part("resources") : part("resources")[i] = x
                   \/ \E i \in DOMAIN part("data_sources") : part("data_sources")[i] = x
  <2>1. \A i \in DOMAIN part("resources"), k \in DOMAIN part("data_sources") :
           part("resources")[i] # part("data_sources")[k]
    BY <1>1, <1>2
  <2> DEFINE a == part("resources")
             b == part("data_sources")
  <2>2. /\ a \in Seq(Keys) /\ \A i, k \in DOMAIN a : a[i] = a[k] => i = k
        /\ b \in Seq(Keys) /\ \A i, k \in DOMAIN b : b[i] = b[k] => i = k
    BY <1>1, <1>2
  <2> HIDE DEF a, b
  <2>3. /\ a \o b \in Seq(Keys)
        /\ \A i, k \in DOMAIN (a \o b) : (a \o b)[i] = (a \o b)[k] => i = k
        /\ \A x : (\E i \in DOMAIN (a \o b) : (a \o b)[i] = x) <=>
                  (\E i \in DOMAIN a : a[i] = x) \/ (\E i \in DOMAIN b : b[i] = x)
    <3>1. \A i \in DOMAIN a, k \in DOMAIN b : a[i] # b[k]
      BY <2>1 DEF a, b
    <3> QED BY <2>2, <3>1, ConcatInjective
  <2> QED BY <2>3, Zenon DEF a, b
<1> HIDE DEF ab
<1>5. \A i \in DOMAIN ab, k \in DOMAIN c : ab[i] # c[k]
  <2>1. ASSUME NEW i \in DOMAIN ab PROVE ab[i].section \in {"resources", "data_sources"}
    <3>1. \/ \E k \in DOMAIN part("resources") : part("resources")[k] = ab[i]
          \/ \E k \in DOMAIN part("data_sources") : part("data_sources")[k] = ab[i]
      BY <1>4
    <3> QED BY <1>1, <1>2, <3>1
  <2> QED BY <1>1, <1>2, <2>1
<1>6. c \in Seq(Keys) /\ \A i, k \in DOMAIN c : c[i] = c[k] => i = k
  BY <1>1, <1>2
<1> DEFINE agenda == ab \o c
<1>7. /\ agenda \in Seq(Keys)
      /\ \A i, k \in DOMAIN agenda : agenda[i] = agenda[k] => i = k
      /\ \A x : (\E i \in DOMAIN agenda : agenda[i] = x) <=>
                (\E i \in DOMAIN ab : ab[i] = x) \/ (\E i \in DOMAIN c : c[i] = x)
  BY <1>4, <1>5, <1>6, ConcatInjective
<1> HIDE DEF agenda
<1>8. ASSUME NEW x \in Keys PROVE x \in ToSet(agenda) <=> x.type \in keysOf[x.section]
  <2>1. x \in ToSet(agenda) <=> \E i \in DOMAIN agenda : agenda[i] = x
    BY DEF ToSet
  <2>2. \A s \in Section : (\E i \in DOMAIN part(s) : part(s)[i] = x) <=>
                              x.section = s /\ x.type \in keysOf[s]
    BY <1>1
  <2>3. x.section \in {"resources", "data_sources", "iam_bindings"}
    BY SectionIs DEF Keys
  <2> QED BY <1>2, <1>4, <1>7, <2>1, <2>2, <2>3
<1> QED BY <1>3, <1>7, <1>8 DEF agenda

LEMMA TailIs ==
    ASSUME NEW X, NEW s \in Seq(X), s # <<>>
    PROVE  /\ 1 \in DOMAIN s /\ Head(s) = s[1] /\ Head(s) \in X /\ Tail(s) \in Seq(X)
           /\ \A i \in DOMAIN Tail(s) : i + 1 \in DOMAIN s /\ Tail(s)[i] = s[i + 1] /\ i \in Nat
           /\ \A i \in DOMAIN s : i = 1 \/ i - 1 \in DOMAIN Tail(s)
           /\ \A x : x \in ToSet(s) <=> x = Head(s) \/ x \in ToSet(Tail(s))
<1>1. /\ Len(s) \in Nat /\ Len(s) >= 1 /\ DOMAIN s = 1 .. Len(s)
      /\ Tail(s) \in Seq(X) /\ Len(Tail(s)) = Len(s) - 1 /\ DOMAIN Tail(s) = 1 .. Len(s) - 1
      /\ \A i \in 1 .. Len(s) - 1 : Tail(s)[i] = s[i + 1]
      /\ Head(s) = s[1] /\ Head(s) \in X
  OBVIOUS
<1>2. \A i \in DOMAIN Tail(s) : i + 1 \in DOMAIN s /\ Tail(s)[i] = s[i + 1] /\ i \in Nat
  BY <1>1
<1>3. \A i \in DOMAIN s : i = 1 \/ (i - 1 \in DOMAIN Tail(s) /\ s[i] = Tail(s)[i - 1])
  BY <1>1
<1>4. \A x : x \in ToSet(s) <=> x = Head(s) \/ x \in ToSet(Tail(s))
  <2> TAKE x
  <2>1. ASSUME x \in ToSet(s) PROVE x = Head(s) \/ x \in ToSet(Tail(s))
    BY <1>1, <1>3, <2>1, ZenonT(60) DEF ToSet
  <2>2. ASSUME x = Head(s) \/ x \in ToSet(Tail(s)) PROVE x \in ToSet(s)
    BY <1>1, <1>2, <2>2 DEF ToSet
  <2> QED BY <2>1, <2>2
<1> QED BY <1>1, <1>2, <1>3, <1>4

(* The directory read entry by entry.                                        *)
LEMMA FilesAre ==
    ASSUME dir \in Directories, dir # Unreadable
    PROVE  /\ YamlFiles \in SUBSET Nat /\ IsFiniteSet(YamlFiles)
           /\ \A n \in YamlFiles :
                /\ dir[n].kind = "yaml" /\ IsFile(dir[n])
                /\ \A s \in Section : \A t : Declares(n, s, t) => t \in Type
<1>1. /\ DOMAIN dir \subseteq Name /\ Name \subseteq Nat /\ IsFiniteSet(DOMAIN dir)
      /\ \A n \in DOMAIN dir : IsFile(dir[n])
  BY DirectoriesAssumption
<1>2. YamlFiles \in SUBSET DOMAIN dir /\ \A n \in YamlFiles : dir[n].kind = "yaml"
  BY DEF YamlFiles
<1>3. IsFiniteSet(YamlFiles)
  BY <1>1, <1>2, FS_Subset
<1> QED BY <1>1, <1>2, <1>3 DEF IsFile, Declares

(* Files that merge, key by key.                                             *)
LEMMA MergeableIs ==
    ASSUME NEW F
    PROVE  Mergeable(F) <=>
             /\ \A n \in F : dir[n].status = "ok"
             /\ \A n \in F, k \in Keys : Has(n, k) => Text(n, k) # Malformed
             /\ \A n, m \in F, k \in Keys : Has(n, k) /\ Has(m, k) => n = m
<1>1. \A n \in F, k \in Keys : Has(n, k) <=> <<n, k.section, k.type>> \in Declarations(F)
  BY DEF Declarations, Has, Keys
<1>2. \A d \in Declarations(F) :
         /\ d[1] \in F /\ [section |-> d[2], type |-> d[3]] \in Keys
         /\ Has(d[1], [section |-> d[2], type |-> d[3]]) /\ d = <<d[1], d[2], d[3]>>
  BY DEF Declarations, Has, Keys
<1>3. ASSUME Mergeable(F)
      PROVE  /\ \A n \in F : dir[n].status = "ok"
             /\ \A n \in F, k \in Keys : Has(n, k) => Text(n, k) # Malformed
             /\ \A n, m \in F, k \in Keys : Has(n, k) /\ Has(m, k) => n = m
  <2>1. \A n \in F, k \in Keys : Has(n, k) => Text(n, k) # Malformed
    BY <1>1, <1>3 DEF Mergeable, Text
  <2>2. ASSUME NEW n \in F, NEW m \in F, NEW k \in Keys, Has(n, k), Has(m, k) PROVE n = m
    <3>1. <<n, k.section, k.type>> \in Declarations(F) /\ <<m, k.section, k.type>> \in Declarations(F)
      BY <1>1, <2>2
    <3>2. <<n, k.section, k.type>> = <<m, k.section, k.type>>
      BY <1>3, <3>1 DEF Mergeable
    <3> QED BY <3>2
  <2> QED BY <1>3, <2>1, <2>2 DEF Mergeable
<1>4. ASSUME /\ \A n \in F : dir[n].status = "ok"
             /\ \A n \in F, k \in Keys : Has(n, k) => Text(n, k) # Malformed
             /\ \A n, m \in F, k \in Keys : Has(n, k) /\ Has(m, k) => n = m
      PROVE  Mergeable(F)
  <2>1. \A d \in Declarations(F) : dir[d[1]].entries[d[2]][d[3]] # Malformed
    <3> TAKE d \in Declarations(F)
    <3> DEFINE k == [section |-> d[2], type |-> d[3]]
    <3>1. d[1] \in F /\ k \in Keys /\ Has(d[1], k) /\ k.section = d[2] /\ k.type = d[3]
      BY <1>2
    <3> HIDE DEF k
    <3>2. Text(d[1], k) # Malformed
      BY <1>4, <3>1
    <3> QED BY <3>1, <3>2 DEF Text
  <2>2. ASSUME NEW d \in Declarations(F), NEW e \in Declarations(F), d[2] = e[2], d[3] = e[3]
        PROVE  d = e
    BY <1>2, <1>4, <2>2
  <2> QED BY <1>4, <2>1, <2>2 DEF Mergeable
<1> QED BY <1>3, <1>4

LEMMA FewerMerge == ASSUME NEW F, NEW G \in SUBSET F, Mergeable(F) PROVE Mergeable(G)
BY MergeableIs

(* A directory that is usable, key by key.                                   *)
LEMMA UsableIs ==
    Usable <=>
        /\ dir # Unreadable /\ Mergeable(YamlFiles)
        /\ \A n \in YamlFiles, k \in Keys : Has(n, k) =>
              /\ SoundAlone(k.section, Text(n, k))
              /\ k.section = "iam_bindings" =>
                   \E m \in YamlFiles : Declares(m, "resources", Text(n, k).parent_resource)
<1> DEFINE Fit(d) == LET e == dir[d[1]].entries[d[2]][d[3]]
                     IN  /\ SoundAlone(d[2], e)
                         /\ d[2] = "iam_bindings" => \E n \in YamlFiles : Declares(n, "resources", e.parent_resource)
<1>1. ASSUME NEW n, NEW k \in Keys
      PROVE  Fit(<<n, k.section, k.type>>) <=>
              /\ SoundAlone(k.section, Text(n, k))
              /\ k.section = "iam_bindings" =>
                   \E m \in YamlFiles : Declares(m, "resources", Text(n, k).parent_resource)
  BY DEF Text
<1>2. Usable <=> /\ dir # Unreadable /\ Mergeable(YamlFiles)
                 /\ \A d \in Declarations(YamlFiles) : Fit(d)
  BY DEF Usable
<1> HIDE DEF Fit
<1>3. \A n \in YamlFiles, k \in Keys : Has(n, k) <=> <<n, k.section, k.type>> \in Declarations(YamlFiles)
  BY DEF Declarations, Has, Keys
<1>4. \A d \in Declarations(YamlFiles) :
         \E n \in YamlFiles, k \in Keys : Has(n, k) /\ d = <<n, k.section, k.type>>
  <2> TAKE d \in Declarations(YamlFiles)
  <2> DEFINE k == [section |-> d[2], type |-> d[3]]
  <2>1. d[1] \in YamlFiles /\ k \in Keys /\ Has(d[1], k) /\ d = <<d[1], k.section, k.type>>
    BY DEF Declarations, Has, Keys
  <2> QED BY <2>1
<1> QED BY <1>1, <1>2, <1>3, <1>4

-----------------------------------------------------------------------------
(* Every step keeps the invariant.                                          *)

LEMMA DirStays ==
    ASSUME dir' = dir
    PROVE  /\ YamlFiles' = YamlFiles /\ (Usable' <=> Usable)
           /\ \A F : Mergeable(F)' <=> Mergeable(F)
           /\ \A n, k : (Has(n, k)' <=> Has(n, k)) /\ Text(n, k)' = Text(n, k)
           /\ \A n : UpTo(n)' = UpTo(n)
BY DEF YamlFiles, Usable, Mergeable, Declarations, Declares, Has, Text, UpTo

LEMMA LoadStarts == Init => LoadInv
BY DEF Init, LoadInv, TypeOK, FilesInOrder, CatalogSoFar, FileAtHand, ValidatedSoFar, AllOrNothing,
       FirstErrorIsStable

(* When the file at hand does not go with those before it, it is the first.  *)
LEMMA FirstBad ==
    ASSUME LoadInv, pc \in {"read", "merge"}, files # <<>>, ~Mergeable(Past \union {Head(files)})
    PROVE  /\ ~Usable /\ Head(files) \in YamlFiles
           /\ ~Mergeable(UpTo(Head(files)))
           /\ \A m \in YamlFiles : m < Head(files) => Mergeable(UpTo(m))
<1> DEFINE h == Head(files)
<1>1. /\ dir \in Directories /\ dir # Unreadable /\ files \in Seq(YamlFiles)
      /\ \A i, k \in DOMAIN files : i < k => files[i] < files[k]
      /\ \A m \in Past, i \in DOMAIN files : m < files[i]
      /\ Mergeable(Past)
  BY DEF LoadInv, FilesInOrder
<1>2. YamlFiles \in SUBSET Nat
  BY <1>1, FilesAre
<1>3. h = files[1] /\ 1 \in DOMAIN files /\ h \in YamlFiles
  BY <1>1, TailIs
<1>4. \A i \in DOMAIN files : i = 1 \/ h < files[i]
  BY <1>1, <1>3
<1>5. \A m \in YamlFiles : m \in Past \/ \E i \in DOMAIN files : m = files[i]
  BY DEF Past, ToSet
<1>6. \A m \in YamlFiles : m \in Past \/ m = h \/ h < m
  BY <1>3, <1>4, <1>5
<1>7. \A m \in Past : m < h /\ m \in YamlFiles
  BY <1>1, <1>3 DEF Past
<1> HIDE DEF h
<1>u. \A n, m : m \in UpTo(n) <=> m \in YamlFiles /\ m <= n
  BY DEF UpTo
<1>n. h \in Nat /\ \A m \in YamlFiles : m \in Nat
  BY <1>2, <1>3
<1>8. UpTo(h) = Past \union {h}
  <2>1. \A m \in YamlFiles : m <= h <=> m \in Past \/ m = h
    BY <1>n, <1>6, <1>7
  <2> QED BY <1>3, <1>7, <1>u, <2>1
<1>9. ASSUME NEW m \in YamlFiles, m < h PROVE Mergeable(UpTo(m))
  <2>1. UpTo(m) \in SUBSET Past
    <3>1. \A k \in YamlFiles : k <= m => k \in Past
      BY <1>n, <1>6, <1>9
    <3> QED BY <1>u, <3>1
  <2> QED BY <1>1, <2>1, FewerMerge
<1>10. ~Mergeable(YamlFiles)
  <2>1. Past \union {h} \in SUBSET YamlFiles
    BY <1>3, <1>7
  <2> QED BY <2>1, FewerMerge DEF h
<1> QED BY <1>3, <1>8, <1>9, <1>10 DEF Usable, h

LEMMA FailureKeeps ==
    ASSUME LoadInv, NEW stage, NEW at, Fail(stage, at), pc # "done",
           \A k \in DOMAIN cat : firstSeen'[k] = firstSeen[k],
           ~Usable,
           dir # Unreadable =>
             IF stage = "validate" THEN Mergeable(YamlFiles)
             ELSE /\ at \in YamlFiles /\ ~Mergeable(UpTo(at))
                  /\ \A m \in YamlFiles : m < at => Mergeable(UpTo(m))
    PROVE  LoadInv'
<1>1. /\ dir' = dir /\ pc' = "done" /\ cat' = cat
      /\ result'.ok = FALSE /\ result'.stage = stage /\ result'.at = at
  BY DEF Fail
<1>2. AllOrNothing'
  <2>1. ~Usable' /\ result'.ok = FALSE
    BY <1>1, DirStays
  <2>2. Usable' \in BOOLEAN
    BY DEF Usable
  <2>3. result'.ok = Usable'
    BY <2>1, <2>2
  <2> QED BY <2>1, <2>3 DEF AllOrNothing
<1>3. FirstErrorIsStable'
  BY <1>1, DirStays DEF FirstErrorIsStable
<1>4. TypeOK'
  BY <1>1 DEF LoadInv, TypeOK
<1> QED BY <1>1, <1>2, <1>3, <1>4 DEF LoadInv, FilesInOrder, CatalogSoFar, FileAtHand, ValidatedSoFar

LEMMA ListKeeps == ASSUME LoadInv, List PROVE LoadInv'
<1>1. /\ dir \in Directories /\ dir # Unreadable /\ dir' = dir
      /\ files' = Sorted(YamlFiles) /\ pc' = "read" /\ cat' = cat /\ firstSeen' = firstSeen
      /\ DOMAIN cat = {} /\ DOMAIN firstSeen = {}
  BY DEF List, LoadInv, TypeOK, CatalogSoFar, Files, YamlFiles
<1>2. YamlFiles \in SUBSET Nat /\ IsFiniteSet(YamlFiles)
  BY <1>1, FilesAre
<1>3. /\ files' \in Seq(YamlFiles)
      /\ \A n \in YamlFiles : \E i \in DOMAIN files' : files'[i] = n
      /\ \A i, k \in DOMAIN files' : i < k => files'[i] < files'[k]
  BY <1>1, <1>2, SortedListsKeys
<1>4. Past' = {}
  BY <1>1, <1>3, DirStays DEF Past, ToSet
<1>5. Mergeable({})
  BY MergeableIs
<1>6. FilesInOrder'
  <2>1. files' \in Seq(YamlFiles')
    BY <1>1, <1>3, DirStays
  <2>2. Mergeable({})'
    BY <1>1, <1>5, DirStays
  <2> QED BY <1>1, <1>3, <1>4, <2>1, <2>2 DEF FilesInOrder
<1>7. CatalogSoFar'
  BY <1>1, <1>4, FS_EmptySet DEF CatalogSoFar, PastOfFile
<1>8. TypeOK'
  <2>1. \A i \in DOMAIN files' : files'[i] \in YamlFiles
    BY <1>3
  <2>2. \A i \in DOMAIN files' : dir[files'[i]].kind = "yaml"
    BY <2>1 DEF YamlFiles
  <2> QED BY <1>1, <2>2 DEF TypeOK
<1> QED BY <1>1, <1>6, <1>7, <1>8 DEF LoadInv, FileAtHand, ValidatedSoFar, AllOrNothing, FirstErrorIsStable

LEMMA ReadFailsKeeps == ASSUME LoadInv, ReadFails PROVE LoadInv'
<1>1. /\ pc = "read" /\ files # <<>> /\ Fail("read", Head(files)) /\ firstSeen' = firstSeen
      /\ dir[Head(files)].status # "ok"
  BY DEF ReadFails, File
<1>2. ~Mergeable(Past \union {Head(files)})
  BY <1>1, MergeableIs
<1>3. /\ ~Usable /\ Head(files) \in YamlFiles /\ ~Mergeable(UpTo(Head(files)))
      /\ \A m \in YamlFiles : m < Head(files) => Mergeable(UpTo(m))
  BY <1>1, <1>2, FirstBad
<1> QED BY <1>1, <1>3, FailureKeeps

(* The file at hand, and the entry.                                          *)
LEMMA AtHandIs ==
    ASSUME LoadInv, pc \in {"read", "merge"}, files # <<>>
    PROVE  /\ dir \in Directories /\ dir # Unreadable
           /\ Head(files) \in YamlFiles /\ Head(files) \notin Past /\ 1 \in DOMAIN files
           /\ Head(files) = files[1] /\ Tail(files) \in Seq(YamlFiles)
           /\ \A i \in DOMAIN Tail(files) : Head(files) < Tail(files)[i]
           /\ \A i, k \in DOMAIN Tail(files) : i < k => Tail(files)[i] < Tail(files)[k]
           /\ \A m \in Past, i \in DOMAIN Tail(files) : m < Tail(files)[i]
           /\ YamlFiles \ ToSet(Tail(files)) = Past \union {Head(files)}
<1>1. /\ dir \in Directories /\ dir # Unreadable /\ files \in Seq(YamlFiles)
      /\ \A i, k \in DOMAIN files : i < k => files[i] < files[k]
      /\ \A m \in Past, i \in DOMAIN files : m < files[i]
  BY DEF LoadInv, FilesInOrder
<1>2. \A m \in YamlFiles : m \in Nat
  BY <1>1, FilesAre
<1> DEFINE rest == Tail(files)
           h == Head(files)
<1>3. /\ 1 \in DOMAIN files /\ h = files[1] /\ h \in YamlFiles /\ rest \in Seq(YamlFiles)
      /\ \A i \in DOMAIN rest : i + 1 \in DOMAIN files /\ rest[i] = files[i + 1] /\ i \in Nat
      /\ \A x : x \in ToSet(files) <=> x = h \/ x \in ToSet(rest)
  BY <1>1, TailIs
<1> HIDE DEF rest, h
<1>4. \A i \in DOMAIN rest : h < rest[i]
  <2> TAKE i \in DOMAIN rest
  <2>1. i \in Nat /\ i >= 1
    BY <1>3
  <2>2. 1 < i + 1
    BY <2>1
  <2> QED BY <1>1, <1>3, <2>2
<1>5. \A i, k \in DOMAIN rest : i < k => rest[i] < rest[k]
  <2> TAKE i, k \in DOMAIN rest
  <2>1. i < k => i + 1 < k + 1
    BY <1>3
  <2> QED BY <1>1, <1>3, <2>1
<1>6. h \in ToSet(files)
  BY <1>3
<1>7. h \notin ToSet(rest)
  <2> SUFFICES ASSUME NEW i \in DOMAIN rest PROVE rest[i] # h
    BY DEF ToSet
  <2>1. h \in Nat
    BY <1>2, <1>3
  <2> QED BY <1>4, <2>1
<1>8. YamlFiles \ ToSet(rest) = Past \union {h}
  BY <1>3, <1>7 DEF Past
<1>9. h \notin Past
  BY <1>6 DEF Past
<1> QED BY <1>1, <1>3, <1>4, <1>5, <1>8, <1>9 DEF rest, h

LEMMA ReadFileKeeps == ASSUME LoadInv, ReadFile PROVE LoadInv'
<1> DEFINE h == Head(files)
           keysOf == [s \in Section |-> DOMAIN dir[h].entries[s]]
<1>1. /\ pc = "read" /\ files # <<>> /\ dir[h].status = "ok"
      /\ todo' = Agenda(keysOf)
      /\ pc' = "merge" /\ dir' = dir /\ files' = files /\ cat' = cat /\ firstSeen' = firstSeen
  BY DEF ReadFile, File
<1>2. /\ dir \in Directories /\ dir # Unreadable /\ h \in YamlFiles /\ h \notin Past
  BY <1>1, AtHandIs
<1>3. \A s \in Section : DOMAIN dir[h].entries[s] \subseteq Type /\ IsFiniteSet(DOMAIN dir[h].entries[s])
  BY <1>2, FilesAre DEF IsFile
<1>4. /\ todo' \in Seq(Keys)
      /\ \A i, k \in DOMAIN todo' : todo'[i] = todo'[k] => i = k
      /\ \A k \in Keys : k \in ToSet(todo') <=> Has(h, k)
  <2>1. keysOf \in [Section -> SUBSET Type] /\ \A s \in Section : IsFiniteSet(keysOf[s])
    BY <1>3
  <2>2. \A k \in Keys : Has(h, k) <=> k.type \in keysOf[k.section]
    BY DEF Has, Declares, Keys
  <2> HIDE DEF keysOf
  <2> QED BY <1>1, <2>1, <2>2, AgendaIs
<1> HIDE DEF keysOf, h
<1>5. Past' = Past /\ YamlFiles' = YamlFiles
  BY <1>1, DirStays DEF Past
<1>6. PastOfFile' = {}
  BY <1>1, <1>4, DirStays DEF PastOfFile, h
<1>7. FilesInOrder'
  <2>1. Mergeable(Past)
    BY <1>1 DEF LoadInv, FilesInOrder
  <2>2. Mergeable(Past)'
    BY <1>1, <1>5, <2>1, DirStays
  <2> QED BY <1>1, <1>5, <2>2 DEF LoadInv, FilesInOrder
<1>8. CatalogSoFar'
  BY <1>1, <1>5, <1>6, DirStays DEF LoadInv, CatalogSoFar, PastOfFile
<1>9. FileAtHand'
  <2>1. \A i \in DOMAIN todo' : todo'[i] \in Keys /\ todo'[i] \in ToSet(todo')
    BY <1>4 DEF ToSet
  <2> QED BY <1>1, <1>4, <1>6, <2>1, DirStays DEF FileAtHand, h
<1>10. TypeOK'
  <2>1. \A k \in DOMAIN cat : firstSeen[k] # h
    BY <1>1, <1>2 DEF LoadInv, CatalogSoFar
  <2> QED BY <1>1, <1>4, <2>1 DEF LoadInv, TypeOK, h
<1> QED BY <1>1, <1>7, <1>8, <1>9, <1>10 DEF LoadInv, ValidatedSoFar, AllOrNothing, FirstErrorIsStable

LEMMA MergingIs ==
    ASSUME LoadInv, Merging
    PROVE  /\ pc = "merge" /\ files # <<>> /\ todo \in Seq(Keys)
           /\ Key \in Keys /\ Has(Head(files), Key) /\ Key \notin PastOfFile /\ Key = todo[1]
           /\ Found = Text(Head(files), Key) /\ 1 \in DOMAIN todo /\ Tail(todo) \in Seq(Keys)
           /\ \A k : k \in ToSet(todo) <=> k = Key \/ k \in ToSet(Tail(todo))
           /\ \A i \in DOMAIN Tail(todo) : i + 1 \in DOMAIN todo /\ Tail(todo)[i] = todo[i + 1] /\ i \in Nat
           /\ DOMAIN cat = DOMAIN firstSeen
<1>1. /\ pc = "merge" /\ files # <<>> /\ todo # <<>> /\ todo \in Seq(Keys)
      /\ \A i \in DOMAIN todo : Has(Head(files), todo[i])
  BY DEF Merging, LoadInv, FileAtHand
<1>2. /\ Key = todo[1] /\ Key \in Keys /\ 1 \in DOMAIN todo /\ Tail(todo) \in Seq(Keys)
      /\ \A k : k \in ToSet(todo) <=> k = Key \/ k \in ToSet(Tail(todo))
      /\ \A i \in DOMAIN Tail(todo) : i + 1 \in DOMAIN todo /\ Tail(todo)[i] = todo[i + 1] /\ i \in Nat
  BY <1>1, TailIs DEF Key
<1>3. Key \notin PastOfFile
  BY <1>2 DEF PastOfFile
<1>4. Found = Text(Head(files), Key)
  BY DEF Found, File, Text
<1> QED BY <1>1, <1>2, <1>3, <1>4 DEF LoadInv, TypeOK

LEMMA DuplicateKeeps == ASSUME LoadInv, Duplicate PROVE LoadInv'
<1>1. /\ Merging /\ Key \in DOMAIN firstSeen /\ Fail("duplicate", Head(files)) /\ firstSeen' = firstSeen
  BY DEF Duplicate, SeenBefore
<1>2. /\ pc = "merge" /\ files # <<>> /\ Key \in Keys /\ Has(Head(files), Key) /\ Key \notin PastOfFile
      /\ Key \in DOMAIN cat
  BY <1>1, MergingIs
<1>3. Head(files) \notin Past
  BY <1>2, AtHandIs
<1>4. firstSeen[Key] \in Past /\ Has(firstSeen[Key], Key)
  BY <1>2 DEF LoadInv, CatalogSoFar
<1>5. ~Mergeable(Past \union {Head(files)})
  BY <1>2, <1>3, <1>4, MergeableIs
<1>6. /\ ~Usable /\ Head(files) \in YamlFiles /\ ~Mergeable(UpTo(Head(files)))
      /\ \A m \in YamlFiles : m < Head(files) => Mergeable(UpTo(m))
  BY <1>2, <1>5, FirstBad
<1> QED BY <1>1, <1>2, <1>6, FailureKeeps

LEMMA EntryFailsKeeps == ASSUME LoadInv, EntryFails PROVE LoadInv'
<1>1. /\ Merging /\ Key \notin DOMAIN firstSeen /\ Fail("decode", Head(files)) /\ Found = Malformed
      /\ firstSeen' = Put(firstSeen, Key, Head(files))
  BY DEF EntryFails, SeenBefore
<1>2. /\ pc = "merge" /\ files # <<>> /\ Key \in Keys /\ Has(Head(files), Key)
      /\ DOMAIN cat = DOMAIN firstSeen /\ Text(Head(files), Key) = Malformed
  BY <1>1, MergingIs
<1>3. ~Mergeable(Past \union {Head(files)})
  BY <1>2, MergeableIs
<1>4. /\ ~Usable /\ Head(files) \in YamlFiles /\ ~Mergeable(UpTo(Head(files)))
      /\ \A m \in YamlFiles : m < Head(files) => Mergeable(UpTo(m))
  BY <1>2, <1>3, FirstBad
<1>5. \A k \in DOMAIN cat : firstSeen'[k] = firstSeen[k]
  <2>1. \A k \in DOMAIN firstSeen : k # Key => Put(firstSeen, Key, Head(files))[k] = firstSeen[k]
    BY DEF Put
  <2> QED BY <1>1, <1>2, <2>1
<1> QED BY <1>1, <1>2, <1>4, <1>5, FailureKeeps

LEMMA InsertKeeps == ASSUME LoadInv, Insert PROVE LoadInv'
<1> DEFINE h == Head(files)
<1>1. /\ Merging /\ Key \notin DOMAIN firstSeen /\ Found # Malformed
      /\ cat' = Put(cat, Key, Found) /\ firstSeen' = Put(firstSeen, Key, h) /\ todo' = Tail(todo)
      /\ dir' = dir /\ pc' = pc /\ files' = files
  BY DEF Insert, SeenBefore
<1>2. /\ pc = "merge" /\ files # <<>> /\ todo \in Seq(Keys)
      /\ Key \in Keys /\ Has(h, Key) /\ Key \notin PastOfFile /\ Key = todo[1]
      /\ Found = Text(h, Key) /\ 1 \in DOMAIN todo /\ Tail(todo) \in Seq(Keys)
      /\ \A k : k \in ToSet(todo) <=> k = Key \/ k \in ToSet(Tail(todo))
      /\ \A i \in DOMAIN Tail(todo) : i + 1 \in DOMAIN todo /\ Tail(todo)[i] = todo[i + 1] /\ i \in Nat
      /\ DOMAIN cat = DOMAIN firstSeen
  BY <1>1, MergingIs
<1>3. /\ h \in YamlFiles /\ h \notin Past /\ dir[h].status = "ok"
  BY <1>2, AtHandIs DEF LoadInv, FileAtHand
<1> DEFINE key == Key
           found == Found
<1>p. /\ DOMAIN cat' = DOMAIN cat \union {key} /\ cat'[key] = found
      /\ \A k \in DOMAIN cat : cat'[k] = cat[k]
      /\ DOMAIN firstSeen' = DOMAIN cat \union {key} /\ firstSeen'[key] = h
      /\ \A k \in DOMAIN cat : firstSeen'[k] = firstSeen[k]
  <2>1. /\ DOMAIN Put(cat, key, found) = DOMAIN cat \union {key}
        /\ Put(cat, key, found)[key] = found
        /\ \A x \in DOMAIN cat : x # key => Put(cat, key, found)[x] = cat[x]
    BY DEF Put
  <2>2. /\ DOMAIN Put(firstSeen, key, h) = DOMAIN firstSeen \union {key}
        /\ Put(firstSeen, key, h)[key] = h
        /\ \A x \in DOMAIN firstSeen : x # key => Put(firstSeen, key, h)[x] = firstSeen[x]
    BY DEF Put
  <2>3. cat' = Put(cat, key, found) /\ firstSeen' = Put(firstSeen, key, h) /\ key \notin DOMAIN firstSeen
    BY <1>1
  <2> HIDE DEF key, found, h
  <2> QED BY <1>2, <2>1, <2>2, <2>3
<1>k. /\ key \in Keys /\ Has(h, key) /\ key \notin PastOfFile /\ key = todo[1] /\ found = Text(h, key)
      /\ found # Malformed /\ key \notin DOMAIN cat
      /\ \A k : k \in ToSet(todo) <=> k = key \/ k \in ToSet(todo')
  BY <1>1, <1>2
<1>h. h' = h
  BY <1>1
<1> HIDE DEF key, found, h
<1>4. Past' = Past /\ YamlFiles' = YamlFiles
  BY <1>1, DirStays DEF Past
<1>5. \A i \in DOMAIN todo, k \in DOMAIN todo : todo[i] = todo[k] => i = k
  BY <1>2 DEF LoadInv, TypeOK
<1>6. key \notin ToSet(todo')
  <2> SUFFICES ASSUME NEW i \in DOMAIN todo' PROVE todo'[i] # key
    BY DEF ToSet
  <2>1. i + 1 \in DOMAIN todo /\ todo'[i] = todo[i + 1] /\ i \in Nat /\ i >= 1
    BY <1>1, <1>2
  <2>2. i + 1 # 1
    BY <2>1
  <2> QED BY <1>2, <1>5, <1>k, <2>1, <2>2
<1>7. /\ \A k \in PastOfFile : k \in Keys /\ Has(h, k) /\ k \notin ToSet(todo)
      /\ \A k \in Keys : k \in PastOfFile' <=> k \in PastOfFile \/ k = key
      /\ PastOfFile' \subseteq Keys
  <2>1. \A k \in Keys : k \in PastOfFile <=> Has(h, k) /\ k \notin ToSet(todo)
    BY <1>2 DEF PastOfFile, h
  <2>2. \A k \in Keys : k \in PastOfFile' <=> Has(h, k) /\ k \notin ToSet(todo')
    BY <1>1, <1>2, <1>h, DirStays DEF PastOfFile, h
  <2>3. PastOfFile' \subseteq Keys /\ PastOfFile \subseteq Keys
    BY DEF PastOfFile
  <2> QED BY <1>k, <1>6, <2>1, <2>2, <2>3
<1>8. FilesInOrder'
  <2>1. Mergeable(Past)
    BY <1>2 DEF LoadInv, FilesInOrder
  <2>2. Mergeable(Past)'
    BY <1>1, <1>4, <2>1, DirStays
  <2> QED BY <1>1, <1>2, <1>4, <2>2 DEF LoadInv, FilesInOrder
<1>9. CatalogSoFar'
  <2>0. /\ DOMAIN cat \subseteq Keys /\ IsFiniteSet(DOMAIN cat)
        /\ \A k \in Keys : k \in DOMAIN cat <=> k \in PastOfFile \/ \E n \in Past : Has(n, k)
        /\ \A k \in DOMAIN cat : /\ Has(firstSeen[k], k)
                                 /\ firstSeen[k] \in Past \/ (firstSeen[k] = h /\ k \in PastOfFile)
    BY <1>2 DEF LoadInv, CatalogSoFar, h
  <2>1. DOMAIN cat' \subseteq Keys /\ IsFiniteSet(DOMAIN cat')
    BY <1>k, <1>p, <2>0, FS_AddElement
  <2>2. \A k \in Keys : k \in DOMAIN cat' <=> k \in PastOfFile' \/ \E n \in Past : Has(n, k)
    BY <1>k, <1>p, <1>7, <2>0
  <2>3. ASSUME NEW k \in DOMAIN cat'
        PROVE  /\ Has(firstSeen'[k], k)
               /\ firstSeen'[k] \in Past \/ (firstSeen'[k] = h /\ k \in PastOfFile')
    BY <1>k, <1>p, <1>7, <2>0, <2>1
  <2>4. \A k \in Keys : k \in DOMAIN cat' <=> k \in PastOfFile' \/ \E n \in Past' : Has(n, k)'
    BY <1>1, <1>4, <2>2, DirStays
  <2>5. \A k \in DOMAIN cat' : /\ Has(firstSeen[k], k)'
                               /\ firstSeen'[k] \in Past' \/ (firstSeen'[k] = h' /\ k \in PastOfFile')
    BY <1>1, <1>4, <1>h, <2>3, DirStays
  <2>6. pc' = "merge" /\ h' = Head(files)'
    BY <1>1, <1>2 DEF h
  <2> QED BY <2>1, <2>4, <2>5, <2>6 DEF CatalogSoFar
<1>10. FileAtHand'
  <2>1. \A k \in PastOfFile : Text(h, k) # Malformed /\ \A n \in Past : ~Has(n, k)
    BY <1>2 DEF LoadInv, FileAtHand, h
  <2>2. \A n \in Past : ~Has(n, key)
    BY <1>2, <1>k DEF LoadInv, CatalogSoFar
  <2>3. \A k \in PastOfFile' : Text(h, k) # Malformed /\ \A n \in Past : ~Has(n, k)
    BY <1>k, <1>7, <2>1, <2>2
  <2>4. \A i \in DOMAIN todo' : Has(h, todo'[i])
    BY <1>1, <1>2 DEF LoadInv, FileAtHand, h
  <2>5. /\ files' # <<>> /\ dir'[Head(files')].status = "ok" /\ todo' \in Seq(Keys)
    BY <1>1, <1>2, <1>3 DEF h
  <2>6. \A i \in DOMAIN todo' : Has(Head(files), todo[i])'
    BY <1>1, <2>4, DirStays DEF h
  <2>7. \A k \in PastOfFile' : Text(Head(files), k)' # Malformed /\ \A n \in Past' : ~Has(n, k)'
    BY <1>1, <1>4, <2>3, DirStays DEF h
  <2> QED BY <2>5, <2>6, <2>7 DEF FileAtHand
<1>11. TypeOK'
  <2>1. \A k \in DOMAIN cat : cat[k] = dir[firstSeen[k]].entries[k.section][k.type]
    BY DEF LoadInv, TypeOK
  <2>2. \A k \in DOMAIN cat' : cat'[k] = dir[firstSeen'[k]].entries[k.section][k.type]
    BY <1>k, <1>p, <2>1 DEF Text
  <2>3. \A i, k \in DOMAIN todo' : todo'[i] = todo'[k] => i = k
    <3> TAKE i, k \in DOMAIN todo'
    <3>1. /\ i + 1 \in DOMAIN todo /\ todo'[i] = todo[i + 1] /\ i \in Nat
          /\ k + 1 \in DOMAIN todo /\ todo'[k] = todo[k + 1] /\ k \in Nat
      BY <1>1, <1>2
    <3>2. todo'[i] = todo'[k] => i + 1 = k + 1
      BY <1>5, <3>1
    <3> QED BY <3>1, <3>2
  <2>4. \A i \in DOMAIN todo' : todo'[i] \in DOMAIN cat' => firstSeen'[todo'[i]] # h
    <3> SUFFICES ASSUME NEW i \in DOMAIN todo', todo'[i] \in DOMAIN cat' PROVE firstSeen'[todo'[i]] # h
      OBVIOUS
    <3>1. todo'[i] \in ToSet(todo') /\ i + 1 \in DOMAIN todo /\ todo'[i] = todo[i + 1]
      BY <1>1, <1>2 DEF ToSet
    <3>2. todo'[i] # key /\ todo'[i] \in DOMAIN cat
      BY <1>6, <1>p, <3>1
    <3>3. firstSeen[todo'[i]] # h
      BY <1>2, <3>1, <3>2 DEF LoadInv, TypeOK, h
    <3> QED BY <1>p, <3>2, <3>3
  <2>5. \A i \in DOMAIN files : dir[files[i]].kind = "yaml"
    BY <1>2 DEF LoadInv, TypeOK
  <2> QED BY <1>1, <1>2, <1>h, <1>p, <2>2, <2>3, <2>4, <2>5 DEF TypeOK, h
<1> QED BY <1>1, <1>2, <1>8, <1>9, <1>10, <1>11
       DEF LoadInv, ValidatedSoFar, AllOrNothing, FirstErrorIsStable

LEMMA FileDoneKeeps == ASSUME LoadInv, FileDone PROVE LoadInv'
<1> DEFINE h == Head(files)
<1>1. /\ pc = "merge" /\ todo = <<>> /\ pc' = "read" /\ files' = Tail(files)
      /\ dir' = dir /\ cat' = cat /\ firstSeen' = firstSeen /\ files # <<>> /\ dir[h].status = "ok"
  BY DEF FileDone, LoadInv, FileAtHand
<1>2. /\ dir # Unreadable /\ files' \in Seq(YamlFiles)
      /\ \A i, k \in DOMAIN files' : i < k => files'[i] < files'[k]
      /\ \A i \in DOMAIN files' : h < files'[i]
      /\ \A m \in Past, i \in DOMAIN files' : m < files'[i]
      /\ YamlFiles \ ToSet(files') = Past \union {h}
  BY <1>1, AtHandIs
<1> HIDE DEF h
<1>3. Past' = Past \union {h} /\ YamlFiles' = YamlFiles
  BY <1>1, <1>2, DirStays DEF Past
<1>4. \A k \in Keys : k \in PastOfFile <=> Has(h, k)
  BY <1>1 DEF PastOfFile, ToSet, h
<1>5. Mergeable(Past \union {h})
  <2>1. Mergeable(Past) /\ \A k \in PastOfFile : Text(h, k) # Malformed /\ \A n \in Past : ~Has(n, k)
    BY <1>1 DEF LoadInv, FilesInOrder, FileAtHand, h
  <2>2. \A n \in Past \union {h}, k \in Keys : Has(n, k) => Text(n, k) # Malformed
    BY <1>4, <2>1, MergeableIs
  <2>3. \A n, m \in Past \union {h}, k \in Keys : Has(n, k) /\ Has(m, k) => n = m
    BY <1>4, <2>1, MergeableIs
  <2>4. \A n \in Past \union {h} : dir[n].status = "ok"
    BY <1>1, <2>1, MergeableIs
  <2> QED BY <2>2, <2>3, <2>4, MergeableIs
<1>6. FilesInOrder'
  <2>1. Mergeable(Past)'
    BY <1>1, <1>3, <1>5, DirStays
  <2>2. \A m \in Past', i \in DOMAIN files' : m < files'[i]
    BY <1>2, <1>3
  <2> QED BY <1>1, <1>2, <1>3, <2>1, <2>2 DEF FilesInOrder
<1>7. CatalogSoFar'
  <2>0. /\ DOMAIN cat \subseteq Keys /\ IsFiniteSet(DOMAIN cat)
        /\ \A k \in Keys : k \in DOMAIN cat <=> k \in PastOfFile \/ \E n \in Past : Has(n, k)
        /\ \A k \in DOMAIN cat : /\ Has(firstSeen[k], k)
                                 /\ firstSeen[k] \in Past \/ (firstSeen[k] = h /\ k \in PastOfFile)
    BY <1>1 DEF LoadInv, CatalogSoFar, h
  <2>1. PastOfFile' = {}
    BY <1>1 DEF PastOfFile
  <2>2. \A k \in Keys : k \in DOMAIN cat' <=> \E n \in Past' : Has(n, k)
    BY <1>1, <1>3, <1>4, <2>0
  <2>3. \A k \in Keys : k \in DOMAIN cat' <=> \E n \in Past' : Has(n, k)'
    BY <1>1, <2>2, DirStays
  <2>4. \A k \in DOMAIN cat' : Has(firstSeen[k], k)' /\ firstSeen'[k] \in Past'
    <3>1. \A k \in DOMAIN cat' : Has(firstSeen'[k], k) /\ firstSeen'[k] \in Past'
      BY <1>1, <1>3, <2>0
    <3> QED BY <1>1, <3>1, DirStays
  <2> QED BY <1>1, <2>0, <2>1, <2>3, <2>4 DEF CatalogSoFar
<1>8. TypeOK'
  <2>1. \A i \in DOMAIN files' : files'[i] \in YamlFiles
    BY <1>2
  <2>2. \A i \in DOMAIN files' : dir[files'[i]].kind = "yaml"
    BY <2>1 DEF YamlFiles
  <2> QED BY <1>1, <2>2 DEF LoadInv, TypeOK
<1> QED BY <1>1, <1>6, <1>7, <1>8 DEF LoadInv, FileAtHand, ValidatedSoFar, AllOrNothing, FirstErrorIsStable

LEMMA FilesDoneKeeps == ASSUME LoadInv, FilesDone PROVE LoadInv'
<1> DEFINE typesOf(s) == {t \in Type : [section |-> s, type |-> t] \in DOMAIN cat}
           keysOf == [s \in Section |-> typesOf(s)]
<1>1. /\ pc = "read" /\ files = <<>> /\ pc' = "validate" /\ todo' = Agenda(keysOf)
      /\ dir' = dir /\ files' = files /\ cat' = cat /\ firstSeen' = firstSeen
  BY DEF FilesDone
<1>2. DOMAIN cat \subseteq Keys /\ IsFiniteSet(DOMAIN cat)
  BY <1>1 DEF LoadInv, CatalogSoFar
<1>3. ASSUME NEW s \in Section PROVE IsFiniteSet(typesOf(s))
  <2> DEFINE f == [t \in typesOf(s) |-> [section |-> s, type |-> t]]
  <2>1. f \in [typesOf(s) -> DOMAIN cat]
    OBVIOUS
  <2>2. \A t, u \in typesOf(s) : f[t] = f[u] => t = u
    OBVIOUS
  <2>3. f \in Injection(typesOf(s), DOMAIN cat)
    BY <2>1, <2>2 DEF Injection, IsInjective
  <2> QED BY <1>2, <2>3, FS_Injection
<1>4. /\ todo' \in Seq(Keys)
      /\ \A k \in Keys : k \in ToSet(todo') <=> k \in DOMAIN cat
  <2>1. keysOf \in [Section -> SUBSET Type] /\ \A s \in Section : IsFiniteSet(keysOf[s])
    BY <1>3
  <2>2. \A k \in Keys : k \in DOMAIN cat <=> k.type \in keysOf[k.section]
    BY DEF Keys
  <2> HIDE DEF keysOf
  <2> QED BY <1>1, <2>1, <2>2, AgendaIs
<1> HIDE DEF keysOf, typesOf
<1>5. todo' \in Seq(DOMAIN cat)
  <2>1. \A i \in DOMAIN todo' : todo'[i] \in DOMAIN cat
    BY <1>4 DEF ToSet
  <2>2. todo' \in [1 .. Len(todo') -> DOMAIN cat] /\ Len(todo') \in Nat
    BY <1>4, <2>1
  <2> QED BY <2>2
<1>6. Past' = Past /\ YamlFiles' = YamlFiles /\ PastOfFile' = {} /\ PastOfFile = {}
  BY <1>1, DirStays DEF Past, PastOfFile
<1>7. FilesInOrder'
  <2>1. Mergeable(Past)
    BY <1>1 DEF LoadInv, FilesInOrder
  <2>2. Mergeable(Past)'
    BY <1>1, <1>6, <2>1, DirStays
  <2> QED BY <1>1, <1>6, <2>2 DEF LoadInv, FilesInOrder
<1>8. CatalogSoFar'
  BY <1>1, <1>6, DirStays DEF LoadInv, CatalogSoFar
<1>9. ValidatedSoFar'
  BY <1>1, <1>2, <1>4, <1>5 DEF ValidatedSoFar
<1>10. TypeOK'
  BY <1>1 DEF LoadInv, TypeOK
<1> QED BY <1>1, <1>7, <1>8, <1>9, <1>10 DEF LoadInv, FileAtHand, AllOrNothing, FirstErrorIsStable

(* The validator looks at the entries the files have.                        *)
LEMMA PassesIs ==
    ASSUME LoadInv, pc = "validate", NEW n \in YamlFiles, NEW k \in Keys, Has(n, k)
    PROVE  /\ k \in DOMAIN cat /\ cat[k] = Text(n, k)
           /\ Passes(k) <=>
                /\ SoundAlone(k.section, Text(n, k))
                /\ k.section = "iam_bindings" =>
                     \E m \in YamlFiles : Declares(m, "resources", Text(n, k).parent_resource)
<1>1. /\ Past = YamlFiles /\ PastOfFile = {}
  BY DEF LoadInv, ValidatedSoFar, Past, PastOfFile, ToSet
<1>2. /\ dir \in Directories /\ dir # Unreadable /\ Mergeable(YamlFiles)
  BY <1>1 DEF LoadInv, FilesInOrder
<1>3. /\ DOMAIN cat \subseteq Keys
      /\ \A x \in Keys : x \in DOMAIN cat <=> \E m \in YamlFiles : Has(m, x)
      /\ \A x \in DOMAIN cat : Has(firstSeen[x], x) /\ firstSeen[x] \in YamlFiles
  BY <1>1 DEF LoadInv, CatalogSoFar
<1>4. k \in DOMAIN cat /\ firstSeen[k] = n
  BY <1>2, <1>3, MergeableIs
<1>5. cat[k] = Text(n, k)
  BY <1>4 DEF LoadInv, TypeOK, Text
<1>6. ASSUME NEW t
      PROVE  [section |-> "resources", type |-> t] \in DOMAIN cat <=> \E m \in YamlFiles : Declares(m, "resources", t)
  <2> DEFINE x == [section |-> "resources", type |-> t]
  <2>1. x \in DOMAIN cat => t \in Type
    BY <1>3 DEF Keys
  <2>2. \A m \in YamlFiles : Declares(m, "resources", t) => t \in Type
    BY <1>2, FilesAre, SectionIs
  <2>3. t \in Type => x \in Keys
    BY SectionIs DEF Keys
  <2>4. \A m : Has(m, x) <=> Declares(m, "resources", t)
    BY DEF Has
  <2> HIDE DEF x
  <2>5. x \in DOMAIN cat <=> \E m \in YamlFiles : Declares(m, "resources", t)
    BY <1>3, <2>1, <2>2, <2>3, <2>4
  <2> QED BY <2>5 DEF x
<1> QED BY <1>4, <1>5, <1>6 DEF Passes

LEMMA ValidatingIs ==
    ASSUME LoadInv, Validating
    PROVE  /\ pc = "validate" /\ Key \in DOMAIN cat /\ Key \in Keys /\ Tail(todo) \in Seq(DOMAIN cat)
           /\ \A k : k \in ToSet(todo) <=> k = Key \/ k \in ToSet(Tail(todo))
           /\ \E n \in YamlFiles : Has(n, Key)
<1>1. /\ pc = "validate" /\ todo # <<>> /\ todo \in Seq(DOMAIN cat) /\ files = <<>>
  BY DEF Validating, LoadInv, ValidatedSoFar
<1>2. /\ Key \in DOMAIN cat /\ Tail(todo) \in Seq(DOMAIN cat)
      /\ \A k : k \in ToSet(todo) <=> k = Key \/ k \in ToSet(Tail(todo))
  BY <1>1, TailIs DEF Key
<1>3. Key \in Keys /\ Has(firstSeen[Key], Key) /\ firstSeen[Key] \in Past
  BY <1>1, <1>2 DEF LoadInv, CatalogSoFar
<1> QED BY <1>1, <1>2, <1>3 DEF Past

LEMMA AcceptKeeps == ASSUME LoadInv, Accept PROVE LoadInv'
<1>1. /\ Validating /\ Passes(Key) /\ todo' = Tail(todo)
      /\ dir' = dir /\ pc' = pc /\ files' = files /\ cat' = cat /\ firstSeen' = firstSeen
  BY DEF Accept
<1>2. /\ pc = "validate" /\ Tail(todo) \in Seq(DOMAIN cat)
      /\ \A k : k \in ToSet(todo) <=> k = Key \/ k \in ToSet(Tail(todo))
  BY <1>1, ValidatingIs
<1>3. Past' = Past /\ YamlFiles' = YamlFiles /\ PastOfFile' = {} /\ PastOfFile = {}
  BY <1>1, <1>2, DirStays DEF Past, PastOfFile
<1>4. FilesInOrder'
  <2>1. Mergeable(Past)
    BY <1>2 DEF LoadInv, FilesInOrder
  <2>2. Mergeable(Past)'
    BY <1>1, <1>3, <2>1, DirStays
  <2> QED BY <1>1, <1>2, <1>3, <2>2 DEF LoadInv, FilesInOrder
<1>5. CatalogSoFar'
  BY <1>1, <1>2, <1>3, DirStays DEF LoadInv, CatalogSoFar
<1>6. ValidatedSoFar'
  <2>1. \A k : Passes(k)' <=> Passes(k)
    BY <1>1 DEF Passes
  <2>2. \A k \in DOMAIN cat : k \in ToSet(todo') \/ Passes(k)
    BY <1>1, <1>2 DEF LoadInv, ValidatedSoFar
  <2> QED BY <1>1, <1>2, <2>1, <2>2 DEF LoadInv, ValidatedSoFar
<1>7. TypeOK'
  BY <1>1, <1>2 DEF LoadInv, TypeOK
<1> QED BY <1>1, <1>2, <1>4, <1>5, <1>6, <1>7 DEF LoadInv, FileAtHand, AllOrNothing, FirstErrorIsStable

LEMMA RejectKeeps == ASSUME LoadInv, Reject PROVE LoadInv'
<1>1. Validating /\ ~Passes(Key) /\ Fail("validate", firstSeen[Key]) /\ firstSeen' = firstSeen
  BY DEF Reject
<1>2. pc = "validate" /\ Key \in Keys
  BY <1>1, ValidatingIs
<1>3. PICK n \in YamlFiles : Has(n, Key)
  BY <1>1, ValidatingIs
<1>4. ~Usable
  BY <1>1, <1>2, <1>3, PassesIs, UsableIs
<1>5. Mergeable(YamlFiles)
  <2>1. Mergeable(Past) /\ files = <<>>
    BY <1>2 DEF LoadInv, FilesInOrder, ValidatedSoFar
  <2>2. Past = YamlFiles
    BY <2>1 DEF Past, ToSet
  <2> QED BY <2>1, <2>2
<1> QED BY <1>1, <1>2, <1>4, <1>5, FailureKeeps

LEMMA ReturnKeeps == ASSUME LoadInv, Return PROVE LoadInv'
<1>1. /\ pc = "validate" /\ todo = <<>> /\ result' = [ok |-> TRUE, catalog |-> cat] /\ pc' = "done"
      /\ dir' = dir /\ cat' = cat /\ firstSeen' = firstSeen
  BY DEF Return
<1>2. /\ Past = YamlFiles /\ PastOfFile = {} /\ \A k \in DOMAIN cat : Passes(k)
  BY <1>1 DEF LoadInv, ValidatedSoFar, Past, PastOfFile, ToSet
<1>3. /\ dir # Unreadable /\ Mergeable(YamlFiles) /\ DOMAIN cat \subseteq Keys
      /\ \A k \in Keys : k \in DOMAIN cat <=> \E n \in YamlFiles : Has(n, k)
  BY <1>1, <1>2 DEF LoadInv, FilesInOrder, CatalogSoFar
<1>4. Usable
  BY <1>1, <1>2, <1>3, PassesIs, UsableIs
<1>5. \A d \in Declarations(YamlFiles) :
         /\ d[1] \in YamlFiles /\ [section |-> d[2], type |-> d[3]] \in Keys
         /\ Has(d[1], [section |-> d[2], type |-> d[3]])
  BY DEF Declarations, Has, Keys
<1>6. DOMAIN cat = {[section |-> d[2], type |-> d[3]] : d \in Declarations(YamlFiles)}
  <2>1. ASSUME NEW k \in DOMAIN cat
        PROVE  \E d \in Declarations(YamlFiles) : k = [section |-> d[2], type |-> d[3]]
    <3>1. PICK n \in YamlFiles : Has(n, k)
      BY <1>3
    <3>2. <<n, k.section, k.type>> \in Declarations(YamlFiles) /\ k = [section |-> k.section, type |-> k.type]
      BY <1>3, <3>1 DEF Declarations, Has, Keys
    <3> QED BY <3>2
  <2>2. ASSUME NEW d \in Declarations(YamlFiles) PROVE [section |-> d[2], type |-> d[3]] \in DOMAIN cat
    <3> DEFINE k == [section |-> d[2], type |-> d[3]]
    <3>1. k \in Keys /\ d[1] \in YamlFiles /\ Has(d[1], k)
      BY <1>5
    <3> HIDE DEF k
    <3>2. k \in DOMAIN cat
      BY <1>3, <3>1
    <3> QED BY <3>2 DEF k
  <2> QED BY <2>1, <2>2
<1>7. ASSUME NEW d \in Declarations(YamlFiles)
      PROVE  cat[[section |-> d[2], type |-> d[3]]] = dir[d[1]].entries[d[2]][d[3]]
  <2> DEFINE k == [section |-> d[2], type |-> d[3]]
  <2>1. d[1] \in YamlFiles /\ k \in Keys /\ Has(d[1], k) /\ k.section = d[2] /\ k.type = d[3]
    BY <1>5
  <2> HIDE DEF k
  <2>2. cat[k] = Text(d[1], k)
    BY <1>1, <2>1, PassesIs
  <2> QED BY <2>1, <2>2 DEF Text, k
<1>8. AllOrNothing'
  <2>1. Usable' /\ result'.ok = TRUE /\ result'.catalog = cat
    BY <1>1, <1>4, DirStays
  <2>2. Usable' \in BOOLEAN
    BY DEF Usable
  <2>3. result'.ok = Usable'
    BY <2>1, <2>2
  <2>4. Declarations(YamlFiles)' = Declarations(YamlFiles)
    BY <1>1 DEF Declarations, YamlFiles, Declares
  <2> QED BY <1>1, <1>6, <1>7, <2>1, <2>3, <2>4 DEF AllOrNothing
<1>9. FirstErrorIsStable'
  BY <1>1 DEF FirstErrorIsStable
<1>10. TypeOK'
  BY <1>1 DEF LoadInv, TypeOK
<1> QED BY <1>1, <1>8, <1>9, <1>10 DEF LoadInv, FilesInOrder, CatalogSoFar, FileAtHand, ValidatedSoFar

LEMMA ListFailsKeeps == ASSUME LoadInv, ListFails PROVE LoadInv'
BY FailureKeeps DEF ListFails, Usable

LEMMA LoadStep == LoadInv /\ [Next]_vars => LoadInv'
<1> SUFFICES ASSUME LoadInv, [Next]_vars PROVE LoadInv'
  OBVIOUS
<1>1. CASE Next
  BY <1>1, ListFailsKeeps, ListKeeps, ReadFailsKeeps, ReadFileKeeps, DuplicateKeeps, EntryFailsKeeps,
     InsertKeeps, FileDoneKeeps, FilesDoneKeeps, AcceptKeeps, RejectKeeps, ReturnKeeps DEF Next
<1>2. CASE UNCHANGED vars
  <2>1. /\ dir' = dir /\ pc' = pc /\ files' = files /\ todo' = todo /\ cat' = cat
        /\ firstSeen' = firstSeen /\ result' = result
    BY <1>2 DEF vars
  <2>2. YamlFiles' = YamlFiles /\ Past' = Past /\ PastOfFile' = PastOfFile
    BY <2>1, DirStays DEF Past, PastOfFile
  <2>3. Mergeable(Past)' <=> Mergeable(Past)
    BY <2>2, <2>1, DirStays
  <2>4. FilesInOrder'
    BY <2>1, <2>2, <2>3 DEF LoadInv, FilesInOrder
  <2>5. CatalogSoFar'
    BY <2>1, <2>2, DirStays DEF LoadInv, CatalogSoFar
  <2>6. FileAtHand'
    BY <2>1, <2>2, DirStays DEF LoadInv, FileAtHand
  <2>7. ValidatedSoFar'
    BY <2>1 DEF LoadInv, ValidatedSoFar, Passes
  <2>8. TypeOK'
    BY <2>1 DEF LoadInv, TypeOK
  <2>9. AllOrNothing'
    BY <2>1, ZenonT(60) DEF LoadInv, AllOrNothing, Usable, Mergeable, Declarations, Declares, YamlFiles
  <2>10. FirstErrorIsStable'
    BY <2>1, <2>2, DirStays DEF LoadInv, FirstErrorIsStable
  <2> QED BY <2>1, <2>4, <2>5, <2>6, <2>7, <2>8, <2>9, <2>10 DEF LoadInv
<1> QED BY <1>1, <1>2

-----------------------------------------------------------------------------
(* For any directory: the types, which name the file of every entry.         *)
THEOREM TypeCorrect == Spec => []TypeOK
<1>1. LoadInv => TypeOK
  BY DEF LoadInv
<1> QED BY LoadStarts, LoadStep, <1>1, PTL DEF Spec

(* For any directory of any number of files: every entry of every file, each *)
(* sound and with its parent, or no catalog and a reason for it.             *)
THEOREM AlwaysAllOrNothing == Spec => []AllOrNothing
<1>1. LoadInv => AllOrNothing
  BY DEF LoadInv
<1> QED BY LoadStarts, LoadStep, <1>1, PTL DEF Spec

(* For any directory: an error of the merge is about the first file that     *)
(* does not go with those before it.                                         *)
THEOREM FirstErrorIsAlwaysStable == Spec => []FirstErrorIsStable
<1>1. LoadInv => FirstErrorIsStable
  BY DEF LoadInv
<1> QED BY LoadStarts, LoadStep, <1>1, PTL DEF Spec

-----------------------------------------------------------------------------
(* Dropping the last of four leaves the order as it is where it matters.     *)
LEMMA FirstThreeDecide ==
    ASSUME NEW a1 \in Nat, NEW a2 \in Nat, NEW a3 \in Nat, NEW a4 \in Nat,
           NEW b1 \in Nat, NEW b2 \in Nat, NEW b3 \in Nat, NEW b4 \in Nat,
           LexLess(<<a1, a2, a3, a4>>, <<b1, b2, b3, b4>>), ~(a1 = b1 /\ a2 = b2 /\ a3 = b3)
    PROVE  LexLess(<<a1, a2, a3>>, <<b1, b2, b3>>)
<1> DEFINE p == <<a1, a2, a3, a4>>
           q == <<b1, b2, b3, b4>>
           r == <<a1, a2, a3>>
           s == <<b1, b2, b3>>
<1>0. p \in Seq(Nat) /\ q \in Seq(Nat) /\ r \in Seq(Nat) /\ s \in Seq(Nat)
  OBVIOUS
<1>1. /\ Len(p) = 4 /\ Len(q) = 4 /\ Len(r) = 3 /\ Len(s) = 3
      /\ p[1] = a1 /\ p[2] = a2 /\ p[3] = a3 /\ q[1] = b1 /\ q[2] = b2 /\ q[3] = b3
      /\ r[1] = a1 /\ r[2] = a2 /\ r[3] = a3 /\ s[1] = b1 /\ s[2] = b2 /\ s[3] = b3
  OBVIOUS
<1> HIDE DEF p, q, r, s
<1>2. LexLess(p, q)
  BY DEF p, q
<1>3. PICK i \in 1 .. 4 : p[i] < q[i] /\ \A j \in 1 .. i - 1 : p[j] = q[j]
  <2>1. \/ Len(p) < Len(q) /\ \A i \in 1 .. Len(p) : p[i] = q[i]
        \/ \E i \in 1 .. Len(p) : i <= Len(q) /\ p[i] < q[i] /\ \A j \in 1 .. i - 1 : p[j] = q[j]
    BY <1>0, <1>2, LexLessIs
  <2> QED BY <1>1, <2>1
<1>4. i # 4
  BY <1>1, <1>3
<1>5. i \in 1 .. 3 /\ r[i] < s[i]
  BY <1>1, <1>3, <1>4
<1>6. \A j \in 1 .. 3 : r[j] = p[j] /\ s[j] = q[j]
  BY <1>1
<1>7. \A j \in 1 .. i - 1 : r[j] = s[j]
  BY <1>3, <1>5, <1>6
<1>8. LexLess(r, s)
  <2>1. i \in 1 .. Len(r) /\ i <= Len(s)
    BY <1>1, <1>5
  <2> QED BY <1>0, <1>5, <1>7, <2>1, LexLessIs
<1> QED BY <1>8 DEF r, s

(* Words in a list have ranks that tell them apart.                          *)
LEMMA RankIs ==
    ASSUME NEW words, DOMAIN words \subseteq Nat, NEW w \in ToSet(words), NEW v \in ToSet(words)
    PROVE  Rank(w, words) \in Nat /\ (Rank(w, words) = Rank(v, words) => w = v)
<1>1. \A x \in ToSet(words) : Rank(x, words) \in DOMAIN words /\ words[Rank(x, words)] = x
  BY DEF Rank, ToSet
<1>2. \A i \in DOMAIN words : i \in Nat
  OBVIOUS
<1> QED BY <1>1, <1>2

LEMMA FieldsAreNamed == \A s \in Section : Fields(s) \subseteq ToSet(FieldNames)
<1>1. \A i \in 1 .. 10 : i \in DOMAIN FieldNames
  BY DEF FieldNames
<1>2. /\ FieldNames[1] = "parent_resource" /\ FieldNames[2] = "create" /\ FieldNames[3] = "delete"
      /\ FieldNames[4] = "plan" /\ FieldNames[5] = "update" /\ FieldNames[6] = "tested_against_provider"
      /\ FieldNames[7] = "method" /\ FieldNames[8] = "source_urls" /\ FieldNames[9] = "verified_at"
      /\ FieldNames[10] = "verified_provider_version"
  BY DEF FieldNames
<1>3. \A i \in 1 .. 10 : FieldNames[i] \in ToSet(FieldNames)
  BY <1>1 DEF ToSet
<1>4. {"parent_resource", "create", "delete", "plan", "update", "tested_against_provider",
       "method", "source_urls", "verified_at", "verified_provider_version"} \subseteq ToSet(FieldNames)
  BY <1>2, <1>3
<1>5. \A s \in Section : Fields(s) \subseteq {"parent_resource", "create", "delete", "plan", "update",
        "tested_against_provider", "method", "source_urls", "verified_at", "verified_provider_version"}
  BY DEF Fields, Stages, Verification
<1> QED BY <1>4, <1>5

LEMMA RanksTell ==
    /\ \A s \in Section : Rank(s, LexicalSections) \in Nat
    /\ \A s, u \in Section : Rank(s, LexicalSections) = Rank(u, LexicalSections) => s = u
    /\ \A s \in Section : \A f \in Fields(s) : Rank(f, FieldNames) \in Nat
    /\ \A s, u \in Section : \A f \in Fields(s), g \in Fields(u) : Rank(f, FieldNames) = Rank(g, FieldNames) => f = g
<1>1. DOMAIN LexicalSections \subseteq Nat /\ DOMAIN FieldNames \subseteq Nat
  BY DEF LexicalSections, FieldNames
<1>2. Section \subseteq ToSet(LexicalSections)
  <2>1. \A i \in 1 .. 3 : i \in DOMAIN LexicalSections
    BY DEF LexicalSections
  <2>2. LexicalSections[1] = "data_sources" /\ LexicalSections[2] = "iam_bindings" /\ LexicalSections[3] = "resources"
    BY DEF LexicalSections
  <2> QED BY <2>1, <2>2, SectionIs DEF ToSet
<1>3. \A s \in Section : Fields(s) \subseteq ToSet(FieldNames)
  BY FieldsAreNamed
<1> QED BY <1>1, <1>2, <1>3, RankIs

-----------------------------------------------------------------------------
(* What the catalog holds that a load returned.                              *)
SoundEntry(k) ==
    /\ k \in Keys /\ firstSeen[k] \in Nat
    /\ cat[k] # Malformed /\ IsEntry(k.section, cat[k]) /\ SoundAlone(k.section, cat[k])

CatalogIs ==
    pc = "done" /\ result.ok =>
        /\ result.catalog = cat /\ IsFiniteSet(DOMAIN cat)
        /\ \A k \in DOMAIN cat : SoundEntry(k)

LEMMA ReturnedIs == ASSUME LoadInv, Return PROVE CatalogIs'
<1>1. /\ pc = "validate" /\ todo = <<>> /\ result' = [ok |-> TRUE, catalog |-> cat] /\ pc' = "done"
      /\ dir' = dir /\ cat' = cat /\ firstSeen' = firstSeen
  BY DEF Return
<1>2. /\ Past = YamlFiles /\ PastOfFile = {} /\ \A k \in DOMAIN cat : Passes(k)
  BY <1>1 DEF LoadInv, ValidatedSoFar, Past, PastOfFile, ToSet
<1>3. /\ dir \in Directories /\ dir # Unreadable /\ Mergeable(YamlFiles)
      /\ DOMAIN cat \subseteq Keys /\ IsFiniteSet(DOMAIN cat)
      /\ \A k \in DOMAIN cat : Has(firstSeen[k], k) /\ firstSeen[k] \in YamlFiles
  BY <1>1, <1>2 DEF LoadInv, FilesInOrder, CatalogSoFar
<1>4. ASSUME NEW k \in DOMAIN cat PROVE SoundEntry(k)
  <2>1. k \in Keys /\ firstSeen[k] \in YamlFiles /\ Has(firstSeen[k], k) /\ k.section \in Section
    BY <1>3 DEF Keys
  <2>2. firstSeen[k] \in Nat /\ IsFile(dir[firstSeen[k]])
    BY <1>3, <2>1, FilesAre
  <2>3. cat[k] = Text(firstSeen[k], k)
    BY DEF LoadInv, TypeOK, Text
  <2>4. cat[k] # Malformed
    BY <1>3, <2>1, <2>3, MergeableIs
  <2>5. IsEntry(k.section, cat[k])
    BY <2>1, <2>2, <2>3 DEF IsFile, Text, Has, Declares
  <2>6. SoundAlone(k.section, cat[k])
    BY <1>2 DEF Passes
  <2> QED BY <2>1, <2>2, <2>4, <2>5, <2>6 DEF SoundEntry
<1>5. \A k : SoundEntry(k)' <=> SoundEntry(k)
  BY <1>1 DEF SoundEntry
<1> QED BY <1>1, <1>3, <1>4, <1>5 DEF CatalogIs

LEMMA CatalogStays == ASSUME LoadInv, CatalogIs, [Next]_vars PROVE CatalogIs'
<1>1. CASE Return
  BY <1>1, ReturnedIs
<1>2. CASE UNCHANGED vars
  <2>1. pc' = pc /\ result' = result /\ cat' = cat /\ firstSeen' = firstSeen
    BY <1>2 DEF vars
  <2>2. \A k : SoundEntry(k)' <=> SoundEntry(k)
    BY <2>1 DEF SoundEntry
  <2> QED BY <2>1, <2>2 DEF CatalogIs
<1>3. CASE Next /\ ~Return
  <2>1. pc' # "done" \/ result'.ok = FALSE
    <3>1. \A stage, at : Fail(stage, at) => result'.ok = FALSE
      BY DEF Fail
    <3>2. CASE List \/ ReadFile \/ FileDone \/ FilesDone
      BY <3>2 DEF List, ReadFile, FileDone, FilesDone
    <3>3. CASE Insert \/ Accept
      BY <3>3 DEF Insert, Merging, Accept, Validating
    <3>4. CASE ListFails \/ ReadFails \/ Duplicate \/ EntryFails \/ Reject
      BY <3>1, <3>4 DEF ListFails, ReadFails, Duplicate, EntryFails, Reject
    <3> QED BY <1>3, <3>2, <3>3, <3>4 DEF Next
  <2> QED BY <2>1 DEF CatalogIs
<1> QED BY <1>1, <1>2, <1>3

LEMMA LoadEnds == ASSUME pc = "done" PROVE ~Next
BY DEF Next, ListFails, List, ReadFails, ReadFile, Duplicate, EntryFails, Insert, FileDone, FilesDone,
       Accept, Reject, Return, Merging, Validating

(* The fields of a sound entry.                                              *)
LEMMA EntryIs ==
    ASSUME NEW k, SoundEntry(k)
    PROVE  /\ k.section \in Section /\ k.type \in Nat /\ k = [section |-> k.section, type |-> k.type]
           /\ cat[k].method \in Methods /\ cat[k].verified_at \in Nat
           /\ cat[k].tested_against_provider \in Nat
           /\ \A f \in Fields(k.section) : f \in Lists => cat[k][f] \in Seq(ToSet(cat[k][f]))
<1>1. k \in Keys /\ IsEntry(k.section, cat[k]) /\ SoundAlone(k.section, cat[k]) /\ cat[k] # Malformed
  BY DEF SoundEntry
<1>2. k.section \in Section /\ k.type \in Nat /\ k = [section |-> k.section, type |-> k.type]
  BY <1>1, TypeAssumption DEF Keys
<1>3. \A f \in Lists \intersect Fields(k.section) : cat[k][f] \in Seq(ToSet(cat[k][f]))
  BY <1>1 DEF IsEntry
<1>4. cat[k].method \in Methods /\ cat[k].verified_at \in Nat
  BY <1>1 DEF SoundAlone, validateVerification
<1>5. cat[k].tested_against_provider \in Nat
  BY <1>1 DEF SoundAlone, validateTestedAgainstProvider
<1> QED BY <1>2, <1>3, <1>4, <1>5

-----------------------------------------------------------------------------
(* The rows of the tables, and their orders.                                 *)
Constraint(k) == result.catalog[k].tested_against_provider
Row(k) == [section |-> k.section, type |-> k.type, at |-> result.catalog[k].verified_at, file |-> firstSeen[k]]
IssuesAt(k, f) ==
    {[section |-> k.section, type |-> k.type, field |-> f, index |-> i, file |-> firstSeen[k]] :
        i \in TodoAt(result.catalog[k], f)}
IssuesOf(k) == UNION {IssuesAt(k, f) : f \in Fields(k.section)}

Loaded == pc = "done" /\ result.ok

ByAge == INSTANCE ListProofs WITH ItemLess <- Older
ByField == INSTANCE ListProofs WITH ItemLess <- IssueLess
BySize == INSTANCE ListProofs WITH ItemLess <- GroupLess

LEMMA EntriesAre ==
    ASSUME CatalogIs, Loaded
    PROVE  /\ IsFiniteSet(Entries)
           /\ \A k \in Entries : SoundEntry(k) /\ result.catalog[k] = cat[k]
           /\ \A j, k \in Entries : j.section = k.section /\ j.type = k.type => j = k
<1>1. /\ Entries = DOMAIN cat /\ result.catalog = cat /\ IsFiniteSet(DOMAIN cat)
      /\ \A k \in DOMAIN cat : SoundEntry(k)
  BY DEF CatalogIs, Loaded, Entries
<1>2. \A j, k \in Entries : j.section = k.section /\ j.type = k.type => j = k
  BY <1>1, EntryIs
<1> QED BY <1>1, <1>2

LEMMA RowIs ==
    ASSUME CatalogIs, Loaded, NEW k \in Entries
    PROVE  /\ Row(k).section = k.section /\ Row(k).type = k.type
           /\ Row(k).at = result.catalog[k].verified_at /\ Row(k).file = firstSeen[k]
           /\ k.section \in Section /\ k.type \in Nat /\ Row(k).at \in Nat /\ Row(k).file \in Nat
           /\ Rank(k.section, LexicalSections) \in Nat
<1>1. SoundEntry(k) /\ result.catalog[k] = cat[k]
  BY EntriesAre
<1>2. k.section \in Section /\ k.type \in Nat /\ cat[k].verified_at \in Nat /\ firstSeen[k] \in Nat
  BY <1>1, EntryIs DEF SoundEntry
<1> QED BY <1>1, <1>2, RanksTell DEF Row

AgeKey(a) == <<a.at, Rank(a.section, LexicalSections), a.type, a.file>>

LEMMA OlderOrders ==
    ASSUME CatalogIs, Loaded
    PROVE  /\ ByAge!LessIsStrict({Row(k) : k \in Entries})
           /\ \A a, b \in {Row(k) : k \in Entries} : a # b => Older(a, b) \/ Older(b, a)
<1> DEFINE S == {Row(k) : k \in Entries}
<1>1. \A a, b : Older(a, b) <=> LexLess(AgeKey(a), AgeKey(b))
  BY DEF Older, AgeKey
<1>2. ASSUME NEW a \in S PROVE AgeKey(a) \in Seq(Nat)
  <2>1. PICK k \in Entries : a = Row(k)
    OBVIOUS
  <2>2. a.at \in Nat /\ Rank(a.section, LexicalSections) \in Nat /\ a.type \in Nat /\ a.file \in Nat
    BY <2>1, RowIs
  <2> QED BY <2>2 DEF AgeKey
<1>3. ASSUME NEW a \in S, NEW b \in S, AgeKey(a) = AgeKey(b) PROVE a = b
  <2>1. PICK j \in Entries : a = Row(j)
    OBVIOUS
  <2>2. PICK k \in Entries : b = Row(k)
    OBVIOUS
  <2>3. Rank(a.section, LexicalSections) = Rank(b.section, LexicalSections) /\ a.type = b.type
    BY <1>3 DEF AgeKey
  <2>4. j.section = k.section /\ j.type = k.type
    BY <2>1, <2>2, <2>3, RowIs, RanksTell
  <2> QED BY <2>1, <2>2, <2>4, EntriesAre
<1> HIDE DEF S
<1>4. ByAge!LessIsStrict(S)
  <2>1. \A a \in S : ~Older(a, a)
    BY <1>1, <1>2, LexLessIsStrict
  <2>2. \A a, b, c \in S : Older(a, b) /\ Older(b, c) => Older(a, c)
    BY <1>1, <1>2, LexLessIsTransitive
  <2> QED BY <2>1, <2>2 DEF ByAge!LessIsStrict
<1>5. \A a, b \in S : a # b => Older(a, b) \/ Older(b, a)
  BY <1>1, <1>2, <1>3, LexLessIsTotal
<1> QED BY <1>4, <1>5 DEF S

(* The rows of two entries differ before the file is looked at.              *)
LEMMA OlderBefore ==
    ASSUME CatalogIs, Loaded, NEW j \in Entries, NEW k \in Entries, Older(Row(j), Row(k))
    PROVE  LexLess(<<Row(j).at, Rank(Row(j).section, LexicalSections), Row(j).type>>,
                  <<Row(k).at, Rank(Row(k).section, LexicalSections), Row(k).type>>)
<1> DEFINE a == Row(j)
           b == Row(k)
<1>1. /\ a.at \in Nat /\ Rank(a.section, LexicalSections) \in Nat /\ a.type \in Nat /\ a.file \in Nat
      /\ b.at \in Nat /\ Rank(b.section, LexicalSections) \in Nat /\ b.type \in Nat /\ b.file \in Nat
      /\ a \in {Row(x) : x \in Entries}
  BY RowIs
<1>2. a # b
  BY <1>1, OlderOrders DEF ByAge!LessIsStrict
<1>3. ~(j.section = k.section /\ j.type = k.type)
  BY <1>2, EntriesAre
<1>4. ~(Rank(a.section, LexicalSections) = Rank(b.section, LexicalSections) /\ a.type = b.type)
  BY <1>3, RowIs, RanksTell
<1>5. LexLess(<<a.at, Rank(a.section, LexicalSections), a.type, a.file>>,
             <<b.at, Rank(b.section, LexicalSections), b.type, b.file>>)
  BY DEF Older
<1> HIDE DEF a, b
<1>6. LexLess(<<a.at, Rank(a.section, LexicalSections), a.type>>,
             <<b.at, Rank(b.section, LexicalSections), b.type>>)
  BY <1>1, <1>4, <1>5, FirstThreeDecide
<1> QED BY <1>6 DEF a, b

-----------------------------------------------------------------------------
(* How a place is printed: every place in its own way.                       *)
Plus(p, a, x) == a + x

(* A table of the decimals of 0 to n.                                        *)
IsTable(q, n, f) ==
    /\ f \in [0 .. n -> Seq(Nat)]
    /\ \A k \in 0 .. n : f[k] = IF k < 10 THEN <<Zero + k>> ELSE Append(f[k \div 10], Zero + (k % 10))
HasTable(q, n, h) == \E f : IsTable(q, n, f)

Tabling == INSTANCE FoldProofs WITH FoldStep <- Plus, FoldHolds <- HasTable

LEMMA TenthIs ==
    ASSUME NEW n \in Nat
    PROVE  /\ n \div 10 \in Nat /\ n % 10 \in 0 .. 9 /\ n = 10 * (n \div 10) + (n % 10)
           /\ n >= 10 => n \div 10 < n
BY Z3

LEMMA TablesExist == ASSUME NEW n \in Nat PROVE \E f : IsTable(0, n, f)
<1>1. HasTable(0, 0, 0)
  <2> DEFINE f == [k \in 0 .. 0 |-> <<Zero>>]
  <2>1. f \in [0 .. 0 -> Seq(Nat)] /\ f[0] = <<Zero + 0>>
    BY DEF Zero
  <2>2. \A k \in 0 .. 0 : k = 0 /\ k < 10
    OBVIOUS
  <2> HIDE DEF f
  <2>3. \A k \in 0 .. 0 : f[k] = IF k < 10 THEN <<Zero + k>> ELSE Append(f[k \div 10], Zero + (k % 10))
    BY <2>1, <2>2
  <2> QED BY <2>1, <2>3 DEF HasTable, IsTable
<1>2. ASSUME NEW m \in 1 .. n, HasTable(0, m - 1, 0) PROVE HasTable(0, m, 0)
  <2>1. PICK f : IsTable(0, m - 1, f)
    BY <1>2 DEF HasTable
  <2> DEFINE d == IF m < 10 THEN <<Zero + m>> ELSE Append(f[m \div 10], Zero + (m % 10))
             g == [k \in 0 .. m |-> IF k = m THEN d ELSE f[k]]
  <2>2. m \in Nat /\ f \in [0 .. m - 1 -> Seq(Nat)]
    BY <2>1 DEF IsTable
  <2>3. \A k \in 0 .. m : k \in Nat /\ (k # m => k \in 0 .. m - 1) /\ (k >= 10 => k \div 10 \in 0 .. m - 1)
    <3> TAKE k \in 0 .. m
    <3>1. k \in Nat /\ (k # m => k \in 0 .. m - 1) /\ m \in Nat /\ k <= m
      OBVIOUS
    <3>2. k \div 10 \in Nat /\ (k >= 10 => k \div 10 < k)
      BY <3>1, TenthIs
    <3>3. k >= 10 => k \div 10 \in 0 .. m - 1
      <4> DEFINE t == k \div 10
      <4>1. t \in Nat /\ (k >= 10 => t < k)
        BY <3>2
      <4> HIDE DEF t
      <4>2. k >= 10 => t \in 0 .. m - 1
        BY <3>1, <4>1
      <4> QED BY <4>2 DEF t
    <3> QED BY <3>1, <3>3
  <2>4. d \in Seq(Nat)
    <3>1. m % 10 \in Nat /\ m \in 0 .. m
      BY <2>2, TenthIs
    <3>2. Zero + m \in Nat /\ Zero + (m % 10) \in Nat
      BY <2>2, <3>1 DEF Zero
    <3>3. m >= 10 => f[m \div 10] \in Seq(Nat)
      BY <2>2, <2>3, <3>1
    <3>4. m < 10 \/ m >= 10
      BY <2>2
    <3> DEFINE t == m \div 10
               r == Zero + (m % 10)
    <3>5. m >= 10 => Append(f[t], r) \in Seq(Nat)
      <4>1. m >= 10 => f[t] \in Seq(Nat) /\ r \in Nat
        BY <3>2, <3>3
      <4> HIDE DEF t, r
      <4> QED BY <4>1
    <3> QED BY <3>2, <3>4, <3>5
  <2> HIDE DEF d
  <2>5. g \in [0 .. m -> Seq(Nat)] /\ g[m] = d /\ \A k \in 0 .. m - 1 : g[k] = f[k]
    BY <2>2, <2>3, <2>4
  <2> HIDE DEF g
  <2>6. ASSUME NEW k \in 0 .. m
        PROVE  g[k] = IF k < 10 THEN <<Zero + k>> ELSE Append(g[k \div 10], Zero + (k % 10))
    <3>1. k >= 10 => g[k \div 10] = f[k \div 10]
      BY <2>3, <2>5
    <3>2. g[k] = IF k < 10 THEN <<Zero + k>> ELSE Append(f[k \div 10], Zero + (k % 10))
      <4>1. CASE k = m
        BY <2>5, <4>1 DEF d
      <4>2. CASE k # m
        BY <2>1, <2>3, <2>5, <4>2 DEF IsTable
      <4> QED BY <4>1, <4>2
    <3>3. k < 10 \/ k >= 10
      BY <2>3
    <3> QED BY <3>1, <3>2, <3>3
  <2> QED BY <2>5, <2>6 DEF HasTable, IsTable
<1>3. HasTable(0, n, 0)
  <2>1. n \in 0 .. n
    OBVIOUS
  <2> QED BY <1>1, <1>2, <2>1, Tabling!Induction
<1> QED BY <1>3 DEF HasTable

LEMMA TablesAgree ==
    ASSUME NEW m \in Nat, NEW n \in Nat, NEW f, IsTable(0, m, f), NEW g, IsTable(0, n, g), m <= n
    PROVE  f[m] = g[m]
<1> DEFINE B == {k \in 0 .. m : f[k] # g[k]}
<1> SUFFICES ASSUME B # {} PROVE FALSE
  OBVIOUS
<1>1. PICK k \in B : \A j \in B : k <= j
  <2>1. B \in SUBSET (0 .. m)
    OBVIOUS
  <2> HIDE DEF B
  <2> QED BY <2>1, Tabling!Extremes
<1>2. k \in 0 .. m /\ k \in 0 .. n /\ f[k] # g[k] /\ k \in Nat
  OBVIOUS
<1>3. /\ f[k] = IF k < 10 THEN <<Zero + k>> ELSE Append(f[k \div 10], Zero + (k % 10))
      /\ g[k] = IF k < 10 THEN <<Zero + k>> ELSE Append(g[k \div 10], Zero + (k % 10))
  BY <1>2 DEF IsTable
<1>4. k >= 10 /\ f[k \div 10] # g[k \div 10]
  BY <1>2, <1>3
<1> DEFINE t == k \div 10
<1>5. t \in Nat /\ t < k
  BY <1>2, <1>4, TenthIs
<1>6. f[t] # g[t]
  BY <1>4
<1> HIDE DEF t
<1>7. t \in B
  BY <1>2, <1>5, <1>6
<1>8. k <= t
  BY <1>1, <1>7
<1> QED BY <1>2, <1>5, <1>8

LEMMA DecimalIs ==
    ASSUME NEW n \in Nat
    PROVE  /\ Decimal[n] \in Seq(Nat)
           /\ n < 10 => Decimal[n] = <<Zero + n>>
           /\ n >= 10 => Decimal[n] = Append(Decimal[n \div 10], Zero + (n % 10))
<1> DEFINE Table(m) == CHOOSE f : IsTable(0, m, f)
           D == [m \in Nat |-> Table(m)[m]]
           Is(g) == g = [m \in Nat |-> IF m < 10 THEN <<Zero + m>> ELSE Append(g[m \div 10], Zero + (m % 10))]
<1>1. \A m \in Nat : IsTable(0, m, Table(m))
  <2> TAKE m \in Nat
  <2>1. \E f : IsTable(0, m, f)
    BY TablesExist
  <2> QED BY <2>1
<1> HIDE DEF Table
<1>2. ASSUME NEW m \in Nat
      PROVE  /\ D[m] \in Seq(Nat)
             /\ D[m] = IF m < 10 THEN <<Zero + m>> ELSE Append(D[m \div 10], Zero + (m % 10))
  <2>1. D[m] = Table(m)[m] /\ m \in 0 .. m
    OBVIOUS
  <2>2. /\ D[m] \in Seq(Nat)
        /\ D[m] = IF m < 10 THEN <<Zero + m>> ELSE Append(Table(m)[m \div 10], Zero + (m % 10))
    BY <1>1, <2>1 DEF IsTable
  <2> DEFINE t == m \div 10
  <2>3. t \in Nat /\ (m >= 10 => t < m)
    BY TenthIs
  <2> HIDE DEF t
  <2>4. m >= 10 => D[t] = Table(m)[t]
    <3> SUFFICES ASSUME m >= 10 PROVE D[t] = Table(m)[t]
      OBVIOUS
    <3>1. t <= m
      BY <2>3
    <3>2. Table(t)[t] = Table(m)[t]
      BY <1>1, <2>3, <3>1, TablesAgree
    <3> QED BY <2>3, <3>2
  <2> HIDE DEF D
  <2>5. m < 10 \/ m >= 10
    OBVIOUS
  <2> QED BY <2>2, <2>4, <2>5 DEF t
<1>3. Is(D)
  <2>1. D = [m \in Nat |-> D[m]]
    OBVIOUS
  <2> HIDE DEF D
  <2>2. [m \in Nat |-> D[m]] = [m \in Nat |-> IF m < 10 THEN <<Zero + m>> ELSE Append(D[m \div 10], Zero + (m % 10))]
    BY <1>2
  <2> QED BY <2>1, <2>2
<1>4. Is(Decimal)
  <2>1. Decimal = CHOOSE g : Is(g)
    BY DEF Decimal
  <2> HIDE DEF Is, D
  <2> QED BY <1>3, <2>1
<1> DEFINE C == Decimal
<1>5. \A m \in Nat : C[m] = IF m < 10 THEN <<Zero + m>> ELSE Append(C[m \div 10], Zero + (m % 10))
  <2> HIDE DEF C
  <2>1. C = [m \in Nat |-> IF m < 10 THEN <<Zero + m>> ELSE Append(C[m \div 10], Zero + (m % 10))]
    BY <1>4 DEF C
  <2> QED BY <2>1
<1> HIDE DEF C, D
<1>6. C[n] = D[n]
  <2> DEFINE B == {k \in Nat : C[k] # D[k]}
  <2> SUFFICES ASSUME B # {} PROVE FALSE
    OBVIOUS
  <2>1. PICK k \in B : \A j \in B : k <= j
    <3>1. B \in SUBSET Nat
      OBVIOUS
    <3> HIDE DEF B
    <3> QED BY <3>1, Tabling!LeastNumber
  <2> DEFINE t == k \div 10
  <2>2. k \in Nat /\ C[k] # D[k]
    OBVIOUS
  <2>3. k >= 10 /\ C[t] # D[t]
    <3>1. /\ D[k] = IF k < 10 THEN <<Zero + k>> ELSE Append(D[t], Zero + (k % 10))
          /\ C[k] = IF k < 10 THEN <<Zero + k>> ELSE Append(C[t], Zero + (k % 10))
      BY <1>2, <1>5, <2>2
    <3>2. k < 10 \/ k >= 10
      BY <2>2
    <3> HIDE DEF t
    <3> QED BY <2>2, <3>1, <3>2
  <2>4. t \in Nat /\ t < k
    BY <2>2, <2>3, TenthIs
  <2> HIDE DEF t
  <2>5. t \in B
    BY <2>3, <2>4
  <2>6. k <= t
    BY <2>1, <2>5
  <2> QED BY <2>2, <2>4, <2>6
<1>7. C[n] \in Seq(Nat)
  BY <1>2, <1>6
<1>8. /\ n < 10 => C[n] = <<Zero + n>>
      /\ n >= 10 => C[n] = Append(C[n \div 10], Zero + (n % 10))
  <2>1. C[n] = IF n < 10 THEN <<Zero + n>> ELSE Append(C[n \div 10], Zero + (n % 10))
    BY <1>5
  <2>2. n < 10 => ~(n >= 10)
    OBVIOUS
  <2>3. n >= 10 => ~(n < 10)
    OBVIOUS
  <2> QED BY <2>1, <2>2, <2>3, Zenon
<1> QED BY <1>7, <1>8 DEF C

(* Different numbers are written differently.                                *)
LEMMA DecimalTells ==
    ASSUME NEW m \in Nat, NEW n \in Nat, Decimal[m] = Decimal[n]
    PROVE  m = n
<1> DEFINE B == {k \in Nat : \E j \in Nat : k # j /\ Decimal[k] = Decimal[j]}
<1> SUFFICES ASSUME B # {} PROVE FALSE
  OBVIOUS
<1>1. PICK k \in B : \A j \in B : k <= j
  <2>1. B \in SUBSET Nat
    OBVIOUS
  <2> HIDE DEF B
  <2> QED BY <2>1, Tabling!LeastNumber
<1>2. PICK j \in Nat : k # j /\ Decimal[k] = Decimal[j]
  OBVIOUS
<1> DEFINE s == k \div 10
           t == j \div 10
           y == k % 10
           z == j % 10
<1>3. /\ k \in Nat /\ s \in Nat /\ y \in Nat /\ k = 10 * s + y /\ (k >= 10 => s < k)
      /\ j \in Nat /\ t \in Nat /\ z \in Nat /\ j = 10 * t + z /\ (j >= 10 => t < j)
  BY TenthIs
<1>4. /\ k < 10 => Decimal[k] = <<Zero + k>>
      /\ k >= 10 => Decimal[k] = Append(Decimal[s], Zero + y)
      /\ j < 10 => Decimal[j] = <<Zero + j>>
      /\ j >= 10 => Decimal[j] = Append(Decimal[t], Zero + z)
      /\ Decimal[s] \in Seq(Nat) /\ Decimal[t] \in Seq(Nat)
  BY <1>3, DecimalIs
<1> HIDE DEF s, t, y, z
<1>5. /\ \A u, v \in Seq(Nat), a, b \in Nat : Append(u, a) = Append(v, b) => u = v /\ a = b
      /\ \A a, b \in Nat : <<a>> = <<b>> => a = b
      /\ \A u \in Seq(Nat), a, b \in Nat : Append(u, a) = <<b>> => u = <<>>
  <2>1. ASSUME NEW u \in Seq(Nat), NEW v \in Seq(Nat), NEW a \in Nat, NEW b \in Nat, Append(u, a) = Append(v, b)
        PROVE  u = v /\ a = b
    <3>1. Len(u) = Len(v)
      BY <2>1
    <3>2. Append(u, a)[Len(u) + 1] = a /\ Append(v, b)[Len(v) + 1] = b
      OBVIOUS
    <3>3. ASSUME NEW i \in 1 .. Len(u) PROVE u[i] = v[i]
      <4>1. Append(u, a)[i] = u[i]
        OBVIOUS
      <4>2. Append(v, b)[i] = v[i]
        BY <3>1
      <4> QED BY <2>1, <4>1, <4>2
    <3>4. a = b
      BY <2>1, <3>1, <3>2
    <3>5. u = v
      <4>1. u = [i \in 1 .. Len(u) |-> u[i]] /\ v = [i \in 1 .. Len(v) |-> v[i]]
        OBVIOUS
      <4>2. [i \in 1 .. Len(u) |-> u[i]] = [i \in 1 .. Len(u) |-> v[i]]
        BY <3>3
      <4> QED BY <3>1, <4>1, <4>2
    <3> QED BY <3>4, <3>5
  <2>2. ASSUME NEW u \in Seq(Nat), NEW a \in Nat, NEW b \in Nat, Append(u, a) = <<b>> PROVE u = <<>>
    <3>1. Len(u) \in Nat /\ Len(Append(u, a)) = Len(u) + 1
      OBVIOUS
    <3>2. Len(<<b>>) = 1
      OBVIOUS
    <3>3. Len(u) + 1 = 1
      BY <2>2, <3>1, <3>2
    <3> QED BY <3>1, <3>3
  <2> QED BY <2>1, <2>2
<1>6. \A u \in Seq(Nat) : u = <<>> \/ u # <<>>
  OBVIOUS
<1>7. Decimal[s] # <<>> /\ Decimal[t] # <<>>
  <2>1. ASSUME NEW x \in Nat PROVE Decimal[x] # <<>>
    <3>1. CASE x < 10
      <4>1. Decimal[x] = <<Zero + x>>
        BY <3>1, DecimalIs
      <4> QED BY <4>1
    <3>2. CASE x >= 10
      <4> DEFINE w == x \div 10
                 a == Zero + (x % 10)
      <4>1. w \in Nat /\ a \in Nat
        BY TenthIs DEF Zero
      <4>2. Decimal[x] = Append(Decimal[w], a)
        BY <3>2, DecimalIs
      <4> HIDE DEF w, a
      <4>3. Decimal[w] \in Seq(Nat)
        BY <4>1, DecimalIs
      <4> DEFINE u == Decimal[w]
      <4>4. Append(u, a) # <<>>
        <5>1. u \in Seq(Nat)
          BY <4>3
        <5> HIDE DEF u
        <5>2. Len(Append(u, a)) = Len(u) + 1 /\ Len(u) \in Nat /\ Len(<<>>) = 0
          BY <4>1, <5>1
        <5> QED BY <5>2
      <4> QED BY <4>2, <4>4, Zenon
    <3> QED BY <3>1, <3>2
  <2> QED BY <1>3, <2>1
<1>8. Zero + k \in Nat /\ Zero + j \in Nat /\ Zero + y \in Nat /\ Zero + z \in Nat
  BY <1>3 DEF Zero
<1>9. CASE k < 10 /\ j < 10
  <2>1. <<Zero + k>> = <<Zero + j>>
    BY <1>2, <1>4, <1>9
  <2>2. Zero + k = Zero + j
    BY <1>5, <1>8, <2>1
  <2> QED BY <1>2, <1>3, <2>2 DEF Zero
<1>10. CASE k < 10 /\ j >= 10
  <2>1. Append(Decimal[t], Zero + z) = <<Zero + k>>
    BY <1>2, <1>3, <1>4, <1>10
  <2> QED BY <1>4, <1>5, <1>7, <1>8, <2>1
<1>11. CASE k >= 10 /\ j < 10
  <2>1. Append(Decimal[s], Zero + y) = <<Zero + j>>
    BY <1>2, <1>3, <1>4, <1>11
  <2> QED BY <1>4, <1>5, <1>7, <1>8, <2>1
<1>12. CASE k >= 10 /\ j >= 10
  <2>1. Append(Decimal[s], Zero + y) = Append(Decimal[t], Zero + z)
    BY <1>2, <1>3, <1>4, <1>12
  <2> DEFINE u == Decimal[s]
             v == Decimal[t]
             a == Zero + y
             b == Zero + z
  <2>2. u = v /\ a = b
    <3>1. u \in Seq(Nat) /\ v \in Seq(Nat) /\ a \in Nat /\ b \in Nat /\ Append(u, a) = Append(v, b)
      BY <1>4, <1>8, <2>1
    <3> HIDE DEF u, v, a, b
    <3> QED BY <1>5, <3>1
  <2>3. y = z /\ s < k
    BY <1>3, <1>12, <2>2 DEF Zero
  <2>4. s \notin B
    BY <1>1, <1>3, <2>3
  <2>5. s = t
    BY <1>3, <2>2, <2>4
  <2> QED BY <1>2, <1>3, <2>3, <2>5
<1> QED BY <1>3, <1>9, <1>10, <1>11, <1>12

LEMMA PlaceTextIs ==
    ASSUME NEW i \in Nat
    PROVE  /\ PlaceText(i) \in Seq(Nat)
           /\ \A j \in Nat : PlaceText(i) = PlaceText(j) => i = j
<1>1. ASSUME NEW k \in Nat
      PROVE  /\ k = 0 => PlaceText(k) = <<>>
             /\ k # 0 => /\ k - 1 \in Nat /\ Decimal[k - 1] \in Seq(Nat)
                         /\ PlaceText(k) = Append(Decimal[k - 1], ClosingBracket)
  <2>1. k # 0 => k - 1 \in Nat
    OBVIOUS
  <2> QED BY <2>1, DecimalIs DEF PlaceText
<1>2. ClosingBracket \in Nat
  BY DEF ClosingBracket
<1>3. \A u \in Seq(Nat) : /\ Append(u, ClosingBracket) \in Seq(Nat)
                           /\ Append(u, ClosingBracket) # <<>>
                           /\ SubSeq(Append(u, ClosingBracket), 1, Len(Append(u, ClosingBracket)) - 1) = u
  <2> TAKE u \in Seq(Nat)
  <2> DEFINE v == Append(u, ClosingBracket)
  <2>1. v \in Seq(Nat) /\ Len(v) = Len(u) + 1 /\ Len(u) \in Nat /\ \A i_1 \in 1 .. Len(u) : v[i_1] = u[i_1]
    BY <1>2
  <2> HIDE DEF v
  <2>2. v # <<>>
    BY <2>1
  <2>3. SubSeq(v, 1, Len(v) - 1) = u
    <3>1. Len(v) - 1 = Len(u)
      BY <2>1
    <3>2. SubSeq(v, 1, Len(u)) = [k \in 1 .. Len(u) |-> u[k]]
      BY <2>1
    <3>3. u = [k \in 1 .. Len(u) |-> u[k]]
      OBVIOUS
    <3> QED BY <3>1, <3>2, <3>3
  <2> QED BY <2>1, <2>2, <2>3 DEF v
<1>4. PlaceText(i) \in Seq(Nat)
  <2>1. CASE i = 0
    <3>1. PlaceText(i) = <<>>
      BY <2>1 DEF PlaceText
    <3>2. <<>> \in Seq(Nat)
      OBVIOUS
    <3> QED BY <3>1, <3>2
  <2>2. CASE i # 0
    BY <1>1, <1>3, <2>2
  <2> QED BY <2>1, <2>2
<1>5. ASSUME NEW j \in Nat, PlaceText(i) = PlaceText(j) PROVE i = j
  <2>1. CASE i = 0 \/ j = 0
    BY <1>1, <1>3, <1>5, <2>1
  <2>2. CASE i # 0 /\ j # 0
    <3>1. Decimal[i - 1] = Decimal[j - 1]
      BY <1>1, <1>3, <1>5, <2>2
    <3>2. i - 1 = j - 1
      BY <1>1, <2>2, <3>1, DecimalTells
    <3> QED BY <3>2
  <2> QED BY <2>1, <2>2
<1> QED BY <1>4, <1>5

KeyOf(r, s, t, w) == <<r, s>> \o (<<t>> \o w)

(* Three numbers and a text are told apart by what they are joined to.       *)
LEMMA KeyParts ==
    ASSUME NEW a \in Nat, NEW b \in Nat, NEW c \in Nat, NEW u \in Seq(Nat)
    PROVE  /\ KeyOf(a, b, c, u) \in Seq(Nat)
           /\ \A x, y, z \in Nat : \A v \in Seq(Nat) :
                KeyOf(a, b, c, u) = KeyOf(x, y, z, v) => a = x /\ b = y /\ c = z /\ u = v
<1> DEFINE Is(k, r, s, t, w) == /\ k \in Seq(Nat) /\ Len(k) = Len(w) + 3
                               /\ k[1] = r /\ k[2] = s /\ k[3] = t
                               /\ \A i \in 1 .. Len(w) : k[i + 3] = w[i]
<1>1. ASSUME NEW r \in Nat, NEW s \in Nat, NEW t \in Nat, NEW w \in Seq(Nat)
      PROVE  Is(KeyOf(r, s, t, w), r, s, t, w)
  <2> DEFINE m == <<t>> \o w
  <2>1. m \in Seq(Nat) /\ Len(m) = Len(w) + 1 /\ m[1] = t /\ \A i \in 1 .. Len(w) : m[i + 1] = w[i]
    OBVIOUS
  <2> HIDE DEF m
  <2> DEFINE n == <<r, s>> \o m
  <2>2. n \in Seq(Nat) /\ Len(n) = Len(m) + 2 /\ n[1] = r /\ n[2] = s /\ \A i \in 1 .. Len(m) : n[i + 2] = m[i]
    BY <2>1
  <2> HIDE DEF n
  <2>3. Len(w) \in Nat
    OBVIOUS
  <2>4. n[3] = t
    <3>1. 1 \in 1 .. Len(m)
      BY <2>1, <2>3
    <3>2. n[1 + 2] = m[1]
      BY <2>2, <3>1
    <3> QED BY <2>1, <3>2
  <2>5. ASSUME NEW i \in 1 .. Len(w) PROVE n[i + 3] = w[i]
    <3>1. i + 1 \in 1 .. Len(m) /\ (i + 1) + 2 = i + 3
      BY <2>1, <2>3
    <3>2. n[(i + 1) + 2] = m[i + 1]
      BY <2>2, <3>1
    <3> QED BY <2>1, <3>1, <3>2
  <2>6. Len(n) = Len(w) + 3
    BY <2>1, <2>2, <2>3
  <2> QED BY <2>2, <2>4, <2>5, <2>6 DEF n, m, KeyOf
<1>2. ASSUME NEW x \in Nat, NEW y \in Nat, NEW z \in Nat, NEW v \in Seq(Nat), KeyOf(a, b, c, u) = KeyOf(x, y, z, v)
      PROVE  a = x /\ b = y /\ c = z /\ u = v
  <2> DEFINE p == KeyOf(a, b, c, u)
             q == KeyOf(x, y, z, v)
  <2>a. Is(p, a, b, c, u)
    <3> HIDE DEF Is
    <3> QED BY <1>1
  <2>b. Is(q, x, y, z, v)
    <3> HIDE DEF Is
    <3> QED BY <1>1
  <2>c. p = q
    BY <1>2
  <2> HIDE DEF p, q
  <2>1. a = x /\ b = y /\ c = z
    BY <2>a, <2>b, <2>c
  <2>2. Len(u) = Len(v)
    <3>1. Len(u) + 3 = Len(v) + 3 /\ Len(u) \in Nat /\ Len(v) \in Nat
      BY <2>a, <2>b, <2>c
    <3> QED BY <3>1
  <2>3. ASSUME NEW i \in 1 .. Len(u) PROVE u[i] = v[i]
    BY <2>2, <2>a, <2>b, <2>c
  <2>4. u = [i \in 1 .. Len(u) |-> u[i]] /\ v = [i \in 1 .. Len(v) |-> v[i]]
    OBVIOUS
  <2>5. [i \in 1 .. Len(u) |-> u[i]] = [i \in 1 .. Len(u) |-> v[i]]
    BY <2>3
  <2> QED BY <2>1, <2>2, <2>4, <2>5
<1>3. KeyOf(a, b, c, u) \in Seq(Nat)
  <2>1. Is(KeyOf(a, b, c, u), a, b, c, u)
    <3> HIDE DEF Is
    <3> QED BY <1>1
  <2> QED BY <2>1
<1> QED BY <1>2, <1>3

-----------------------------------------------------------------------------
(* The fields that still hold the sentinel.                                  *)
LEMMA TodoAtIs ==
    ASSUME CatalogIs, Loaded, NEW k \in Entries, NEW f \in Fields(k.section)
    PROVE  LET e == result.catalog[k]
           IN  /\ TodoAt(e, f) \in SUBSET Nat /\ IsFiniteSet(TodoAt(e, f))
               /\ TodoAt(e, f) # {} => e[f] = Todo \/ (f \in Lists /\ Todo \in ToSet(e[f]))
               /\ e[f] = GenerateStub(k.section)[f] => TodoAt(e, f) # {}
<1> DEFINE e == result.catalog[k]
<1>1. SoundEntry(k) /\ e = cat[k]
  BY EntriesAre
<1>2. f \in Lists => e[f] \in Seq(ToSet(e[f]))
  BY <1>1, EntryIs
<1>3. e[f] = GenerateStub(k.section)[f] => e[f] = IF f \in Lists THEN <<Todo>> ELSE Todo
  <2>1. f # "conditionals"
    BY DEF Fields, Verification, Stages
  <2> QED BY <2>1 DEF GenerateStub
<1> HIDE DEF e
<1>6. CASE f \in Lists
  <2> DEFINE s == e[f]
             n == Len(s)
  <2>1. TodoAt(e, f) = {i \in DOMAIN s : s[i] = Todo}
    BY <1>6 DEF TodoAt
  <2>2. n \in Nat /\ DOMAIN s = 1 .. n
    BY <1>2, <1>6
  <2> HIDE DEF n
  <2>3. TodoAt(e, f) \in SUBSET (1 .. n)
    BY <2>1, <2>2
  <2>4. IsFiniteSet(TodoAt(e, f))
    <3>1. 1 \in Int /\ n \in Int
      BY <2>2
    <3>2. IsFiniteSet(1 .. n)
      BY <3>1, FS_Interval
    <3> QED BY <2>3, <3>2, FS_Subset
  <2>5. TodoAt(e, f) # {} => Todo \in ToSet(s)
    BY <2>1 DEF ToSet
  <2>6. s = <<Todo>> => 1 \in TodoAt(e, f)
    <3> SUFFICES ASSUME s = <<Todo>> PROVE 1 \in {i \in DOMAIN s : s[i] = Todo}
      BY <2>1
    <3>1. <<Todo>>[1] = Todo /\ 1 \in DOMAIN <<Todo>>
      OBVIOUS
    <3> QED BY <3>1
  <2>7. TodoAt(e, f) \in SUBSET Nat
    BY <2>2, <2>3
  <2>8. s = GenerateStub(k.section)[f] => s = <<Todo>>
    BY <1>3, <1>6
  <2> QED BY <1>6, <2>4, <2>5, <2>6, <2>7, <2>8 DEF e
<1>7. CASE f \notin Lists
  <2>1. TodoAt(e, f) = IF e[f] = Todo THEN {0} ELSE {}
    BY <1>7 DEF TodoAt
  <2>2. TodoAt(e, f) \in SUBSET {0} /\ (TodoAt(e, f) # {} <=> e[f] = Todo)
    BY <2>1
  <2>3. IsFiniteSet(TodoAt(e, f))
    BY <2>2, FS_Singleton, FS_Subset
  <2>4. TodoAt(e, f) \in SUBSET Nat
    BY <2>2
  <2> QED BY <1>3, <1>7, <2>2, <2>3, <2>4 DEF e
<1> QED BY <1>6, <1>7

LEMMA FieldsAreFinite == ASSUME NEW s \in Section PROVE IsFiniteSet(Fields(s))
<1> DEFINE All == ToSet(FieldNames)
           names == 1 .. 10
<1>1. IsFiniteSet(names)
  <2>1. 1 \in Int /\ 10 \in Int
    OBVIOUS
  <2> QED BY <2>1, FS_Interval
<1>2. DOMAIN FieldNames = names
  BY DEF FieldNames
<1> HIDE DEF names
<1>3. IsFiniteSet({FieldNames[i] : i \in names})
  BY <1>1, <1>2, ImageIsFinite
<1>4. IsFiniteSet(All)
  BY <1>2, <1>3 DEF ToSet
<1>5. Fields(s) \in SUBSET All
  BY FieldsAreNamed
<1> QED BY <1>4, <1>5, FS_Subset

IssuesOver(V) == UNION {IssuesOf(k) : k \in V}

LEMMA IssueIs ==
    ASSUME CatalogIs, Loaded, NEW k \in Entries, NEW a \in IssuesOf(k)
    PROVE  /\ a.section = k.section /\ a.type = k.type /\ a.file = firstSeen[k]
           /\ a.field \in Fields(k.section) /\ a.index \in TodoAt(result.catalog[k], a.field)
           /\ a = [section |-> k.section, type |-> k.type, field |-> a.field, index |-> a.index, file |-> firstSeen[k]]
           /\ IssueKey(a) \in Seq(Nat)
           /\ Rank(a.section, LexicalSections) \in Nat /\ Rank(a.field, FieldNames) \in Nat
           /\ a.type \in Nat /\ a.index \in Nat
<1>1. PICK f \in Fields(k.section) : a \in IssuesAt(k, f)
  BY DEF IssuesOf
<1>2. PICK i \in TodoAt(result.catalog[k], f) :
        a = [section |-> k.section, type |-> k.type, field |-> f, index |-> i, file |-> firstSeen[k]]
  BY <1>1 DEF IssuesAt
<1>3. a.section = k.section /\ a.type = k.type /\ a.file = firstSeen[k] /\ a.field = f /\ a.index = i
  BY <1>2
<1>4. k.section \in Section /\ k.type \in Nat /\ Rank(k.section, LexicalSections) \in Nat
  BY RowIs
<1>5. Rank(f, FieldNames) \in Nat
  BY <1>4, RanksTell
<1>6. TodoAt(result.catalog[k], f) \in SUBSET Nat
  BY TodoAtIs
<1>7. i \in Nat
  BY <1>6
<1>8. IssueKey(a) \in Seq(Nat)
  <2>1. PlaceText(i) \in Seq(Nat)
    BY <1>7, PlaceTextIs
  <2>2. KeyOf(Rank(k.section, LexicalSections), k.type, Rank(f, FieldNames), PlaceText(i)) \in Seq(Nat)
    BY <1>4, <1>5, <2>1, KeyParts
  <2> QED BY <1>3, <2>2 DEF IssueKey, FieldKey, KeyOf
<1> QED BY <1>1, <1>2, <1>3, <1>4, <1>5, <1>7, <1>8

LEMMA IssueLessOrders ==
    ASSUME CatalogIs, Loaded
    PROVE  /\ ByField!LessIsStrict(IssuesOver(Entries))
           /\ \A a, b \in IssuesOver(Entries) : a # b => IssueLess(a, b) \/ IssueLess(b, a)
<1> DEFINE S == IssuesOver(Entries)
<1>1. \A a, b : IssueLess(a, b) <=> LexLess(IssueKey(a), IssueKey(b))
  BY DEF IssueLess
<1>2. ASSUME NEW a \in S PROVE IssueKey(a) \in Seq(Nat)
  <2>1. PICK k \in Entries : a \in IssuesOf(k)
    BY DEF IssuesOver
  <2> QED BY <2>1, IssueIs
<1>3. ASSUME NEW a \in S, NEW b \in S, IssueKey(a) = IssueKey(b) PROVE a = b
  <2>1. PICK j \in Entries : a \in IssuesOf(j)
    BY DEF IssuesOver
  <2>2. PICK k \in Entries : b \in IssuesOf(k)
    BY DEF IssuesOver
  <2>3. /\ Rank(a.section, LexicalSections) = Rank(b.section, LexicalSections) /\ a.type = b.type
        /\ Rank(a.field, FieldNames) = Rank(b.field, FieldNames) /\ a.index = b.index
    <3> DEFINE ra == Rank(a.section, LexicalSections)
               rb == Rank(b.section, LexicalSections)
               fa == Rank(a.field, FieldNames)
               fb == Rank(b.field, FieldNames)
    <3>1. /\ ra \in Nat /\ a.type \in Nat /\ fa \in Nat /\ a.index \in Nat
          /\ rb \in Nat /\ b.type \in Nat /\ fb \in Nat /\ b.index \in Nat
      BY <2>1, <2>2, IssueIs
    <3>2. KeyOf(ra, a.type, fa, PlaceText(a.index)) = KeyOf(rb, b.type, fb, PlaceText(b.index))
      BY <1>3 DEF IssueKey, FieldKey, KeyOf
    <3> HIDE DEF ra, rb, fa, fb
    <3>3. PlaceText(a.index) \in Seq(Nat) /\ PlaceText(b.index) \in Seq(Nat)
      BY <3>1, PlaceTextIs
    <3>4. ra = rb /\ a.type = b.type /\ fa = fb /\ PlaceText(a.index) = PlaceText(b.index)
      <4> DEFINE ta == a.type
                 tb == b.type
                 pa == PlaceText(a.index)
                 pb == PlaceText(b.index)
      <4>1. /\ ra \in Nat /\ ta \in Nat /\ fa \in Nat /\ pa \in Seq(Nat)
            /\ rb \in Nat /\ tb \in Nat /\ fb \in Nat /\ pb \in Seq(Nat)
            /\ KeyOf(ra, ta, fa, pa) = KeyOf(rb, tb, fb, pb)
        BY <3>1, <3>2, <3>3
      <4> HIDE DEF ta, tb, pa, pb
      <4>3. ra = rb /\ ta = tb /\ fa = fb /\ pa = pb
        BY <4>1, KeyParts
      <4> QED BY <4>3 DEF ta, tb, pa, pb
    <3>5. a.index = b.index
      BY <3>1, <3>4, PlaceTextIs
    <3> QED BY <3>4, <3>5 DEF ra, rb, fa, fb
  <2>4. j.section = k.section /\ j.type = k.type
    <3>1. a.section = j.section /\ a.type = j.type
      BY <2>1, IssueIs
    <3>2. b.section = k.section /\ b.type = k.type
      BY <2>2, IssueIs
    <3>3. j.section \in Section /\ k.section \in Section
      BY RowIs
    <3> QED BY <2>3, <3>1, <3>2, <3>3, RanksTell
  <2>5. j = k
    BY <2>4, EntriesAre
  <2>6. a.field = b.field
    <3>1. a.field \in Fields(j.section)
      BY <2>1, IssueIs
    <3>2. b.field \in Fields(k.section)
      BY <2>2, IssueIs
    <3>3. j.section \in Section /\ k.section \in Section
      BY RowIs
    <3> QED BY <2>3, <3>1, <3>2, <3>3, RanksTell
  <2>7. a = [section |-> j.section, type |-> j.type, field |-> a.field, index |-> a.index, file |-> firstSeen[j]]
    BY <2>1, IssueIs
  <2>8. b = [section |-> k.section, type |-> k.type, field |-> b.field, index |-> b.index, file |-> firstSeen[k]]
    BY <2>2, IssueIs
  <2> QED BY <2>3, <2>5, <2>6, <2>7, <2>8
<1> HIDE DEF S
<1>4. ByField!LessIsStrict(S)
  <2>1. \A a \in S : ~IssueLess(a, a)
    BY <1>1, <1>2, LexLessIsStrict
  <2>2. \A a, b, c \in S : IssueLess(a, b) /\ IssueLess(b, c) => IssueLess(a, c)
    BY <1>1, <1>2, LexLessIsTransitive
  <2> QED BY <2>1, <2>2 DEF ByField!LessIsStrict
<1>5. \A a, b \in S : a # b => IssueLess(a, b) \/ IssueLess(b, a)
  BY <1>1, <1>2, <1>3, LexLessIsTotal
<1> QED BY <1>4, <1>5 DEF S

(* The census table is ordered by size, then by the constraint.              *)
LEMMA GroupLessOrders ==
    ASSUME NEW C, C \subseteq Nat, NEW n \in [C -> Nat]
    PROVE  LET S == {[constraint |-> c, count |-> n[c]] : c \in C}
           IN  /\ BySize!LessIsStrict(S)
               /\ \A a, b \in S : a # b => GroupLess(a, b) \/ GroupLess(b, a)
<1> DEFINE S == {[constraint |-> c, count |-> n[c]] : c \in C}
<1>1. ASSUME NEW a \in S
      PROVE  /\ a.constraint \in Nat /\ a.count \in Nat
             /\ \A b \in S : a.constraint = b.constraint => a = b
  <2>1. PICK c \in C : a = [constraint |-> c, count |-> n[c]]
    OBVIOUS
  <2>2. a.constraint = c /\ a.count = n[c] /\ c \in Nat
    BY <2>1
  <2>3. ASSUME NEW b \in S, a.constraint = b.constraint PROVE a = b
    <3>1. PICK d \in C : b = [constraint |-> d, count |-> n[d]]
      OBVIOUS
    <3>2. b.constraint = d
      BY <3>1
    <3> QED BY <2>1, <2>2, <2>3, <3>1, <3>2
  <2>4. n[c] \in Nat
    OBVIOUS
  <2> QED BY <2>2, <2>3, <2>4
<1> HIDE DEF S
<1>2. \A a \in S : ~GroupLess(a, a)
  BY <1>1 DEF GroupLess
<1>3. \A a, b, c \in S : GroupLess(a, b) /\ GroupLess(b, c) => GroupLess(a, c)
  BY <1>1 DEF GroupLess
<1>4. \A a, b \in S : a # b => GroupLess(a, b) \/ GroupLess(b, a)
  BY <1>1 DEF GroupLess
<1> QED BY <1>2, <1>3, <1>4 DEF S, BySize!LessIsStrict

(* The issues of an entry are finite, and no other entry has one of them.    *)
LEMMA IssuesAre ==
    ASSUME CatalogIs, Loaded, NEW k \in Entries
    PROVE  /\ IsFiniteSet(IssuesOf(k))
           /\ Issues(k, result.catalog[k]) = SetToSeq(IssuesOf(k))
           /\ \A V \in SUBSET Entries : k \notin V => IssuesOver(V) \intersect IssuesOf(k) = {}
<1>1. k.section \in Section
  BY RowIs
<1>2. IsFiniteSet({IssuesAt(k, f) : f \in Fields(k.section)})
  <2> DEFINE at == [f \in Fields(k.section) |-> IssuesAt(k, f)]
  <2>1. IsFiniteSet({at[f] : f \in Fields(k.section)})
    <3>1. IsFiniteSet(Fields(k.section)) /\ DOMAIN at = Fields(k.section)
      BY <1>1, FieldsAreFinite
    <3> HIDE DEF at
    <3> QED BY <3>1, ImageIsFinite
  <2>2. {at[f] : f \in Fields(k.section)} = {IssuesAt(k, f) : f \in Fields(k.section)}
    OBVIOUS
  <2> QED BY <2>1, <2>2
<1>3. ASSUME NEW f \in Fields(k.section) PROVE IsFiniteSet(IssuesAt(k, f))
  <2> DEFINE T == TodoAt(result.catalog[k], f)
             at == [i \in T |-> [section |-> k.section, type |-> k.type, field |-> f, index |-> i, file |-> firstSeen[k]]]
  <2>1. IsFiniteSet(T) /\ DOMAIN at = T
    BY TodoAtIs
  <2>2. {at[i] : i \in T} = IssuesAt(k, f)
    BY DEF IssuesAt
  <2> HIDE DEF at, T
  <2>3. IsFiniteSet({at[i] : i \in T})
    BY <2>1, ImageIsFinite
  <2> QED BY <2>2, <2>3
<1>4. IsFiniteSet(IssuesOf(k))
  <2>1. \A A \in {IssuesAt(k, f) : f \in Fields(k.section)} : IsFiniteSet(A)
    BY <1>3
  <2> QED BY <1>2, <2>1, FS_UNION DEF IssuesOf
<1>5. Issues(k, result.catalog[k]) = SetToSeq(IssuesOf(k))
  BY DEF Issues, IssuesOf, IssuesAt
<1>6. ASSUME NEW V \in SUBSET Entries, k \notin V, NEW a \in IssuesOver(V), a \in IssuesOf(k) PROVE FALSE
  <2>1. PICK j \in V : a \in IssuesOf(j)
    BY DEF IssuesOver
  <2>2. a.section = j.section /\ a.type = j.type /\ a.section = k.section /\ a.type = k.type
    BY <1>6, <2>1, IssueIs
  <2>3. j = k
    BY <2>2, EntriesAre
  <2> QED BY <1>6, <2>1, <2>3
<1> QED BY <1>4, <1>5, <1>6

-----------------------------------------------------------------------------
(* The walk, as far as it is.                                                *)
Visited == Entries \ left
Rows(V) == {Row(k) : k \in V}
InFile(V, n) == {k \in V : firstSeen[k] = n}
Under(V, c) == {k \in V : Constraint(k) = c}

ServicesSoFar ==
    /\ DOMAIN services = {firstSeen[k] : k \in Visited}
    /\ \A n \in DOMAIN services :
         /\ services[n].empirical \in Nat /\ services[n].docsSource \in Nat
         /\ services[n].empirical + services[n].docsSource = services[n].total
         /\ services[n].total = Cardinality(InFile(Visited, n))

CensusSoFar ==
    /\ DOMAIN counts = {Constraint(k) : k \in Visited}
    /\ \A c \in DOMAIN counts : counts[c] = Cardinality(Under(Visited, c))

WalkSoFar ==
    /\ left \subseteq Entries
    /\ ServicesSoFar /\ CensusSoFar
    /\ ListsOnce(aging, Rows(Visited)) /\ ListsOnce(missing, IssuesOver(Visited))

WalkInv ==
    /\ spc \in {"idle", "walk", "done"}
    /\ spc = "idle" => services = <<>> /\ counts = <<>> /\ aging = <<>> /\ missing = <<>>
    /\ spc = "walk" => Loaded /\ WalkSoFar
    /\ spc = "done" => Loaded /\ TablesExact /\ PlaceholdersNoticed

(* One more element is one more in its own class.                            *)
ClassOf(V, h, n) == {x \in V : h[x] = n}

LEMMA ClassGrows ==
    ASSUME NEW V, IsFiniteSet(V), NEW k, k \notin V, NEW h, NEW n
    PROVE  /\ Cardinality(ClassOf(V, h, n)) \in Nat
           /\ Cardinality(ClassOf(V \union {k}, h, n)) =
                Cardinality(ClassOf(V, h, n)) + (IF h[k] = n THEN 1 ELSE 0)
           /\ (\A x \in V : h[x] # n) => Cardinality(ClassOf(V, h, n)) = 0
<1> DEFINE A == ClassOf(V, h, n)
           B == ClassOf(V \union {k}, h, n)
<1>1. A \in SUBSET V /\ k \notin A /\ B = IF h[k] = n THEN A \union {k} ELSE A
  BY DEF ClassOf
<1>2. (\A x \in V : h[x] # n) => A = {}
  BY DEF ClassOf
<1> HIDE DEF A, B
<1>3. IsFiniteSet(A) /\ Cardinality(A) \in Nat
  BY <1>1, FS_Subset, FS_CardinalityType
<1>4. Cardinality(A \union {k}) = Cardinality(A) + 1
  BY <1>1, <1>3, FS_AddElement
<1>5. Cardinality(B) = Cardinality(A) + (IF h[k] = n THEN 1 ELSE 0)
  BY <1>1, <1>3, <1>4
<1>6. (\A x \in V : h[x] # n) => Cardinality(A) = 0
  BY <1>2, FS_EmptySet
<1> QED BY <1>3, <1>5, <1>6 DEF A, B

VisitStays(k) ==
    /\ left' = left \ {k} /\ result' = result /\ firstSeen' = firstSeen /\ pc' = pc /\ cat' = cat

LEMMA VisitedGrows ==
    ASSUME CatalogIs, Loaded, left \subseteq Entries, NEW k \in left, VisitStays(k)
    PROVE  /\ Visited' = Visited \union {k} /\ k \notin Visited /\ IsFiniteSet(Visited) /\ Visited \in SUBSET Entries
           /\ SoundEntry(k) /\ result.catalog[k] = cat[k] /\ k \in Entries
<1>1. Entries' = Entries
  BY DEF VisitStays, Entries
<1>2. Visited' = Visited \union {k} /\ k \notin Visited /\ Visited \in SUBSET Entries
  BY <1>1 DEF VisitStays, Visited
<1>3. IsFiniteSet(Visited)
  BY <1>2, EntriesAre, FS_Subset
<1> QED BY <1>2, <1>3, EntriesAre

LEMMA ServiceCounted ==
    ASSUME CatalogIs, Loaded, left \subseteq Entries, ServicesSoFar, NEW k \in left, VisitStays(k),
           services' = CountService(firstSeen[k], result.catalog[k].method)
    PROVE  ServicesSoFar'
<1> DEFINE m == firstSeen[k]
           method == result.catalog[k].method
           row == IF m \in DOMAIN services THEN services[m] ELSE [total |-> 0, empirical |-> 0, docsSource |-> 0]
           new == [total |-> row.total + 1,
                   empirical |-> row.empirical + (IF method = "empirical" THEN 1 ELSE 0),
                   docsSource |-> row.docsSource + (IF method = "docs+source" THEN 1 ELSE 0)]
<1>1. /\ Visited' = Visited \union {k} /\ k \notin Visited /\ IsFiniteSet(Visited)
      /\ method = cat[k].method /\ SoundEntry(k)
  BY VisitedGrows
<1>2. method \in {"empirical", "docs+source"}
  BY <1>1, EntryIs DEF Methods
<1>3. /\ DOMAIN services' = DOMAIN services \union {m}
      /\ services'[m] = new
      /\ \A n \in DOMAIN services : n # m => services'[n] = services[n]
  <2>1. services' = Put(services, m, new)
    BY DEF CountService
  <2> HIDE DEF new, m
  <2> QED BY <2>1 DEF Put
<1>4. ASSUME NEW n
      PROVE  /\ Cardinality(InFile(Visited, n)) \in Nat
             /\ Cardinality(InFile(Visited, n)') = Cardinality(InFile(Visited, n)) + (IF m = n THEN 1 ELSE 0)
             /\ n \notin DOMAIN services => Cardinality(InFile(Visited, n)) = 0
  <2>1. n \notin DOMAIN services => \A x \in Visited : firstSeen[x] # n
    BY DEF ServicesSoFar
  <2>2. InFile(Visited, n)' = ClassOf(Visited \union {k}, firstSeen, n)
    BY <1>1 DEF InFile, VisitStays, ClassOf
  <2>3. InFile(Visited, n) = ClassOf(Visited, firstSeen, n)
    BY DEF InFile, ClassOf
  <2>4. /\ Cardinality(ClassOf(Visited, firstSeen, n)) \in Nat
        /\ Cardinality(ClassOf(Visited \union {k}, firstSeen, n)) =
             Cardinality(ClassOf(Visited, firstSeen, n)) + (IF firstSeen[k] = n THEN 1 ELSE 0)
        /\ (\A x \in Visited : firstSeen[x] # n) => Cardinality(ClassOf(Visited, firstSeen, n)) = 0
    BY <1>1, ClassGrows
  <2> QED BY <2>1, <2>2, <2>3, <2>4
<1>5. /\ row.empirical \in Nat /\ row.docsSource \in Nat
      /\ row.empirical + row.docsSource = row.total
      /\ row.total = Cardinality(InFile(Visited, m))
  <2>1. CASE m \in DOMAIN services
    <3>1. row = services[m]
      BY <2>1
    <3> HIDE DEF row
    <3> QED BY <2>1, <3>1 DEF ServicesSoFar
  <2>2. CASE m \notin DOMAIN services
    <3>1. row = [total |-> 0, empirical |-> 0, docsSource |-> 0]
      BY <2>2
    <3>2. Cardinality(InFile(Visited, m)) = 0
      BY <1>4, <2>2
    <3> QED BY <3>1, <3>2
  <2> QED BY <2>1, <2>2
<1>6. /\ new.empirical \in Nat /\ new.docsSource \in Nat
      /\ new.empirical + new.docsSource = new.total
      /\ new.total = row.total + 1
  <2>1. /\ new.empirical = row.empirical + (IF method = "empirical" THEN 1 ELSE 0)
        /\ new.docsSource = row.docsSource + (IF method = "docs+source" THEN 1 ELSE 0)
        /\ new.total = row.total + 1
    OBVIOUS
  <2> HIDE DEF new, row
  <2>2. row.total \in Nat
    BY <1>5
  <2> QED BY <1>2, <1>5, <2>1, <2>2
<1> HIDE DEF new, row
<1>7. DOMAIN services' = {firstSeen'[x] : x \in Visited'}
  BY <1>1, <1>3 DEF ServicesSoFar, VisitStays
<1>8. ASSUME NEW n \in DOMAIN services'
      PROVE  /\ services'[n].empirical \in Nat /\ services'[n].docsSource \in Nat
             /\ services'[n].empirical + services'[n].docsSource = services'[n].total
             /\ services'[n].total = Cardinality(InFile(Visited, n)')
  <2>1. CASE n = m
    <3>1. services'[n] = new /\ Cardinality(InFile(Visited, n)') = Cardinality(InFile(Visited, n)) + 1
      BY <1>3, <1>4, <2>1
    <3> QED BY <1>5, <1>6, <2>1, <3>1
  <2>2. CASE n # m
    <3>1. n \in DOMAIN services /\ services'[n] = services[n]
      BY <1>3, <2>2
    <3>2. Cardinality(InFile(Visited, n)') = Cardinality(InFile(Visited, n))
      BY <1>4, <2>2
    <3> QED BY <3>1, <3>2 DEF ServicesSoFar
  <2> QED BY <2>1, <2>2
<1> QED BY <1>7, <1>8 DEF ServicesSoFar

LEMMA ConstraintCounted ==
    ASSUME CatalogIs, Loaded, left \subseteq Entries, CensusSoFar, NEW k \in left, VisitStays(k),
           counts' = Add(counts, result.catalog[k].tested_against_provider, 1)
    PROVE  CensusSoFar'
<1> DEFINE c == Constraint(k)
           h == [x \in Entries |-> Constraint(x)]
           old == IF c \in DOMAIN counts THEN counts[c] ELSE 0
<1>1. /\ Visited' = Visited \union {k} /\ k \notin Visited /\ IsFiniteSet(Visited)
      /\ k \in Entries /\ Visited \in SUBSET Entries
  BY VisitedGrows
<1>2. \A x : Constraint(x)' = Constraint(x)
  BY DEF Constraint, VisitStays
<1>3. /\ DOMAIN counts' = DOMAIN counts \union {c}
      /\ counts'[c] = old + 1
      /\ \A d \in DOMAIN counts : d # c => counts'[d] = counts[d]
  <2>1. counts' = Put(counts, c, old + 1)
    BY DEF Add, Constraint
  <2> HIDE DEF c, old
  <2> QED BY <2>1 DEF Put
<1>4. ASSUME NEW d
      PROVE  /\ Cardinality(Under(Visited, d)) \in Nat
             /\ Cardinality(Under(Visited, d)') = Cardinality(Under(Visited, d)) + (IF c = d THEN 1 ELSE 0)
             /\ d \notin DOMAIN counts => Cardinality(Under(Visited, d)) = 0
  <2>1. d \notin DOMAIN counts => \A x \in Visited : h[x] # d
    BY <1>1 DEF CensusSoFar
  <2>2. Under(Visited, d)' = ClassOf(Visited \union {k}, h, d)
    BY <1>1, <1>2 DEF Under, ClassOf
  <2>3. Under(Visited, d) = ClassOf(Visited, h, d)
    BY <1>1 DEF Under, ClassOf
  <2>4. h[k] = c
    BY <1>1
  <2> HIDE DEF h, c
  <2>5. /\ Cardinality(ClassOf(Visited, h, d)) \in Nat
        /\ Cardinality(ClassOf(Visited \union {k}, h, d)) =
             Cardinality(ClassOf(Visited, h, d)) + (IF h[k] = d THEN 1 ELSE 0)
        /\ (\A x \in Visited : h[x] # d) => Cardinality(ClassOf(Visited, h, d)) = 0
    BY <1>1, ClassGrows
  <2> QED BY <2>1, <2>2, <2>3, <2>4, <2>5
<1>5. old = Cardinality(Under(Visited, c)) /\ old \in Nat
  BY <1>4 DEF CensusSoFar
<1> HIDE DEF old
<1>6. DOMAIN counts' = {Constraint(x)' : x \in Visited'}
  BY <1>1, <1>2, <1>3 DEF CensusSoFar
<1>7. ASSUME NEW d \in DOMAIN counts' PROVE counts'[d] = Cardinality(Under(Visited, d)')
  <2>1. CASE d = c
    <3> HIDE DEF c
    <3> QED BY <1>3, <1>4, <1>5, <2>1
  <2>2. CASE d # c
    <3>1. d \in DOMAIN counts /\ counts'[d] = counts[d] /\ counts[d] = Cardinality(Under(Visited, d))
      BY <1>3, <2>2 DEF CensusSoFar
    <3> HIDE DEF c
    <3> QED BY <1>4, <2>2, <3>1
  <2> QED BY <2>1, <2>2
<1> QED BY <1>6, <1>7 DEF CensusSoFar

LEMMA RowsStay == ASSUME NEW k, VisitStays(k) PROVE \A j : Row(j)' = Row(j) /\ IssuesOf(j)' = IssuesOf(j)
<1>1. \A j : Row(j)' = Row(j)
  BY DEF VisitStays, Row
<1>2. \A j, f : IssuesAt(j, f)' = IssuesAt(j, f)
  BY DEF VisitStays, IssuesAt, TodoAt
<1>3. \A j : IssuesOf(j)' = IssuesOf(j)
  BY <1>2 DEF IssuesOf
<1> QED BY <1>1, <1>3

LEMMA VisitKeeps == ASSUME CatalogIs, WalkInv, Visit PROVE WalkInv'
<1>1. spc = "walk" /\ spc' = "walk" /\ Loaded /\ WalkSoFar
  BY DEF Visit, WalkInv
<1>2. PICK k \in left :
        /\ VisitStays(k)
        /\ services' = CountService(firstSeen[k], result.catalog[k].method)
        /\ counts' = Add(counts, result.catalog[k].tested_against_provider, 1)
        /\ aging' = Append(aging, Row(k))
        /\ missing' = missing \o Issues(k, result.catalog[k])
  BY DEF Visit, VisitStays, vars, Row
<1>3. left \subseteq Entries
  BY <1>1 DEF WalkSoFar
<1>4. /\ Visited' = Visited \union {k} /\ k \notin Visited /\ Visited \in SUBSET Entries
      /\ k \in Entries
  BY <1>1, <1>2, <1>3, VisitedGrows
<1>5. \A j : Row(j)' = Row(j) /\ IssuesOf(j)' = IssuesOf(j)
  BY <1>2, RowsStay
<1>6. left' \subseteq Entries'
  BY <1>2, <1>3 DEF VisitStays, Entries
<1>7. ServicesSoFar'
  BY <1>1, <1>2, <1>3, ServiceCounted DEF WalkSoFar
<1>8. CensusSoFar'
  BY <1>1, <1>2, <1>3, ConstraintCounted DEF WalkSoFar
<1>9. ListsOnce(aging, Rows(Visited))'
  <2>1. Rows(Visited)' = Rows(Visited) \union {Row(k)}
    BY <1>4, <1>5 DEF Rows
  <2>2. Row(k) \notin Rows(Visited)
    <3> SUFFICES ASSUME NEW j \in Visited, Row(k) = Row(j) PROVE FALSE
      BY DEF Rows
    <3>1. j \in Entries
      BY <1>4
    <3>2. j.section = k.section /\ j.type = k.type
      BY <1>1, <1>4, <3>1, RowIs
    <3> QED BY <1>1, <1>4, <3>1, <3>2, EntriesAre
  <2>3. ListsOnce(Append(aging, Row(k)), Rows(Visited) \union {Row(k)})
    BY <1>1, <2>2, ListsAppend DEF WalkSoFar
  <2>4. ListsOnce(aging', Rows(Visited)')
    BY <1>2, <2>1, <2>3
  <2> QED BY <2>4
<1>10. ListsOnce(missing, IssuesOver(Visited))'
  <2>1. IssuesOver(Visited)' = IssuesOver(Visited) \union IssuesOf(k)
    BY <1>4, <1>5 DEF IssuesOver
  <2>2. /\ IsFiniteSet(IssuesOf(k)) /\ Issues(k, result.catalog[k]) = SetToSeq(IssuesOf(k))
        /\ IssuesOver(Visited) \intersect IssuesOf(k) = {}
    BY <1>1, <1>4, IssuesAre
  <2>3. ListsOnce(SetToSeq(IssuesOf(k)), IssuesOf(k))
    BY <2>2, SetIsListed
  <2>4. ListsOnce(missing \o SetToSeq(IssuesOf(k)), IssuesOver(Visited) \union IssuesOf(k))
    BY <1>1, <2>2, <2>3, ListsConcatenate DEF WalkSoFar
  <2>5. ListsOnce(missing', IssuesOver(Visited)')
    BY <1>2, <2>1, <2>2, <2>4
  <2> QED BY <2>5
<1>11. WalkSoFar'
  BY <1>6, <1>7, <1>8, <1>9, <1>10 DEF WalkSoFar
<1>12. Loaded'
  BY <1>1, <1>2 DEF Loaded, VisitStays
<1> QED BY <1>1, <1>11, <1>12 DEF WalkInv

LEMMA StartKeeps == ASSUME CatalogIs, WalkInv, StartWalk PROVE WalkInv'
<1>1. /\ spc = "idle" /\ pc = "done" /\ result.ok /\ left' = DOMAIN result.catalog /\ spc' = "walk"
      /\ result' = result /\ firstSeen' = firstSeen /\ pc' = pc
      /\ services' = services /\ counts' = counts /\ aging' = aging /\ missing' = missing
  BY DEF StartWalk, vars
<1>2. services = <<>> /\ counts = <<>> /\ aging = <<>> /\ missing = <<>>
  BY <1>1 DEF WalkInv
<1>3. Loaded' /\ left' = Entries' /\ Visited' = {}
  BY <1>1 DEF Loaded, Entries, Visited
<1>4. DOMAIN services' = {} /\ DOMAIN counts' = {}
  BY <1>1, <1>2
<1>5. ServicesSoFar' /\ CensusSoFar'
  BY <1>3, <1>4 DEF ServicesSoFar, CensusSoFar
<1>6. ListsOnce(aging', Rows(Visited)') /\ ListsOnce(missing', IssuesOver(Visited)')
  <2>1. Rows(Visited)' = {} /\ IssuesOver(Visited)' = {}
    BY <1>3 DEF Rows, IssuesOver
  <2> QED BY <1>1, <1>2, <2>1, NothingIsListed
<1>7. WalkSoFar'
  BY <1>3, <1>5, <1>6 DEF WalkSoFar
<1> QED BY <1>1, <1>3, <1>7 DEF WalkInv

LEMMA LoadKeeps == ASSUME CatalogIs, WalkInv, Load PROVE WalkInv'
<1>1. Next /\ UNCHANGED svars
  BY DEF Load
<1>2. spc = "idle"
  BY <1>1, LoadEnds DEF WalkInv, Loaded
<1> QED BY <1>1, <1>2 DEF WalkInv, svars

-----------------------------------------------------------------------------
(* Sorting them all.                                                         *)
Cut(s) == IF Len(s) > oldestVerifiedLimit THEN SubSeq(s, 1, oldestVerifiedLimit) ELSE s

(* Cutting leaves the first ones, and those that are cut come after all.     *)
LEMMA CutIs ==
    ASSUME NEW S, NEW s, ListsOnce(s, S), NEW Less, \A i, k \in DOMAIN s : i < k => <<s[i], s[k]>> \in Less
    PROVE  /\ Cut(s) \in Seq(S)
           /\ \A i, k \in DOMAIN Cut(s) : i < k => <<Cut(s)[i], Cut(s)[k]>> \in Less
           /\ \A x \in S : \/ \E i \in DOMAIN Cut(s) : Cut(s)[i] = x
                           \/ /\ Len(Cut(s)) = oldestVerifiedLimit
                              /\ \A i \in DOMAIN Cut(s) : <<Cut(s)[i], x>> \in Less
<1> DEFINE n == Len(s)
           m == oldestVerifiedLimit
           t == Cut(s)
<1>1. s \in Seq(S) /\ n \in Nat /\ m \in Nat /\ DOMAIN s = 1 .. n
  BY LimitAssumption DEF ListsOnce
<1>2. \A x \in S : \E i \in 1 .. n : s[i] = x
  BY <1>1 DEF ListsOnce
<1>3. CASE n > m
  <2>1. t = SubSeq(s, 1, m)
    BY <1>3 DEF Cut
  <2>2. /\ t \in Seq(S) /\ Len(t) = m /\ DOMAIN t = 1 .. m
        /\ \A i \in 1 .. m : t[i] = s[i] /\ i \in 1 .. n
    <3> HIDE DEF t
    <3> QED BY <1>1, <1>3, <2>1
  <2> HIDE DEF t, n, m
  <2>3. \A i, k \in 1 .. m : i < k => <<t[i], t[k]>> \in Less
    BY <1>1, <2>2
  <2>4. ASSUME NEW x \in S, \A i \in 1 .. m : t[i] # x, NEW i \in 1 .. m PROVE <<t[i], x>> \in Less
    <3>1. PICK k \in 1 .. n : s[k] = x
      BY <1>2
    <3>2. k \notin 1 .. m
      BY <2>2, <2>4, <3>1
    <3>3. i < k
      BY <1>1, <3>2
    <3> QED BY <1>1, <2>2, <3>1, <3>3
  <2>5. \A i, k \in DOMAIN t : i < k => <<t[i], t[k]>> \in Less
    BY <2>2, <2>3
  <2>6. ASSUME NEW x \in S
        PROVE  \/ \E i \in DOMAIN t : t[i] = x
               \/ Len(t) = m /\ \A i \in DOMAIN t : <<t[i], x>> \in Less
    BY <2>2, <2>4
  <2> QED BY <2>2, <2>5, <2>6 DEF t, m
<1>4. CASE ~(n > m)
  <2>1. t = s
    BY <1>4 DEF Cut
  <2> HIDE DEF t
  <2>2. t \in Seq(S)
    BY <1>1, <2>1
  <2>3. \A i, k \in DOMAIN t : i < k => <<t[i], t[k]>> \in Less
    BY <2>1
  <2>4. \A x \in S : \E i \in DOMAIN t : t[i] = x
    BY <1>1, <1>2, <2>1
  <2> QED BY <2>2, <2>3, <2>4 DEF t
<1> QED BY <1>3, <1>4

ServicesAre ==
    /\ DOMAIN services = {firstSeen[k] : k \in Entries}
    /\ Sum([n \in DOMAIN services |-> services[n].total]) = Cardinality(Entries)
    /\ \A n \in DOMAIN services :
         /\ services[n].empirical + services[n].docsSource = services[n].total
         /\ services[n].total = Cardinality({k \in Entries : firstSeen[k] = n})

CensusIs(g) ==
    /\ \A i \in DOMAIN g :
         g[i].count = Cardinality({k \in Entries : result.catalog[k].tested_against_provider = g[i].constraint})
    /\ Sum([i \in DOMAIN g |-> g[i].count]) = Cardinality(Entries)
    /\ \A i, j \in DOMAIN g : i < j =>
         /\ g[i].count >= g[j].count
         /\ g[i].count = g[j].count => g[i].constraint < g[j].constraint

OldestAre(a) ==
    /\ \A k \in Entries :
         \/ \E i \in DOMAIN a : a[i].section = k.section /\ a[i].type = k.type
         \/ /\ Len(a) = oldestVerifiedLimit
            /\ \A i \in DOMAIN a :
                 LexLess(<<a[i].at, Rank(a[i].section, LexicalSections), a[i].type>>,
                        <<result.catalog[k].verified_at, Rank(k.section, LexicalSections), k.type>>)
    /\ \A i, j \in DOMAIN a : i < j =>
         LexLess(<<a[i].at, Rank(a[i].section, LexicalSections), a[i].type>>,
                <<a[j].at, Rank(a[j].section, LexicalSections), a[j].type>>)

PlaceholdersAre(m) ==
    /\ \A k \in Entries : \A f \in Fields(k.section) :
         LeftAsStub(k, f) => \E i \in DOMAIN m :
             m[i].section = k.section /\ m[i].type = k.type /\ m[i].field = f
    /\ \A i \in DOMAIN m :
         LET held == result.catalog[[section |-> m[i].section, type |-> m[i].type]][m[i].field]
         IN  held = Todo \/ (m[i].field \in Lists /\ Todo \in ToSet(held))
    /\ \A i, j \in DOMAIN m : i < j => IssueLess(m[i], m[j])

LEMMA ServicesCounted ==
    ASSUME CatalogIs, Loaded, left = {}, ServicesSoFar
    PROVE  ServicesAre
<1> DEFINE h == [k \in Entries |-> firstSeen[k]]
           f == [n \in DOMAIN services |-> services[n].total]
           D == DOMAIN services
<1>1. Visited = Entries /\ IsFiniteSet(Entries)
  BY EntriesAre DEF Visited
<1>2. D = {h[k] : k \in Entries}
  BY <1>1 DEF ServicesSoFar
<1>3. IsFiniteSet(D)
  <2>1. DOMAIN h = Entries
    OBVIOUS
  <2> HIDE DEF h, D
  <2> QED BY <1>1, <1>2, <2>1, ImageIsFinite
<1>4. h \in [Entries -> D]
  <2>1. \A k \in Entries : h[k] \in D
    BY <1>2
  <2> HIDE DEF D
  <2> QED BY <2>1
<1>5. \A n \in D : services[n].total = Cardinality({k \in Entries : firstSeen[k] = n})
  BY <1>1 DEF ServicesSoFar, InFile
<1>6. ASSUME NEW n \in D PROVE f[n] = Cardinality({k \in Entries : h[k] = n})
  <2>1. {k \in Entries : h[k] = n} = {k \in Entries : firstSeen[k] = n}
    OBVIOUS
  <2>2. f[n] = services[n].total
    OBVIOUS
  <2> HIDE DEF h, f, D
  <2> QED BY <1>5, <2>1, <2>2
<1>7. TotalOf(f) = Cardinality(Entries)
  <2>1. DOMAIN f = D
    OBVIOUS
  <2> HIDE DEF f, h, D
  <2> QED BY <1>1, <1>3, <1>4, <1>6, <2>1, ClassesSum
<1>8. Sum(f) = Cardinality(Entries)
  BY <1>7 DEF Sum, TotalOf, FoldFunction, FoldFunctionOnSet, MapThenFoldSet
<1>9. DOMAIN services = {firstSeen[k] : k \in Entries}
  BY <1>1 DEF ServicesSoFar
<1>10. \A n \in D : services[n].empirical + services[n].docsSource = services[n].total
  BY DEF ServicesSoFar
<1> QED BY <1>5, <1>8, <1>9, <1>10 DEF ServicesAre

LEMMA CensusCounted ==
    ASSUME CatalogIs, Loaded, left = {}, CensusSoFar
    PROVE  CensusIs(SortedBy(SetToSeq({[constraint |-> c, count |-> counts[c]] : c \in DOMAIN counts}), GroupLess))
<1> DEFINE C == DOMAIN counts
           S == {[constraint |-> c, count |-> counts[c]] : c \in C}
           g == SortedBy(SetToSeq(S), GroupLess)
           D == DOMAIN g
           Having(c) == {k \in Entries : Constraint(k) = c}
           con == [k \in Entries |-> Constraint(k)]
           h == [k \in Entries |-> CHOOSE i \in D : g[i].constraint = Constraint(k)]
           f == [i \in D |-> g[i].count]
<1>1. Visited = Entries /\ IsFiniteSet(Entries)
  BY EntriesAre DEF Visited
<1>2. /\ C = {Constraint(k) : k \in Entries}
      /\ \A c \in C : counts[c] = Cardinality(Having(c))
  BY <1>1 DEF CensusSoFar, Under
<1>3. C \subseteq Nat /\ IsFiniteSet(C)
  <2>1. C \subseteq Nat
    <3> SUFFICES ASSUME NEW k \in Entries PROVE Constraint(k) \in Nat
      BY <1>2
    <3> QED BY EntriesAre, EntryIs DEF Constraint
  <2>2. C = {con[k] : k \in Entries} /\ DOMAIN con = Entries
    BY <1>2
  <2> HIDE DEF con, C
  <2>3. IsFiniteSet(C)
    BY <1>1, <2>2, ImageIsFinite
  <2> QED BY <2>1, <2>3
<1>4. \A c \in C : counts[c] \in Nat
  <2> SUFFICES ASSUME NEW c \in C PROVE Cardinality(Having(c)) \in Nat
    BY <1>2
  <2>1. Having(c) \in SUBSET Entries
    OBVIOUS
  <2> HIDE DEF Having
  <2> QED BY <1>1, <2>1, FS_Subset, FS_CardinalityType
<1>5. /\ BySize!LessIsStrict(S)
      /\ \A a, b \in S : a # b => GroupLess(a, b) \/ GroupLess(b, a)
  <2> DEFINE n == [c \in C |-> counts[c]]
  <2>1. n \in [C -> Nat]
    BY <1>4
  <2>2. S = {[constraint |-> c, count |-> n[c]] : c \in C}
    OBVIOUS
  <2> HIDE DEF n, C, S
  <2> DEFINE T == {[constraint |-> c, count |-> n[c]] : c \in C}
  <2>3. /\ BySize!LessIsStrict(T)
        /\ \A a, b \in T : a # b => GroupLess(a, b) \/ GroupLess(b, a)
    BY <1>3, <2>1, GroupLessOrders
  <2> HIDE DEF T
  <2> QED BY <2>2, <2>3 DEF T
<1>6. IsFiniteSet(S)
  <2> DEFINE e == [c \in C |-> [constraint |-> c, count |-> counts[c]]]
  <2>1. S = {e[c] : c \in C} /\ DOMAIN e = C
    OBVIOUS
  <2> HIDE DEF e, C, S
  <2> QED BY <1>3, <2>1, ImageIsFinite
<1>7. ListsOnce(g, S) /\ \A i, j \in D : i < j => GroupLess(g[i], g[j])
  <2> HIDE DEF S
  <2>1. ListsOnce(SetToSeq(S), S)
    BY <1>6, SetIsListed
  <2>2. BySize!ListsOnce(SetToSeq(S), S)
    BY <2>1 DEF ListsOnce, BySize!ListsOnce
  <2>3. LET t == BySize!SortedBy(SetToSeq(S), GroupLess)
        IN  BySize!ListsOnce(t, S) /\ \A i, k \in DOMAIN t : i < k => GroupLess(t[i], t[k])
    BY <1>5, <2>2, BySize!ListsSort
  <2>4. g = BySize!SortedBy(SetToSeq(S), GroupLess)
    BY DEF SortedBy, BySize!SortedBy, Cardinality, BySize!Cardinality
  <2> HIDE DEF g
  <2>5. BySize!ListsOnce(g, S)
    BY <2>3, <2>4
  <2>6. ListsOnce(g, S)
    BY <2>5 DEF ListsOnce, BySize!ListsOnce
  <2> QED BY <2>3, <2>4, <2>6
<1>8. /\ g \in Seq(S) /\ D \subseteq Nat
      /\ \A i \in D : g[i] \in S
      /\ \A a \in S : \E i \in D : g[i] = a
      /\ \A i, j \in D : i # j => g[i] # g[j]
  <2> HIDE DEF g, S
  <2>1. g \in Seq(S)
    BY <1>7 DEF ListsOnce
  <2>2. D \subseteq Nat /\ \A i \in D : g[i] \in S
    BY <2>1
  <2>3. \A a \in S : \E i \in D : g[i] = a
    BY <1>7 DEF ListsOnce
  <2>4. \A i, j \in D : i # j => g[i] # g[j]
    BY <1>7 DEF ListsOnce
  <2> QED BY <2>1, <2>2, <2>3, <2>4
<1>9. IsFiniteSet(D)
  <2> DEFINE n == Len(g)
  <2>1. n \in Nat /\ D = 1 .. n
    BY <1>8
  <2> HIDE DEF n, D
  <2>2. 1 \in Int /\ n \in Int
    BY <2>1
  <2> QED BY <2>1, <2>2, FS_Interval
<1> HIDE DEF g
<1>10. \A i \in D : g[i].constraint \in C /\ g[i].count = counts[g[i].constraint] /\ g[i].count \in Nat
  <2>1. \A a \in S : a.constraint \in C /\ a.count = counts[a.constraint]
    OBVIOUS
  <2> HIDE DEF S, C, D
  <2> QED BY <1>4, <1>8, <2>1
<1>11. \A c \in C : \E i \in D : g[i].constraint = c
  <2> TAKE c \in C
  <2> DEFINE a == [constraint |-> c, count |-> counts[c]]
  <2>1. a \in S /\ a.constraint = c
    OBVIOUS
  <2> HIDE DEF a, S, C, D
  <2> QED BY <1>8, <2>1
<1>12. \A i, j \in D : g[i].constraint = g[j].constraint => i = j
  <2>1. \A a, b \in S : a.constraint = b.constraint => a = b
    OBVIOUS
  <2> HIDE DEF S, C, D
  <2> QED BY <1>8, <2>1
<1>13. \A i \in D : g[i].count = Cardinality(Having(g[i].constraint))
  BY <1>2, <1>10
<1>14. \A k \in Entries : h[k] \in D /\ g[h[k]].constraint = Constraint(k)
  <2>1. \A k \in Entries : Constraint(k) \in C
    BY <1>2
  <2> HIDE DEF D, C
  <2> QED BY <1>11, <2>1
<1>15. h \in [Entries -> D]
  BY <1>14
<1>16. ASSUME NEW i \in D PROVE f[i] = Cardinality({k \in Entries : h[k] = i})
  <2> HIDE DEF h
  <2>1. \A k \in Entries : h[k] = i <=> Constraint(k) = g[i].constraint
    BY <1>12, <1>14
  <2>2. {k \in Entries : h[k] = i} = Having(g[i].constraint)
    BY <2>1
  <2>3. f[i] = g[i].count
    OBVIOUS
  <2> HIDE DEF f, Having, D
  <2> QED BY <1>13, <2>2, <2>3
<1>17. TotalOf(f) = Cardinality(Entries)
  <2>1. DOMAIN f = D
    OBVIOUS
  <2> HIDE DEF f, h, D
  <2> QED BY <1>1, <1>9, <1>15, <1>16, <2>1, ClassesSum
<1>18. Sum(f) = Cardinality(Entries)
  BY <1>17 DEF Sum, TotalOf, FoldFunction, FoldFunctionOnSet, MapThenFoldSet
<1>19. \A i, j \in D : i < j => /\ g[i].count >= g[j].count
                                /\ g[i].count = g[j].count => g[i].constraint < g[j].constraint
  <2> HIDE DEF D
  <2> QED BY <1>7, <1>10 DEF GroupLess
<1>20. \A i \in D : g[i].count = Cardinality({k \in Entries : result.catalog[k].tested_against_provider = g[i].constraint})
  BY <1>13 DEF Constraint
<1>21. CensusIs(g)
  <2>1. Sum([i \in DOMAIN g |-> g[i].count]) = Cardinality(Entries)
    BY <1>18
  <2> QED BY <1>19, <1>20, <2>1, Zenon DEF CensusIs
<1> QED BY <1>21 DEF g

LEMMA OldestListed ==
    ASSUME CatalogIs, Loaded, left = {}, ListsOnce(aging, Rows(Visited))
    PROVE  OldestAre(Cut(SortedBy(aging, Older)))
<1> DEFINE S == {Row(k) : k \in Entries}
           s == SortedBy(aging, Older)
           Less == {p \in S \X S : Older(p[1], p[2])}
           t == Cut(s)
<1>1. Rows(Visited) = S
  BY DEF Rows, Visited
<1>2. ListsOnce(s, S) /\ \A i, k \in DOMAIN s : i < k => Older(s[i], s[k])
  <2>1. ByAge!LessIsStrict(S) /\ \A a, b \in S : a # b => Older(a, b) \/ Older(b, a)
    BY OlderOrders
  <2> HIDE DEF S
  <2>2. ByAge!ListsOnce(aging, S)
    BY <1>1 DEF ListsOnce, ByAge!ListsOnce
  <2>3. LET u == ByAge!SortedBy(aging, Older)
        IN  ByAge!ListsOnce(u, S) /\ \A i, k \in DOMAIN u : i < k => Older(u[i], u[k])
    BY <2>1, <2>2, ByAge!ListsSort
  <2>4. s = ByAge!SortedBy(aging, Older)
    BY DEF SortedBy, ByAge!SortedBy, Cardinality, ByAge!Cardinality
  <2> HIDE DEF s
  <2>5. ByAge!ListsOnce(s, S)
    BY <2>3, <2>4
  <2>6. ListsOnce(s, S)
    BY <2>5 DEF ListsOnce, ByAge!ListsOnce
  <2> QED BY <2>3, <2>4, <2>6
<1> HIDE DEF s
<1>3. \A a, b \in S : <<a, b>> \in Less <=> Older(a, b)
  <2> HIDE DEF S
  <2> QED OBVIOUS
<1> HIDE DEF Less
<1>4. \A i, k \in DOMAIN s : i < k => <<s[i], s[k]>> \in Less
  <2> HIDE DEF S
  <2>1. \A i \in DOMAIN s : s[i] \in S
    BY <1>2 DEF ListsOnce
  <2> QED BY <1>2, <1>3, <2>1
<1>5. /\ t \in Seq(S)
      /\ \A i, k \in DOMAIN t : i < k => <<t[i], t[k]>> \in Less
      /\ \A x \in S : \/ \E i \in DOMAIN t : t[i] = x
                      \/ /\ Len(t) = oldestVerifiedLimit
                         /\ \A i \in DOMAIN t : <<t[i], x>> \in Less
  <2> HIDE DEF S
  <2> QED BY <1>2, <1>4, CutIs
<1> HIDE DEF t
<1>6. \A i \in DOMAIN t : t[i] \in S
  <2> HIDE DEF S
  <2> QED BY <1>5
<1> DEFINE AgeOf(a) == <<a.at, Rank(a.section, LexicalSections), a.type>>
<1>7. ASSUME NEW a \in S, NEW b \in S, <<a, b>> \in Less PROVE LexLess(AgeOf(a), AgeOf(b))
  <2>1. PICK j \in Entries : a = Row(j)
    OBVIOUS
  <2>2. PICK k \in Entries : b = Row(k)
    OBVIOUS
  <2>3. Older(Row(j), Row(k))
    BY <1>3, <1>7, <2>1, <2>2
  <2> QED BY <2>1, <2>2, <2>3, OlderBefore
<1>8. \A k \in Entries : /\ Row(k) \in S /\ Row(k).section = k.section /\ Row(k).type = k.type
                         /\ AgeOf(Row(k)) = <<result.catalog[k].verified_at, Rank(k.section, LexicalSections), k.type>>
  BY RowIs
<1> HIDE DEF S
<1>9. ASSUME NEW k \in Entries
      PROVE  \/ \E i \in DOMAIN t : t[i].section = k.section /\ t[i].type = k.type
             \/ /\ Len(t) = oldestVerifiedLimit
                /\ \A i \in DOMAIN t :
                     LexLess(AgeOf(t[i]), <<result.catalog[k].verified_at, Rank(k.section, LexicalSections), k.type>>)
  <2>1. CASE \E i \in DOMAIN t : t[i] = Row(k)
    BY <1>8, <2>1
  <2>2. CASE Len(t) = oldestVerifiedLimit /\ \A i \in DOMAIN t : <<t[i], Row(k)>> \in Less
    <3> HIDE DEF AgeOf
    <3>1. \A i \in DOMAIN t : LexLess(AgeOf(t[i]), AgeOf(Row(k)))
      BY <1>6, <1>7, <1>8, <2>2
    <3> QED BY <1>8, <2>2, <3>1
  <2> QED BY <1>5, <1>8, <2>1, <2>2
<1>10. \A i, j \in DOMAIN t : i < j => LexLess(AgeOf(t[i]), AgeOf(t[j]))
  <2> HIDE DEF AgeOf
  <2> QED BY <1>5, <1>6, <1>7
<1>11. OldestAre(t)
  BY <1>9, <1>10 DEF OldestAre
<1> QED BY <1>11 DEF t, s

LEMMA PlaceholdersListed ==
    ASSUME CatalogIs, Loaded, left = {}, ListsOnce(missing, IssuesOver(Visited))
    PROVE  PlaceholdersAre(SortedBy(missing, IssueLess))
<1> DEFINE S == IssuesOver(Entries)
           m == SortedBy(missing, IssueLess)
<1>1. IssuesOver(Visited) = S
  BY DEF IssuesOver, Visited
<1>2. ListsOnce(m, S) /\ \A i, k \in DOMAIN m : i < k => IssueLess(m[i], m[k])
  <2>1. ByField!LessIsStrict(S) /\ \A a, b \in S : a # b => IssueLess(a, b) \/ IssueLess(b, a)
    BY IssueLessOrders
  <2> HIDE DEF S
  <2>2. ByField!ListsOnce(missing, S)
    BY <1>1 DEF ListsOnce, ByField!ListsOnce
  <2>3. LET u == ByField!SortedBy(missing, IssueLess)
        IN  ByField!ListsOnce(u, S) /\ \A i, k \in DOMAIN u : i < k => IssueLess(u[i], u[k])
    BY <2>1, <2>2, ByField!ListsSort
  <2>4. m = ByField!SortedBy(missing, IssueLess)
    BY DEF SortedBy, ByField!SortedBy, Cardinality, ByField!Cardinality
  <2> HIDE DEF m
  <2>5. ByField!ListsOnce(m, S)
    BY <2>3, <2>4
  <2>6. ListsOnce(m, S)
    BY <2>5 DEF ListsOnce, ByField!ListsOnce
  <2> QED BY <2>3, <2>4, <2>6
<1> HIDE DEF m
<1>3. (\A i \in DOMAIN m : m[i] \in S) /\ \A x \in S : \E i \in DOMAIN m : m[i] = x
  <2> HIDE DEF S
  <2> QED BY <1>2 DEF ListsOnce
<1>4. ASSUME NEW k \in Entries, NEW f \in Fields(k.section), LeftAsStub(k, f)
      PROVE  \E i \in DOMAIN m : m[i].section = k.section /\ m[i].type = k.type /\ m[i].field = f
  <2>1. TodoAt(result.catalog[k], f) # {}
    BY <1>4, TodoAtIs DEF LeftAsStub
  <2>2. PICK i \in TodoAt(result.catalog[k], f) : TRUE
    BY <2>1
  <2> DEFINE x == [section |-> k.section, type |-> k.type, field |-> f, index |-> i, file |-> firstSeen[k]]
  <2>3. x \in S
    BY <2>2 DEF IssuesOver, IssuesOf, IssuesAt
  <2>4. x.section = k.section /\ x.type = k.type /\ x.field = f
    OBVIOUS
  <2> HIDE DEF x, S
  <2> QED BY <1>3, <2>3, <2>4
<1>5. ASSUME NEW i \in DOMAIN m
      PROVE  LET held == result.catalog[[section |-> m[i].section, type |-> m[i].type]][m[i].field]
             IN  held = Todo \/ (m[i].field \in Lists /\ Todo \in ToSet(held))
  <2>1. PICK k \in Entries : m[i] \in IssuesOf(k)
    BY <1>3 DEF IssuesOver
  <2>2. /\ m[i].section = k.section /\ m[i].type = k.type /\ m[i].field \in Fields(k.section)
        /\ TodoAt(result.catalog[k], m[i].field) # {}
    BY <2>1, IssueIs
  <2>3. k = [section |-> m[i].section, type |-> m[i].type]
    BY <2>2, EntriesAre, EntryIs
  <2>4. LET held == result.catalog[k][m[i].field]
        IN  held = Todo \/ (m[i].field \in Lists /\ Todo \in ToSet(held))
    BY <2>2, TodoAtIs
  <2> QED BY <2>3, <2>4
<1>6. PlaceholdersAre(m)
  <2> HIDE DEF S
  <2> QED BY <1>2, <1>4, <1>5 DEF PlaceholdersAre
<1> QED BY <1>6 DEF m

LEMMA SortKeeps == ASSUME CatalogIs, WalkInv, Sort PROVE WalkInv'
<1>1. Loaded /\ left = {} /\ ServicesSoFar /\ CensusSoFar /\ ListsOnce(aging, Rows(Visited)) /\ ListsOnce(missing, IssuesOver(Visited))
  BY DEF WalkInv, WalkSoFar, Sort
<1>2. /\ spc' = "done" /\ result' = result /\ firstSeen' = firstSeen /\ services' = services
      /\ aging' = Cut(SortedBy(aging, Older)) /\ missing' = SortedBy(missing, IssueLess)
      /\ groups' = SortedBy(SetToSeq({[constraint |-> c, count |-> counts[c]] : c \in DOMAIN counts}), GroupLess)
      /\ pc' = pc
  BY DEF Sort, vars, Cut
<1>3. ServicesAre /\ OldestAre(aging') /\ PlaceholdersAre(missing') /\ CensusIs(groups')
  BY <1>1, <1>2, ServicesCounted, OldestListed, PlaceholdersListed, CensusCounted
<1>4. Entries' = Entries
  BY <1>2 DEF Entries
<1>5. Loaded'
  BY <1>1, <1>2 DEF Loaded
<1>6. TablesExact'
  BY <1>2, <1>3, <1>4 DEF TablesExact, ServicesAre, OldestAre, CensusIs
<1>7. PlaceholdersNoticed'
  BY <1>2, <1>3, <1>4 DEF PlaceholdersNoticed, PlaceholdersAre, LeftAsStub
<1> QED BY <1>2, <1>5, <1>6, <1>7 DEF WalkInv

LEMMA NothingKeeps == ASSUME WalkInv, UNCHANGED <<vars, svars>> PROVE WalkInv'
<1>1. /\ pc' = pc /\ cat' = cat /\ result' = result /\ firstSeen' = firstSeen /\ spc' = spc /\ left' = left
      /\ services' = services /\ counts' = counts /\ aging' = aging /\ missing' = missing /\ groups' = groups
  BY DEF vars, svars
<1>2. Entries' = Entries /\ Visited' = Visited /\ Loaded' = Loaded
  BY <1>1 DEF Entries, Visited, Loaded
<1>3. \A k : Row(k)' = Row(k) /\ Constraint(k)' = Constraint(k) /\ IssuesOf(k)' = IssuesOf(k)
  BY <1>1 DEF Row, Constraint, IssuesOf, IssuesAt, TodoAt
<1>4. WalkSoFar => WalkSoFar'
  <2>1. ServicesSoFar => ServicesSoFar'
    BY <1>1, <1>2 DEF ServicesSoFar, InFile
  <2>2. CensusSoFar => CensusSoFar'
    BY <1>1, <1>2, <1>3 DEF CensusSoFar, Under
  <2>3. Rows(Visited)' = Rows(Visited) /\ IssuesOver(Visited)' = IssuesOver(Visited)
    BY <1>2, <1>3 DEF Rows, IssuesOver
  <2> QED BY <1>1, <1>2, <2>1, <2>2, <2>3 DEF WalkSoFar
<1>5. TablesExact' = TablesExact
  BY <1>1, <1>2 DEF TablesExact
<1>6. PlaceholdersNoticed' = PlaceholdersNoticed
  BY <1>1, <1>2 DEF PlaceholdersNoticed, LeftAsStub
<1> QED BY <1>1, <1>2, <1>4, <1>5, <1>6 DEF WalkInv

-----------------------------------------------------------------------------
StatsInv == LoadInv /\ CatalogIs /\ WalkInv

LEMMA StatsStart == StatsInit => StatsInv
<1> SUFFICES ASSUME StatsInit PROVE StatsInv
  OBVIOUS
<1>1. LoadInv
  BY LoadStarts DEF StatsInit
<1>2. CatalogIs
  BY DEF StatsInit, Init, CatalogIs
<1>3. WalkInv
  BY DEF StatsInit, WalkInv
<1> QED BY <1>1, <1>2, <1>3 DEF StatsInv

LEMMA StatsStep == StatsInv /\ [StatsNext]_<<vars, svars>> => StatsInv'
<1> SUFFICES ASSUME StatsInv, [StatsNext]_<<vars, svars>> PROVE StatsInv'
  OBVIOUS
<1>1. LoadInv /\ CatalogIs /\ WalkInv
  BY DEF StatsInv
<1>2. [Next]_vars
  <2>1. CASE Load
    BY <2>1 DEF Load
  <2>2. CASE StartWalk \/ Visit \/ Sort
    <3>1. UNCHANGED vars
      BY <2>2 DEF StartWalk, Visit, Sort, vars
    <3> QED BY <3>1
  <2>3. CASE UNCHANGED <<vars, svars>>
    BY <2>3
  <2> QED BY <2>1, <2>2, <2>3 DEF StatsNext
<1>3. LoadInv' /\ CatalogIs'
  BY <1>1, <1>2, LoadStep, CatalogStays
<1>4. WalkInv'
  BY <1>1, LoadKeeps, StartKeeps, VisitKeeps, SortKeeps, NothingKeeps DEF StatsNext
<1> QED BY <1>3, <1>4 DEF StatsInv

(* The tables of `catalog stats' and the census of `catalog versions' are    *)
(* those of the catalog, in whatever order Go walks its maps: nothing is     *)
(* counted twice or lost, and no order of the walk shows in a table.         *)
THEOREM TablesAreExact == StatsSpec => []TablesExact
<1>1. StatsInv => TablesExact
  BY DEF StatsInv, WalkInv, TablesExact
<1> QED BY <1>1, StatsStart, StatsStep, PTL DEF StatsSpec

(* What scaffold wrote into an entry and nobody replaced stands in the table *)
(* of missing provenance, and nothing else does.                             *)
THEOREM PlaceholdersAreNoticed == StatsSpec => []PlaceholdersNoticed
<1>1. StatsInv => PlaceholdersNoticed
  BY DEF StatsInv, WalkInv, PlaceholdersNoticed
<1> QED BY <1>1, StatsStart, StatsStep, PTL DEF StatsSpec

-----------------------------------------------------------------------------
(* Sums and powers.                                                         *)
Added(s) == FoldLeft(+, 0, s)
IsSum(q, k, a) == a = q[k]
HasSums(t, n, h) ==
    \E q \in [0 .. n -> Nat] : q[0] = 0 /\ \A k \in 1 .. n : q[k] = q[k - 1] + t[k]
HasPowers(b, n, h) ==
    \E f \in [0 .. n -> Nat \ {0}] : f[0] = 1 /\ \A k \in 1 .. n : f[k] = b * f[k - 1]

Summing == INSTANCE FoldProofs WITH FoldStep <- Plus, FoldHolds <- IsSum
SummingUp == INSTANCE FoldProofs WITH FoldStep <- Plus, FoldHolds <- HasSums
RaisingUp == INSTANCE FoldProofs WITH FoldStep <- Plus, FoldHolds <- HasPowers

LEMMA SumIs ==
    ASSUME NEW n \in Nat, NEW t \in [1 .. n -> Nat]
    PROVE  \E q \in [0 .. n -> Nat] :
             /\ q[0] = 0
             /\ \A k \in 1 .. n : q[k] = q[k - 1] + t[k]
             /\ Added(t) = q[n]
<1> DEFINE HasQ(m) == \E q \in [0 .. m -> Nat] : q[0] = 0 /\ \A k \in 1 .. m : q[k] = q[k - 1] + t[k]
<1>1. HasQ(0)
  <2> DEFINE q == [k \in 0 .. 0 |-> 0]
  <2>1. q \in [0 .. 0 -> Nat] /\ q[0] = 0 /\ 1 .. 0 = {}
    OBVIOUS
  <2> HIDE DEF q
  <2> QED BY <2>1
<1>2. ASSUME NEW m \in 1 .. n, HasQ(m - 1) PROVE HasQ(m)
  <2>1. PICK q \in [0 .. m - 1 -> Nat] : q[0] = 0 /\ \A k \in 1 .. m - 1 : q[k] = q[k - 1] + t[k]
    BY <1>2
  <2> DEFINE r == [k \in 0 .. m |-> IF k = m THEN q[m - 1] + t[m] ELSE q[k]]
  <2>2. m \in Nat /\ m - 1 \in 0 .. m - 1 /\ t[m] \in Nat /\ q[m - 1] \in Nat
    OBVIOUS
  <2>3. \A k \in 0 .. m : k # m => k \in 0 .. m - 1
    OBVIOUS
  <2>4. r \in [0 .. m -> Nat]
    BY <2>2, <2>3
  <2>5. r[0] = 0 /\ r[m] = r[m - 1] + t[m]
    BY <2>1, <2>2
  <2>6. \A k \in 1 .. m - 1 : r[k] = q[k] /\ r[k - 1] = q[k - 1]
    OBVIOUS
  <2>7. \A k \in 1 .. m : k = m \/ k \in 1 .. m - 1
    OBVIOUS
  <2> HIDE DEF r
  <2>8. \A k \in 1 .. m : r[k] = r[k - 1] + t[k]
    BY <2>1, <2>5, <2>6, <2>7
  <2> QED BY <2>4, <2>5, <2>8
<1>3. \A m \in 0 .. n : HasSums(t, m, 0)
  <2>1. \A m : HasSums(t, m, 0) <=> HasQ(m)
    BY DEF HasSums
  <2> HIDE DEF HasQ
  <2> QED BY <1>1, <1>2, <2>1, SummingUp!Induction
<1>4. PICK q \in [0 .. n -> Nat] : q[0] = 0 /\ \A k \in 1 .. n : q[k] = q[k - 1] + t[k]
  <2>1. n \in 0 .. n
    OBVIOUS
  <2> QED BY <1>3, <2>1 DEF HasSums
<1>5. IsSum(q, n, Summing!Folded(0, 0, t))
  <2>1. DOMAIN t = 1 .. n /\ IsSum(q, 0, 0)
    BY <1>4 DEF IsSum
  <2>2. \A k \in 1 .. n : \A a : IsSum(q, k - 1, a) => IsSum(q, k, Plus(0, a, t[k]))
    BY <1>4 DEF IsSum, Plus
  <2> QED BY <2>1, <2>2, Summing!FoldInduction
<1>6. Summing!Folded(0, 0, t) = Added(t)
  BY DEF Added, Summing!Folded, Summing!Greatest, Plus, FoldLeft, MapThenFoldSet, Max
<1> QED BY <1>4, <1>5, <1>6 DEF IsSum

LEMMA PowersExist ==
    ASSUME NEW b \in Nat \ {0}, NEW n \in Nat
    PROVE  \E f \in [0 .. n -> Nat \ {0}] : f[0] = 1 /\ \A k \in 1 .. n : f[k] = b * f[k - 1]
<1> DEFINE HasF(m) == \E f \in [0 .. m -> Nat \ {0}] : f[0] = 1 /\ \A k \in 1 .. m : f[k] = b * f[k - 1]
<1>1. HasF(0)
  <2> DEFINE f == [k \in 0 .. 0 |-> 1]
  <2>1. f \in [0 .. 0 -> Nat \ {0}] /\ f[0] = 1 /\ 1 .. 0 = {}
    OBVIOUS
  <2> HIDE DEF f
  <2> QED BY <2>1
<1>2. ASSUME NEW m \in 1 .. n, HasF(m - 1) PROVE HasF(m)
  <2>1. PICK f \in [0 .. m - 1 -> Nat \ {0}] : f[0] = 1 /\ \A k \in 1 .. m - 1 : f[k] = b * f[k - 1]
    BY <1>2
  <2> DEFINE p == b * f[m - 1]
             g == [k \in 0 .. m |-> IF k = m THEN p ELSE f[k]]
  <2>2. m \in Nat /\ m - 1 \in 0 .. m - 1 /\ f[m - 1] \in Nat \ {0}
    OBVIOUS
  <2>3. p \in Nat \ {0}
    <3>1. \A x, y \in Nat \ {0} : x * y \in Nat \ {0}
      OBVIOUS
    <3> QED BY <2>2, <3>1
  <2> HIDE DEF p
  <2>4. \A k \in 0 .. m : k # m => k \in 0 .. m - 1
    OBVIOUS
  <2>5. g \in [0 .. m -> Nat \ {0}]
    BY <2>3, <2>4
  <2>6. g[0] = 1 /\ g[m] = p /\ g[m - 1] = f[m - 1]
    BY <2>1, <2>2
  <2>7. \A k \in 1 .. m - 1 : g[k] = f[k] /\ g[k - 1] = f[k - 1]
    OBVIOUS
  <2>8. \A k \in 1 .. m : k = m \/ k \in 1 .. m - 1
    OBVIOUS
  <2> HIDE DEF g
  <2>9. \A k \in 1 .. m : g[k] = b * g[k - 1]
    BY <2>1, <2>6, <2>7, <2>8 DEF p
  <2> QED BY <2>5, <2>6, <2>9
<1>3. \A m \in 0 .. n : HasPowers(b, m, 0)
  <2>1. \A m : HasPowers(b, m, 0) <=> HasF(m)
    BY DEF HasPowers
  <2> HIDE DEF HasF
  <2> QED BY <1>1, <1>2, <2>1, RaisingUp!Induction
<1>4. n \in 0 .. n
  OBVIOUS
<1> QED BY <1>3, <1>4 DEF HasPowers

LEMMA WeightIs ==
    /\ Weight \in [0 .. Width -> Nat \ {0}] /\ Weight[Width] = 1
    /\ \A k \in 1 .. Width : Weight[k - 1] = Base * Weight[k]
<1> DEFINE Is(g) == g = [k \in 0 .. Width |-> IF k = Width THEN 1 ELSE Base * g[k + 1]]
           W == Weight
<1>0. Base \in Nat \ {0} /\ Width \in Nat
  BY DriftAssumption
<1>1. PICK f \in [0 .. Width -> Nat \ {0}] : f[0] = 1 /\ \A k \in 1 .. Width : f[k] = Base * f[k - 1]
  BY <1>0, PowersExist
<1> DEFINE g == [k \in 0 .. Width |-> f[Width - k]]
<1>2. Is(g)
  <2>1. \A k \in 0 .. Width : k # Width => /\ k + 1 \in 0 .. Width /\ Width - k \in 1 .. Width
                                            /\ (Width - k) - 1 = Width - (k + 1)
    BY <1>0
  <2>2. \A k \in 0 .. Width : k # Width => g[k] = Base * g[k + 1]
    <3> TAKE k \in 0 .. Width
    <3> HAVE k # Width
    <3>1. f[Width - k] = Base * f[(Width - k) - 1]
      BY <1>1, <2>1
    <3>2. g[k] = f[Width - k] /\ g[k + 1] = f[Width - (k + 1)]
      BY <2>1
    <3> HIDE DEF g
    <3> QED BY <2>1, <3>1, <3>2
  <2>3. g[Width] = 1
    BY <1>0, <1>1
  <2>4. g = [k \in 0 .. Width |-> g[k]]
    OBVIOUS
  <2> HIDE DEF g
  <2>5. [k \in 0 .. Width |-> g[k]] = [k \in 0 .. Width |-> IF k = Width THEN 1 ELSE Base * g[k + 1]]
    BY <2>2, <2>3
  <2> QED BY <2>4, <2>5
<1>3. Is(W)
  <2>1. W = CHOOSE h : Is(h)
    BY DEF Weight
  <2> HIDE DEF Is, W, g
  <2> QED BY <1>2, <2>1
<1>4. DOMAIN W = 0 .. Width /\ \A k \in 0 .. Width : W[k] = IF k = Width THEN 1 ELSE Base * W[k + 1]
  <2> HIDE DEF W
  <2> QED BY <1>3
<1> HIDE DEF W, Is, g
<1>5. \A k \in 0 .. Width : W[k] = f[Width - k]
  <2> DEFINE Same(k) == W[Width - k] = f[k]
             B == {k \in 0 .. Width : ~Same(k)}
  <2>1. Same(0)
    BY <1>0, <1>1, <1>4
  <2>2. ASSUME NEW k \in 1 .. Width, Same(k - 1) PROVE Same(k)
    <3>1. Width - k \in 0 .. Width /\ Width - k # Width /\ (Width - k) + 1 = Width - (k - 1)
      BY <1>0
    <3>2. W[Width - k] = Base * W[Width - (k - 1)]
      BY <1>4, <3>1
    <3> QED BY <1>1, <2>2, <3>2
  <2>3. B = {}
    <3> SUFFICES ASSUME B # {} PROVE FALSE
      OBVIOUS
    <3>1. B \in SUBSET (0 .. Width)
      OBVIOUS
    <3>2. PICK k \in B : \A j \in B : k <= j
      <4> HIDE DEF B
      <4> QED BY <1>0, <3>1, Extremes
    <3>3. k # 0 /\ k \in 1 .. Width /\ k - 1 \in 0 .. Width
      BY <1>0, <2>1, <3>2
    <3>4. k - 1 \notin B
      BY <3>2, <3>3
    <3> QED BY <2>2, <3>2, <3>3, <3>4
  <2>4. \A k \in 0 .. Width : Same(k)
    BY <2>3
  <2>5. \A k \in 0 .. Width : Width - k \in 0 .. Width /\ Width - (Width - k) = k
    BY <1>0
  <2> HIDE DEF B
  <2> QED BY <2>4, <2>5
<1>6. \A k \in 0 .. Width : W[k] \in Nat \ {0}
  <2>1. \A k \in 0 .. Width : Width - k \in 0 .. Width
    BY <1>0
  <2> QED BY <1>5, <2>1
<1>7. \A k \in 1 .. Width : W[k - 1] = Base * W[k]
  <2>1. \A k \in 1 .. Width : k - 1 \in 0 .. Width /\ k - 1 # Width /\ (k - 1) + 1 = k
    BY <1>0
  <2> QED BY <1>4, <2>1
<1>8. W[Width] = 1
  BY <1>0, <1>4
<1>9. W \in [0 .. Width -> Nat \ {0}]
  <2>1. W = [k \in 0 .. Width |-> W[k]]
    BY <1>3 DEF Is
  <2> QED BY <1>6, <2>1
<1> QED BY <1>7, <1>8, <1>9 DEF W

-----------------------------------------------------------------------------
(* The number of a version, component by component.                         *)
Digit == 0 .. Base - 1
Version == {v \in Seq(Digit) : Len(v) <= Width}

Totals(v, q) ==
    /\ q \in [0 .. Width -> Nat] /\ q[0] = 0
    /\ \A k \in 1 .. Width : q[k] = q[k - 1] + At(v, k) * Weight[k]

LEMMA BaseIs == Base \in Nat \ {0, 1} /\ Width \in Nat
BY DriftAssumption

LEMMA WeightType ==
    ASSUME NEW k \in 0 .. Width
    PROVE  Weight[k] \in Nat /\ Weight[k] >= 1
BY WeightIs

LEMMA AtIs ==
    ASSUME NEW v \in Version, NEW k \in Nat \ {0}
    PROVE  /\ At(v, k) \in Nat /\ At(v, k) <= Base - 1
           /\ k <= Len(v) => At(v, k) = v[k]
           /\ k > Len(v) => At(v, k) = 0
BY BaseIs DEF At, Version, Digit

LEMMA Products == \A x, y \in Nat : x * y \in Nat
OBVIOUS

LEMMA OneMore == \A x, w \in Nat : (x + 1) * w = x * w + w
OBVIOUS

LEMMA ProductsGrow == ASSUME NEW x \in Nat, NEW y \in Nat, NEW w \in Nat, x <= y PROVE x * w <= y * w
OBVIOUS

LEMMA NumberIs ==
    ASSUME NEW v \in Version
    PROVE  \E q : Totals(v, q) /\ Number(v) = q[Width]
<1> DEFINE W == Weight
           n == Len(v)
           t == [k \in DOMAIN v |-> v[k] * W[k]]
<1>0. /\ Width \in Nat /\ n \in Nat /\ n <= Width /\ DOMAIN v = 1 .. n
      /\ \A k \in 1 .. n : v[k] \in Nat
  BY BaseIs DEF Version, Digit
<1>1. \A k \in 0 .. Width : W[k] \in Nat
  BY WeightType
<1>2. t \in [1 .. n -> Nat] /\ \A k \in 1 .. n : t[k] = v[k] * W[k]
  <2>1. \A k \in 1 .. n : k \in 0 .. Width
    BY <1>0
  <2> HIDE DEF W, n
  <2>2. \A k \in 1 .. n : v[k] * W[k] \in Nat
    BY <1>0, <1>1, <2>1, Products
  <2> QED BY <1>0, <2>2
<1>3. Number(v) = Added(t)
  BY DEF Added, Number, FoldLeft, FoldLeft, MapThenFoldSet, MapThenFoldSet, Max, Max
<1> HIDE DEF t, W, n
<1>4. PICK r \in [0 .. n -> Nat] :
        r[0] = 0 /\ (\A k \in 1 .. n : r[k] = r[k - 1] + t[k]) /\ Added(t) = r[n]
  BY <1>0, <1>2, SumIs
<1> DEFINE q == [k \in 0 .. Width |-> IF k <= n THEN r[k] ELSE r[n]]
<1>5. q \in [0 .. Width -> Nat] /\ q[0] = 0 /\ q[Width] = r[n]
  <2>1. \A k \in 0 .. Width : k <= n => k \in 0 .. n
    BY <1>0
  <2>2. n \in 0 .. n /\ (Width <= n => Width = n) /\ 0 <= n /\ 0 \in 0 .. Width /\ Width \in 0 .. Width
    BY <1>0
  <2>3. \A k \in 0 .. Width : q[k] = IF k <= n THEN r[k] ELSE r[n]
    OBVIOUS
  <2>4. q[0] = 0 /\ q[Width] = r[n]
    BY <1>4, <2>2, <2>3
  <2>5. \A k \in 0 .. Width : (IF k <= n THEN r[k] ELSE r[n]) \in Nat
    BY <2>1, <2>2
  <2> QED BY <2>4, <2>5
<1>6. \A k \in 1 .. Width : q[k] = q[k - 1] + At(v, k) * W[k]
  <2> TAKE k \in 1 .. Width
  <2>1. k \in Nat \ {0} /\ k - 1 \in 0 .. Width /\ k \in 0 .. Width
    BY <1>0
  <2>2. CASE k <= n
    <3>1. k \in 1 .. n /\ k - 1 <= n
      BY <1>0, <2>1, <2>2
    <3>2. r[k] = r[k - 1] + v[k] * W[k]
      BY <1>2, <1>4, <3>1
    <3>3. At(v, k) = v[k]
      BY <2>1, <2>2, AtIs DEF n
    <3>4. q[k] = r[k] /\ q[k - 1] = r[k - 1]
      BY <2>1, <2>2, <3>1
    <3> QED BY <3>2, <3>3, <3>4
  <2>3. CASE ~(k <= n)
    <3>1. At(v, k) = 0
      BY <1>0, <2>1, <2>3, AtIs DEF n
    <3>2. q[k] = r[n] /\ q[k - 1] = r[n]
      BY <1>0, <2>1, <2>3
    <3>3. W[k] \in Nat /\ r[n] \in Nat
      <4>1. n \in 0 .. n
        BY <1>0
      <4> QED BY <1>1, <2>1, <4>1
    <3> HIDE DEF q
    <3> QED BY <3>1, <3>2, <3>3
  <2> QED BY <2>2, <2>3
<1>7. Totals(v, q)
  <2> HIDE DEF q
  <2> QED BY <1>5, <1>6 DEF Totals, W
<1> QED BY <1>3, <1>4, <1>5, <1>7

(* What follows a component weighs less than one more of it.                *)
LEMMA TailWeighsLess ==
    ASSUME NEW v \in Version, NEW q, Totals(v, q),
           NEW k \in 0 .. Width, NEW m \in k .. Width
    PROVE  q[k] <= q[m] /\ q[m] + Weight[m] <= q[k] + Weight[k]
<1> DEFINE W == Weight
           Within(j) == q[k] <= q[j] /\ q[j] + W[j] <= q[k] + W[k]
           B == {j \in k .. Width : ~Within(j)}
<1>0. Base \in Nat /\ Base > 1 /\ Width \in Nat
  BY BaseIs
<1>1. \A j \in 0 .. Width : W[j] \in Nat /\ q[j] \in Nat
  BY WeightType DEF Totals
<1>2. Within(k)
  <2> HIDE DEF W
  <2> QED BY <1>1
<1>3. ASSUME NEW j \in k + 1 .. Width, Within(j - 1) PROVE Within(j)
  <2> DEFINE a == At(v, j)
  <2>1. j \in 1 .. Width /\ j \in Nat \ {0} /\ j - 1 \in 0 .. Width /\ j \in 0 .. Width
    BY <1>0
  <2>2. q[j] = q[j - 1] + a * W[j] /\ W[j - 1] = Base * W[j]
    BY <2>1, WeightIs DEF Totals
  <2>3. a \in Nat /\ a <= Base - 1
    BY <2>1, AtIs
  <2> HIDE DEF a, W
  <2>4. a * W[j] \in Nat /\ a * W[j] <= (Base - 1) * W[j]
    <3>1. W[j] \in Nat /\ Base - 1 \in Nat
      BY <1>0, <1>1, <2>1
    <3> QED BY <2>3, <3>1, Products, ProductsGrow
  <2>5. (Base - 1) * W[j] + W[j] = Base * W[j]
    <3>1. W[j] \in Nat
      BY <1>1, <2>1
    <3> QED BY <1>0, <3>1
  <2>6. Base * W[j] \in Nat /\ (Base - 1) * W[j] \in Nat
    BY <1>0, <1>1, <2>1, Products
  <2> DEFINE x == a * W[j]
             y == (Base - 1) * W[j]
             z == Base * W[j]
  <2>7. x \in Nat /\ y \in Nat /\ z \in Nat /\ x <= y /\ y + W[j] = z /\ q[j] = q[j - 1] + x /\ W[j - 1] = z
    BY <2>2, <2>4, <2>5, <2>6
  <2> HIDE DEF x, y, z
  <2>8. q[k] <= q[j - 1] /\ q[j - 1] + W[j - 1] <= q[k] + W[k]
    BY <1>3
  <2>9. q[k] \in Nat /\ q[j - 1] \in Nat /\ W[j - 1] \in Nat /\ W[j] \in Nat /\ W[k] \in Nat
    BY <1>1, <2>1
  <2> DEFINE c == q[k]
             d == q[j - 1]
             wk == W[k]
             wj == W[j]
  <2>10. /\ c \in Nat /\ d \in Nat /\ wk \in Nat /\ wj \in Nat
         /\ c <= d /\ d + z <= c + wk /\ q[j] = d + x /\ x <= y /\ y + wj = z
    BY <2>7, <2>8, <2>9
  <2> HIDE DEF c, d, wk, wj
  <2>11. c <= d + x /\ (d + x) + wj <= c + wk
    BY <2>7, <2>10
  <2>12. q[k] <= q[j] /\ q[j] + W[j] <= q[k] + W[k]
    BY <2>10, <2>11 DEF c, wk, wj
  <2> QED BY <2>12
<1> HIDE DEF Within
<1>4. B = {}
  <2> SUFFICES ASSUME B # {} PROVE FALSE
    OBVIOUS
  <2>1. B \in SUBSET (0 .. Width)
    BY <1>0
  <2>2. PICK j \in B : \A i \in B : j <= i
    <3> HIDE DEF B
    <3> QED BY <1>0, <2>1, Extremes
  <2>3. j # k /\ j \in k + 1 .. Width /\ j - 1 \in k .. Width
    BY <1>0, <1>2, <2>2
  <2>4. j - 1 \notin B
    BY <2>2, <2>3
  <2> QED BY <1>3, <2>2, <2>3, <2>4
<1>5. Within(m)
  BY <1>4
<1> QED BY <1>5 DEF Within, W

(* Versions with the same beginning have the same total so far.             *)
LEMMA EqualSoFar ==
    ASSUME NEW a \in Version, NEW b \in Version,
           NEW p, Totals(a, p), NEW q, Totals(b, q),
           NEW m \in 0 .. Width, \A j \in 1 .. m : At(a, j) = At(b, j)
    PROVE  p[m] = q[m]
<1> DEFINE B == {j \in 0 .. m : p[j] # q[j]}
<1>0. Width \in Nat
  BY BaseIs
<1>1. B = {}
  <2> SUFFICES ASSUME B # {} PROVE FALSE
    OBVIOUS
  <2>1. B \in SUBSET (0 .. Width)
    BY <1>0
  <2>2. PICK j \in B : \A i \in B : j <= i
    <3> HIDE DEF B
    <3> QED BY <1>0, <2>1, Extremes
  <2>3. p[0] = q[0]
    BY DEF Totals
  <2>4. j # 0 /\ j \in 1 .. m /\ j \in 1 .. Width /\ j - 1 \in 0 .. m
    BY <1>0, <2>2, <2>3
  <2>5. j - 1 \notin B
    BY <2>2, <2>4
  <2>6. p[j - 1] = q[j - 1]
    BY <2>4, <2>5
  <2>7. p[j] = p[j - 1] + At(a, j) * Weight[j] /\ q[j] = q[j - 1] + At(b, j) * Weight[j]
    BY <2>4 DEF Totals
  <2>8. At(a, j) = At(b, j)
    BY <2>4
  <2>9. p[j] = q[j]
    BY <2>6, <2>7, <2>8
  <2> QED BY <2>2, <2>9
<1>2. m \in 0 .. m
  BY <1>0
<1> QED BY <1>1, <1>2

(* The first component that differs decides, by a whole unit of it.         *)
LEMMA HigherDecides ==
    ASSUME NEW a \in Version, NEW b \in Version,
           NEW p, Totals(a, p), NEW q, Totals(b, q),
           NEW k \in 1 .. Width, \A j \in 1 .. k - 1 : At(a, j) = At(b, j),
           At(a, k) > At(b, k), NEW m \in k .. Width
    PROVE  q[m] + Weight[m] <= p[k] /\ p[k] <= p[m]
<1> DEFINE W == Weight
           x == At(a, k)
           y == At(b, k)
<1>0. Width \in Nat /\ k \in Nat \ {0} /\ k \in 0 .. Width /\ k - 1 \in 0 .. Width
  BY BaseIs
<1>1. x \in Nat /\ y \in Nat /\ x > y
  BY <1>0, AtIs
<1>2. W[k] \in Nat /\ p[k - 1] \in Nat /\ p[k] \in Nat /\ q[k] \in Nat /\ q[k - 1] \in Nat
  BY <1>0, WeightType DEF Totals
<1>3. p[k - 1] = q[k - 1]
  BY <1>0, EqualSoFar
<1>4. p[k] = p[k - 1] + x * W[k] /\ q[k] = q[k - 1] + y * W[k]
  BY DEF Totals
<1>5. q[m] + W[m] <= q[k] + W[k] /\ p[k] <= p[m]
  BY <1>0, TailWeighsLess
<1>6. W[m] \in Nat /\ q[m] \in Nat
  <2>1. m \in 0 .. Width
    BY <1>0
  <2> QED BY <2>1, WeightType DEF Totals
<1> HIDE DEF W, x, y
<1>7. y + 1 <= x /\ y + 1 \in Nat
  BY <1>1
<1>8. (y + 1) * W[k] <= x * W[k]
  BY <1>1, <1>2, <1>7, ProductsGrow
<1>9. (y + 1) * W[k] = y * W[k] + W[k]
  BY <1>1, <1>2, OneMore
<1>10. x * W[k] \in Nat /\ y * W[k] \in Nat
  BY <1>1, <1>2, Products
<1> DEFINE xw == x * W[k]
           yw == y * W[k]
<1>11. xw \in Nat /\ yw \in Nat /\ yw + W[k] <= xw /\ p[k] = p[k - 1] + xw /\ q[k] = q[k - 1] + yw
  BY <1>4, <1>8, <1>9, <1>10
<1> HIDE DEF xw, yw
<1>12. q[k] + W[k] <= p[k]
  BY <1>2, <1>3, <1>11
<1>13. q[m] + W[m] <= p[k]
  BY <1>2, <1>5, <1>6, <1>12
<1> QED BY <1>5, <1>13 DEF W

(* compareVersions is the order of the numbers.                             *)
LEMMA CompareIs ==
    ASSUME NEW a \in Version, NEW b \in Version
    PROVE  LET cmp == compareVersions(a, b)
               m == Number(a)
               n == Number(b)
           IN  /\ m \in Nat /\ n \in Nat /\ cmp \in Int
               /\ (cmp = 0 <=> m = n) /\ (cmp > 0 <=> m > n) /\ (cmp < 0 <=> m < n)
<1> DEFINE differ == {k \in 1 .. Len(a) + Len(b) : At(a, k) # At(b, k)}
           cmp == compareVersions(a, b)
           m == Number(a)
           n == Number(b)
           W == Weight
<1>0. /\ Width \in Nat /\ Len(a) \in Nat /\ Len(b) \in Nat /\ Len(a) <= Width /\ Len(b) <= Width
      /\ \A k \in Nat \ {0} : At(a, k) \in Nat /\ At(b, k) \in Nat
  BY BaseIs, AtIs DEF Version
<1>1. PICK p : Totals(a, p) /\ m = p[Width]
  BY NumberIs
<1>2. PICK q : Totals(b, q) /\ n = q[Width]
  BY NumberIs
<1>3. m \in Nat /\ n \in Nat
  <2>1. Width \in 0 .. Width
    BY <1>0
  <2> QED BY <1>1, <1>2, <2>1 DEF Totals
<1>4. CASE differ = {}
  <2>1. \A k \in 1 .. Width : At(a, k) = At(b, k)
    <3> TAKE k \in 1 .. Width
    <3>1. k \in Nat \ {0}
      OBVIOUS
    <3>2. CASE k <= Len(a) + Len(b)
      <4>1. k \in 1 .. Len(a) + Len(b)
        BY <1>0, <3>1, <3>2
      <4>2. k \notin differ
        <5> HIDE DEF differ
        <5> QED BY <1>4
      <4> QED BY <4>1, <4>2
    <3>3. CASE ~(k <= Len(a) + Len(b))
      <4>1. k > Len(a) /\ k > Len(b)
        BY <1>0, <3>1, <3>3
      <4> QED BY <3>1, <4>1, AtIs
    <3> QED BY <3>2, <3>3
  <2>2. m = n
    <3>1. Width \in 0 .. Width
      BY <1>0
    <3> QED BY <1>1, <1>2, <2>1, <3>1, EqualSoFar
  <2>3. cmp = 0
    BY <1>4 DEF compareVersions
  <2> HIDE DEF m, n, cmp
  <2>4. cmp \in Int /\ (cmp = 0 <=> m = n) /\ (cmp > 0 <=> m > n) /\ (cmp < 0 <=> m < n)
    BY <1>3, <2>2, <2>3
  <2> QED BY <1>3, <2>4 DEF m, n, cmp
<1>5. CASE differ # {}
  <2> DEFINE First(k) == \A j \in differ : k <= j
             k == CHOOSE k \in differ : First(k)
             x == At(a, k)
             y == At(b, k)
  <2>1. differ \in SUBSET (0 .. Len(a) + Len(b))
    BY <1>0
  <2>2. k \in differ /\ First(k)
    <3> HIDE DEF differ
    <3>1. Len(a) + Len(b) \in Nat
      BY <1>0
    <3>2. \E j \in differ : First(j)
      BY <1>5, <2>1, <3>1, Extremes
    <3> HIDE DEF First
    <3> QED BY <3>2
  <2>3. cmp = x - y
    BY <1>5 DEF compareVersions
  <2> HIDE DEF k
  <2>4. k \in Nat \ {0} /\ x # y /\ x \in Nat /\ y \in Nat
    BY <1>0, <2>2
  <2>5. k \in 1 .. Width
    <3>1. k <= Len(a) \/ k <= Len(b)
      <4> SUFFICES ASSUME ~(k <= Len(a)), ~(k <= Len(b)) PROVE FALSE
        OBVIOUS
      <4>1. k > Len(a) /\ k > Len(b)
        BY <1>0, <2>4
      <4> QED BY <2>4, <4>1, AtIs
    <3> QED BY <1>0, <2>4, <3>1
  <2>6. \A j \in 1 .. k - 1 : At(a, j) = At(b, j)
    <3> SUFFICES ASSUME NEW j \in 1 .. k - 1, j \notin differ PROVE At(a, j) = At(b, j)
      BY <2>2, <2>4
    <3>1. j \in 1 .. Len(a) + Len(b)
      BY <1>0, <2>2
    <3> QED BY <3>1
  <2>7. Width \in k .. Width /\ W[Width] = 1
    BY <1>0, <2>4, <2>5, WeightIs
  <2>8. CASE x > y
    <3>1. q[Width] + W[Width] <= p[k] /\ p[k] <= p[Width]
      BY <1>1, <1>2, <2>5, <2>6, <2>7, <2>8, HigherDecides
    <3>2. p[k] \in Nat
      BY <1>1, <2>5 DEF Totals
    <3> HIDE DEF m, n, cmp, x, y
    <3>3. m > n
      BY <1>1, <1>2, <1>3, <2>7, <3>1, <3>2
    <3>4. cmp \in Int /\ (cmp = 0 <=> m = n) /\ (cmp > 0 <=> m > n) /\ (cmp < 0 <=> m < n)
      BY <1>3, <2>3, <2>4, <2>8, <3>3
    <3> QED BY <1>3, <3>4 DEF m, n, cmp
  <2>9. CASE y > x
    <3>0. \A j \in 1 .. k - 1 : At(b, j) = At(a, j)
      BY <2>6
    <3>1. p[Width] + W[Width] <= q[k] /\ q[k] <= q[Width]
      BY <1>1, <1>2, <2>5, <2>7, <2>9, <3>0, HigherDecides
    <3>2. q[k] \in Nat
      BY <1>2, <2>5 DEF Totals
    <3> HIDE DEF m, n, cmp, x, y
    <3>3. n > m
      BY <1>1, <1>2, <1>3, <2>7, <3>1, <3>2
    <3>4. cmp \in Int /\ (cmp = 0 <=> m = n) /\ (cmp > 0 <=> m > n) /\ (cmp < 0 <=> m < n)
      BY <1>3, <2>3, <2>4, <2>9, <3>3
    <3> QED BY <1>3, <3>4 DEF m, n, cmp
  <2>10. x > y \/ y > x
    BY <2>4
  <2> QED BY <2>8, <2>9, <2>10
<1> QED BY <1>4, <1>5

(* A version has a prefix if it lies in the interval of the prefix.         *)
LEMMA PrefixIs ==
    ASSUME NEW a \in Version, NEW b \in Version
    PROVE  LET m == Number(a)
               low == Number(b)
               w == Weight[Len(b)]
           IN  /\ m \in Nat /\ low \in Nat /\ w \in Nat /\ w >= 1
               /\ versionHasPrefix(a, b) <=> (low <= m /\ m < low + w)
<1> DEFINE m == Number(a)
           low == Number(b)
           W == Weight
           l == Len(b)
           D == {k \in 1 .. l : At(a, k) # At(b, k)}
<1>0. /\ Width \in Nat /\ l \in 0 .. Width /\ DOMAIN b = 1 .. l /\ Width \in l .. Width
      /\ \A k \in Nat \ {0} : At(a, k) \in Nat /\ At(b, k) \in Nat
  BY BaseIs, AtIs DEF Version
<1>1. PICK p : Totals(a, p) /\ m = p[Width]
  BY NumberIs
<1>2. PICK q : Totals(b, q) /\ low = q[Width]
  BY NumberIs
<1>3. m \in Nat /\ low \in Nat
  BY <1>0, <1>1, <1>2 DEF Totals
<1>4. W[l] \in Nat /\ W[l] >= 1 /\ W[Width] = 1
  BY <1>0, WeightType, WeightIs
<1>5. versionHasPrefix(a, b) <=> D = {}
  <2>1. \A k \in 1 .. l : At(b, k) = b[k]
    BY <1>0 DEF At
  <2> QED BY <1>0, <2>1 DEF versionHasPrefix
<1>6. low = q[l]
  <2> DEFINE B == {j \in l .. Width : q[j] # q[l]}
  <2>1. ASSUME B # {} PROVE FALSE
    <3>1. B \in SUBSET (0 .. Width)
      BY <1>0
    <3>2. PICK j \in B : \A i \in B : j <= i
      <4> HIDE DEF B
      <4> QED BY <1>0, <2>1, <3>1, Extremes
    <3>3. j # l /\ j \in Nat \ {0} /\ j > l /\ j \in 1 .. Width /\ j - 1 \in l .. Width
      <4>1. j \in l .. Width /\ j # l
        OBVIOUS
      <4> HIDE DEF B, l
      <4> QED BY <1>0, <4>1
    <3>4. j - 1 \notin B
      BY <3>2, <3>3
    <3>5. At(b, j) = 0
      BY <3>3, AtIs
    <3>6. q[j] = q[j - 1] + 0 * W[j]
      BY <1>2, <3>3, <3>5 DEF Totals
    <3>7. W[j] \in Nat /\ q[j - 1] \in Nat
      <4>1. j \in 0 .. Width /\ j - 1 \in 0 .. Width
        <5> HIDE DEF B, l
        <5> QED BY <1>0, <3>3
      <4> QED BY <1>2, <4>1, WeightType DEF Totals
    <3>8. q[j] = q[j - 1]
      BY <3>6, <3>7
    <3> QED BY <3>2, <3>3, <3>4, <3>8
  <2> QED BY <1>0, <1>2, <2>1
<1>7. ASSUME D = {} PROVE low <= m /\ m < low + W[l]
  <2>1. \A k \in 1 .. l : At(a, k) = At(b, k)
    BY <1>7
  <2>2. p[l] = q[l]
    BY <1>0, <1>1, <1>2, <2>1, EqualSoFar
  <2>3. p[l] <= p[Width] /\ p[Width] + W[Width] <= p[l] + W[l]
    BY <1>0, <1>1, TailWeighsLess
  <2> HIDE DEF m, low, l
  <2> QED BY <1>1, <1>3, <1>4, <1>6, <2>2, <2>3
<1>8. ASSUME D # {} PROVE ~(low <= m /\ m < low + W[l])
  <2>1. D \in SUBSET (0 .. l) /\ l \in Nat
    BY <1>0
  <2>2. PICK k \in D : \A j \in D : k <= j
    <3> HIDE DEF D
    <3> QED BY <1>8, <2>1, Extremes
  <2> DEFINE x == At(a, k)
             y == At(b, k)
  <2>3. k \in Nat \ {0} /\ k \in 1 .. Width /\ Width \in k .. Width /\ l \in k .. Width /\ x # y
    BY <1>0, <2>2
  <2>4. x \in Nat /\ y \in Nat
    BY <1>0, <2>3
  <2>5. \A j \in 1 .. k - 1 : At(a, j) = At(b, j)
    <3> SUFFICES ASSUME NEW j \in 1 .. k - 1, j \notin D PROVE At(a, j) = At(b, j)
      BY <2>2, <2>3
    <3>1. j \in 1 .. l
      BY <1>0, <2>2
    <3> QED BY <3>1
  <2>6. p[k] \in Nat /\ q[k] \in Nat
    BY <1>1, <1>2, <2>3 DEF Totals
  <2>7. CASE x > y
    <3>1. q[l] + W[l] <= p[k] /\ p[k] <= p[l]
      BY <1>1, <1>2, <2>3, <2>5, <2>7, HigherDecides
    <3>2. p[k] <= p[Width]
      BY <1>1, <1>2, <2>3, <2>5, <2>7, HigherDecides
    <3> HIDE DEF m, low, l, x, y
    <3> QED BY <1>1, <1>3, <1>4, <1>6, <2>6, <3>1, <3>2
  <2>8. CASE y > x
    <3>0. \A j \in 1 .. k - 1 : At(b, j) = At(a, j)
      BY <2>5
    <3>1. p[Width] + W[Width] <= q[k] /\ q[k] <= q[Width]
      BY <1>1, <1>2, <2>3, <2>8, <3>0, HigherDecides
    <3> HIDE DEF m, low, l, x, y
    <3> QED BY <1>1, <1>2, <1>3, <1>4, <2>6, <3>1
  <2> QED BY <2>3, <2>4, <2>7, <2>8
<1> QED BY <1>3, <1>4, <1>5, <1>7, <1>8

(* What parseVersion returns.                                               *)
LEMMA ParseIs ==
    ASSUME NEW s \in Seq(Segment), Len(s) <= Width
    PROVE  /\ parseVersion(s).ok \in BOOLEAN /\ parseVersion(s).prefix \in BOOLEAN
           /\ parseVersion(s).ok => parseVersion(s).comps \in Version
<1> DEFINE prefix == Len(s) > 1 /\ IsWild(Last(s))
           rest   == IF prefix THEN Front(s) ELSE s
           stops  == {k \in DOMAIN rest : rest[k].rest # ""} \union {Len(rest)}
           stop   == CHOOSE k \in stops : \A j \in stops : k <= j
           core   == SubSeq(rest, 1, stop)
           comps  == [k \in DOMAIN core |-> core[k].digits]
<1>1. parseVersion(s) = [ok |-> comps # <<>> /\ None \notin ToSet(comps), comps |-> comps, prefix |-> prefix]
  BY DEF parseVersion
<1>2. rest \in Seq(Segment) /\ Len(rest) <= Width
  <2>1. Len(s) > 1 => SubSeq(s, 1, Len(s) - 1) \in Seq(Segment) /\ Len(SubSeq(s, 1, Len(s) - 1)) <= Width
    BY BaseIs
  <2> HIDE DEF IsWild
  <2> QED BY <2>1 DEF Front
<1> HIDE DEF rest
<1>3. stop \in 0 .. Len(rest)
  <2> DEFINE n == Len(rest)
             Leads(k) == \A j \in stops : k <= j
  <2>1. n \in Nat /\ DOMAIN rest = 1 .. n
    BY <1>2
  <2>2. stops \in SUBSET (0 .. n) /\ stops # {}
    <3>1. \A k \in 1 .. n : k \in 0 .. n
      BY <2>1
    <3>2. n \in 0 .. n /\ n \in stops
      BY <2>1
    <3>3. \A k \in stops : k \in 1 .. n \/ k = n
      BY <2>1
    <3> HIDE DEF n, stops
    <3> QED BY <3>1, <3>2, <3>3
  <2> HIDE DEF stops, n
  <2>3. \E k \in stops : Leads(k)
    BY <2>1, <2>2, Extremes
  <2>4. stop = CHOOSE k \in stops : Leads(k)
    OBVIOUS
  <2> HIDE DEF Leads, stop
  <2>5. stop \in stops
    BY <2>3, <2>4
  <2> QED BY <2>2, <2>5 DEF n
<1> HIDE DEF stop
<1>4. core \in Seq(Segment) /\ Len(core) <= Width
  BY <1>2, <1>3, BaseIs
<1> HIDE DEF core
<1>5. DOMAIN comps = 1 .. Len(core) /\ Len(core) \in Nat /\ \A k \in DOMAIN comps : comps[k] \in Digit \union {None}
  <2>1. DOMAIN comps = 1 .. Len(core) /\ Len(core) \in Nat
    BY <1>4
  <2>2. ASSUME NEW k \in DOMAIN comps PROVE comps[k] \in Digit \union {None}
    <3>1. core[k] \in Segment /\ comps[k] = core[k].digits
      BY <1>4, <2>1
    <3> HIDE DEF comps
    <3> QED BY <3>1 DEF Segment, Digit
  <2> QED BY <2>1, <2>2
<1> HIDE DEF prefix
<1>6. ASSUME None \notin ToSet(comps) PROVE comps \in Version
  <2>1. \A k \in DOMAIN comps : comps[k] \in Digit
    BY <1>5, <1>6 DEF ToSet
  <2>2. comps \in [1 .. Len(core) -> Digit]
    BY <1>5, <2>1
  <2> HIDE DEF comps
  <2>3. comps \in Seq(Digit) /\ Len(comps) = Len(core)
    BY <1>5, <2>2
  <2> QED BY <1>4, <2>3 DEF Version
<1> HIDE DEF comps
<1>7. prefix \in BOOLEAN
  BY DEF prefix, IsWild
<1> DEFINE ok == comps # <<>> /\ None \notin ToSet(comps)
<1>8. ok \in BOOLEAN /\ (ok => None \notin ToSet(comps))
  OBVIOUS
<1>9. parseVersion(s) = [ok |-> ok, comps |-> comps, prefix |-> prefix]
  BY <1>1
<1> HIDE DEF ok
<1> QED BY <1>6, <1>7, <1>8, <1>9

(* What the operators let through, and what they mean.                      *)
LEMMA OperatorsAre ==
    ASSUME NEW a, NEW n, NEW v
    PROVE  /\ Holds("=", a, v) <=> (IF v.prefix THEN versionHasPrefix(a, v.comps) ELSE compareVersions(a, v.comps) = 0)
           /\ Means("=", n, v) <=> (Low(v) <= n /\ n <= High(v))
           /\ Holds("!=", a, v) <=> (~IF v.prefix THEN versionHasPrefix(a, v.comps) ELSE compareVersions(a, v.comps) = 0)
           /\ Means("!=", n, v) <=> (n < Low(v) \/ n > High(v))
           /\ Holds(">=", a, v) <=> (compareVersions(a, v.comps) >= 0)
           /\ Means(">=", n, v) <=> (n >= Low(v))
           /\ Holds(">", a, v) <=> (compareVersions(a, v.comps) > 0)
           /\ Means(">", n, v) <=> (n > High(v))
           /\ Holds("<", a, v) <=> (compareVersions(a, v.comps) < 0)
           /\ Means("<", n, v) <=> (n < Low(v))
           /\ Holds("<=", a, v) <=> (compareVersions(a, v.comps) <= 0)
           /\ Means("<=", n, v) <=> (n <= High(v))
           /\ Holds("~>", a, v) <=> (compareVersions(a, v.comps) >= 0)
           /\ Means("~>", n, v) <=> (Low(v) <= n /\ n <= Ceiling(v))
<1>1. /\ Holds("=", a, v) <=> (IF v.prefix THEN versionHasPrefix(a, v.comps) ELSE compareVersions(a, v.comps) = 0)
      /\ Means("=", n, v) <=> (Low(v) <= n /\ n <= High(v))
  BY DEF Holds, Means
<1>2. /\ Holds("!=", a, v) <=> (~IF v.prefix THEN versionHasPrefix(a, v.comps) ELSE compareVersions(a, v.comps) = 0)
      /\ Means("!=", n, v) <=> (n < Low(v) \/ n > High(v))
  BY DEF Holds, Means
<1>3. /\ Holds(">=", a, v) <=> (compareVersions(a, v.comps) >= 0)
      /\ Means(">=", n, v) <=> (n >= Low(v))
  BY DEF Holds, Means
<1>4. /\ Holds(">", a, v) <=> (compareVersions(a, v.comps) > 0)
      /\ Means(">", n, v) <=> (n > High(v))
  BY DEF Holds, Means
<1>5. /\ Holds("<", a, v) <=> (compareVersions(a, v.comps) < 0)
      /\ Means("<", n, v) <=> (n < Low(v))
  BY DEF Holds, Means
<1>6. /\ Holds("<=", a, v) <=> (compareVersions(a, v.comps) <= 0)
      /\ Means("<=", n, v) <=> (n <= High(v))
  BY DEF Holds, Means
<1>7. /\ Holds("~>", a, v) <=> (compareVersions(a, v.comps) >= 0)
      /\ Means("~>", n, v) <=> (Low(v) <= n /\ n <= Ceiling(v))
  BY DEF Holds, Means
<1> QED BY <1>1, <1>2, <1>3, <1>4, <1>5, <1>6, <1>7

(* What the switch lets through is what the operator means, but for the two *)
(* ways in which it is lenient and the one in which it is strict.           *)
LenientBound(op, v) == op = "~>" \/ (op = ">" /\ v.prefix)
StrictBound(op, v) == op = "<=" /\ v.prefix

LEMMA HoldsMeans ==
    ASSUME NEW a \in Version, NEW op \in Op,
           NEW v, v.prefix \in BOOLEAN, v.comps \in Version
    PROVE  /\ Holds(op, a, v) /\ ~LenientBound(op, v) => Means(op, Number(a), v)
           /\ Means(op, Number(a), v) /\ ~StrictBound(op, v) => Holds(op, a, v)
<1> DEFINE cmp == compareVersions(a, v.comps)
           m == Number(a)
           low == Low(v)
           w == Weight[Len(v.comps)]
           has == versionHasPrefix(a, v.comps)
           high == High(v)
<1>1. /\ m \in Nat /\ low \in Nat /\ cmp \in Int
      /\ (cmp = 0 <=> m = low) /\ (cmp > 0 <=> m > low) /\ (cmp < 0 <=> m < low)
  BY CompareIs DEF Low
<1>2. w \in Nat /\ w >= 1 /\ (has <=> (low <= m /\ m < low + w))
  BY PrefixIs DEF Low
<1>3. high = low + (IF v.prefix THEN w ELSE 1) - 1
  BY DEF High
<1>4. \A x : x \in Op => x \in {">=", "<=", "!=", "~>", ">", "<", "="}
  BY DEF Op
<1>5. /\ Holds("=", a, v) <=> (IF v.prefix THEN has ELSE cmp = 0)
      /\ Means("=", m, v) <=> (low <= m /\ m <= high)
  BY OperatorsAre
<1>6. /\ Holds("!=", a, v) <=> (~IF v.prefix THEN has ELSE cmp = 0)
      /\ Means("!=", m, v) <=> (m < low \/ m > high)
  BY OperatorsAre
<1>7. /\ Holds(">=", a, v) <=> (cmp >= 0)
      /\ Means(">=", m, v) <=> (m >= low)
  BY OperatorsAre
<1>8. /\ Holds(">", a, v) <=> (cmp > 0)
      /\ Means(">", m, v) <=> (m > high)
  BY OperatorsAre
<1>9. /\ Holds("<", a, v) <=> (cmp < 0)
      /\ Means("<", m, v) <=> (m < low)
  BY OperatorsAre
<1>10. /\ Holds("<=", a, v) <=> (cmp <= 0)
       /\ Means("<=", m, v) <=> (m <= high)
  BY OperatorsAre
<1>11. /\ Holds("~>", a, v) <=> (cmp >= 0)
       /\ Means("~>", m, v) <=> (low <= m /\ m <= Ceiling(v))
  BY OperatorsAre
<1> HIDE DEF cmp, m, low, w, has, high
<1>12. high \in Int /\ high >= low /\ (v.prefix => high = low + w - 1) /\ (~v.prefix => high = low)
  BY <1>1, <1>2, <1>3
<1>13. /\ Holds("=", a, v) <=> Means("=", m, v)
       /\ Holds("!=", a, v) <=> Means("!=", m, v)
  <2>1. CASE v.prefix
    BY <1>1, <1>2, <1>5, <1>6, <1>12, <2>1
  <2>2. CASE ~v.prefix
    BY <1>1, <1>5, <1>6, <1>12, <2>2
  <2> QED BY <2>1, <2>2
<1>14. /\ Holds(">=", a, v) <=> Means(">=", m, v)
       /\ Holds("<", a, v) <=> Means("<", m, v)
       /\ Means("~>", m, v) => Holds("~>", a, v)
  BY <1>1, <1>7, <1>9, <1>11
<1>15. /\ Means(">", m, v) => Holds(">", a, v)
       /\ ~v.prefix => (Holds(">", a, v) => Means(">", m, v))
  BY <1>1, <1>8, <1>12
<1>16. /\ Holds("<=", a, v) => Means("<=", m, v)
       /\ ~v.prefix => (Means("<=", m, v) => Holds("<=", a, v))
  BY <1>1, <1>10, <1>12
<1>17. op \in {">=", "<=", "!=", "~>", ">", "<", "="}
  BY <1>4
<1>18. /\ Holds(op, a, v) /\ op # "~>" /\ ~(op = ">" /\ v.prefix) => Means(op, m, v)
       /\ Means(op, m, v) /\ ~(op = "<=" /\ v.prefix) => Holds(op, a, v)
  BY <1>13, <1>14, <1>15, <1>16, <1>17, Zenon
<1> QED BY <1>18 DEF m, LenientBound, StrictBound

-----------------------------------------------------------------------------
(* What the loop over the clauses knows.                                    *)
ReadsAs(k) == parseVersion(constraint[k].version)
HoldsAt(k) == ReadsAs(k).ok /\ Holds(constraint[k].op, Parsed.comps, ReadsAs(k))
FailsAt(k) == ReadsAs(k).ok /\ ~Holds(constraint[k].op, Parsed.comps, ReadsAs(k))

Satisfies == [ok |-> TRUE, parsed |-> TRUE]
Violates == [ok |-> FALSE, parsed |-> TRUE]
Unparsed == [ok |-> FALSE, parsed |-> FALSE]

DriftTypes ==
    /\ reference \in References /\ constraint \in Constraints
    /\ clause \in Nat /\ clause >= 1 /\ clause <= Len(constraint) + 1
    /\ verdict \in {NoVerdict, Satisfies, Violates, Unparsed}

VerdictIsRight ==
    /\ \A k \in DOMAIN constraint : k < clause => HoldsAt(k)
    /\ verdict = Satisfies => clause > Len(constraint)
    /\ verdict = Violates => Parsed.ok /\ clause <= Len(constraint) /\ FailsAt(clause)
    /\ verdict = Unparsed => ~Readable
    /\ drifting # NoVerdict => verdict # NoVerdict /\ drifting = (verdict.parsed /\ ~verdict.ok)

DriftInv == DriftTypes /\ VerdictIsRight

LEMMA VerdictsDiffer ==
    /\ Satisfies # NoVerdict /\ Violates # NoVerdict /\ Unparsed # NoVerdict
    /\ Satisfies # Violates /\ Satisfies # Unparsed /\ Violates # Unparsed
    /\ Satisfies.parsed = TRUE /\ Satisfies.ok = TRUE
    /\ Violates.parsed = TRUE /\ Violates.ok = FALSE
    /\ Unparsed.parsed = FALSE /\ Unparsed.ok = FALSE
    /\ TRUE # NoVerdict /\ FALSE # NoVerdict
<1>1. NoVerdict \notin BOOLEAN \union [ok : BOOLEAN, parsed : BOOLEAN]
  BY DriftAssumption
<1>2. Satisfies \in [ok : BOOLEAN, parsed : BOOLEAN] /\ Violates \in [ok : BOOLEAN, parsed : BOOLEAN]
      /\ Unparsed \in [ok : BOOLEAN, parsed : BOOLEAN]
  BY DEF Satisfies, Violates, Unparsed
<1>3. Satisfies # NoVerdict /\ Violates # NoVerdict /\ Unparsed # NoVerdict
  BY <1>1, <1>2
<1>4. /\ Satisfies.parsed = TRUE /\ Satisfies.ok = TRUE
      /\ Violates.parsed = TRUE /\ Violates.ok = FALSE
      /\ Unparsed.parsed = FALSE /\ Unparsed.ok = FALSE
  BY DEF Satisfies, Violates, Unparsed
<1>5. TRUE # NoVerdict /\ FALSE # NoVerdict
  BY <1>1
<1> QED BY <1>3, <1>4, <1>5

LEMMA ConstraintIs ==
    ASSUME NEW c \in Constraints
    PROVE  /\ DOMAIN c = 1 .. Len(c) /\ Len(c) \in Nat
           /\ \A k \in DOMAIN c : /\ c[k].op \in Op
                                  /\ c[k].version \in Seq(Segment) /\ Len(c[k].version) <= Width
<1>1. c \in Seq([op : Op, version : Seq(Segment)])
  BY DriftAssumption
<1>2. \A k \in DOMAIN c : Len(c[k].version) <= Width
  BY DriftAssumption
<1>3. DOMAIN c = 1 .. Len(c) /\ Len(c) \in Nat
  BY <1>1
<1>4. ASSUME NEW k \in DOMAIN c PROVE c[k].op \in Op /\ c[k].version \in Seq(Segment)
  <2> DEFINE S == [op : Op, version : Seq(Segment)]
  <2>1. c \in Seq(S) /\ DOMAIN c = 1 .. Len(c)
    BY <1>1
  <2>2. c[k] \in S
    <3> HIDE DEF S
    <3> QED BY <2>1
  <2> QED BY <2>2
<1> QED BY <1>2, <1>3, <1>4

LEMMA DriftStarts == ASSUME DriftInit PROVE DriftInv
<1>1. DriftTypes
  <2>1. Len(constraint) \in Nat
    BY ConstraintIs DEF DriftInit
  <2> QED BY <2>1 DEF DriftInit, DriftTypes
<1>2. VerdictIsRight
  <2>1. ~ \E k \in DOMAIN constraint : k < clause
    BY ConstraintIs DEF DriftInit
  <2> QED BY <2>1, VerdictsDiffer DEF DriftInit, VerdictIsRight
<1> QED BY <1>1, <1>2 DEF DriftInv

(* A verdict is given, and what it rests on does not change.                *)
LEMMA VerdictKeeps ==
    ASSUME DriftInv, verdict = NoVerdict,
           UNCHANGED <<reference, constraint, clause, drifting>>,
           verdict' \in {Satisfies, Violates, Unparsed},
           verdict' = Satisfies => clause > Len(constraint),
           verdict' = Violates => Parsed.ok /\ clause <= Len(constraint) /\ FailsAt(clause),
           verdict' = Unparsed => ~Readable
    PROVE  DriftInv'
<1>1. DriftTypes'
  BY DEF DriftInv, DriftTypes, Satisfies, Violates, Unparsed
<1>2. (\A k \in DOMAIN constraint : k < clause => HoldsAt(k))'
  BY DEF DriftInv, VerdictIsRight, HoldsAt, ReadsAs, Parsed
<1>3. drifting' = NoVerdict
  BY DEF DriftInv, VerdictIsRight
<1>4. Parsed' = Parsed /\ FailsAt(clause)' = FailsAt(clause) /\ Readable' = Readable
  BY DEF Parsed, FailsAt, ReadsAs, Readable, Read
<1>5. (verdict = Satisfies => clause > Len(constraint))'
  BY DEF Satisfies
<1>6. (verdict = Violates => Parsed.ok /\ clause <= Len(constraint) /\ FailsAt(clause))'
  BY <1>4 DEF Violates
<1>7. (verdict = Unparsed => ~Readable)'
  BY <1>4 DEF Unparsed
<1> QED BY <1>1, <1>2, <1>3, <1>5, <1>6, <1>7 DEF DriftInv, VerdictIsRight

LEMMA DriftStep == ASSUME DriftInv, [DriftNext]_dvars PROVE DriftInv'
<1>0. DOMAIN constraint = 1 .. Len(constraint) /\ Len(constraint) \in Nat /\ clause \in Nat /\ clause >= 1
  BY ConstraintIs DEF DriftInv, DriftTypes
<1>1. CASE BadReference
  BY <1>1, VerdictsDiffer, VerdictKeeps DEF BadReference, Verdict, Unparsed, Readable
<1>2. CASE BadClause
  <2>1. clause \in DOMAIN constraint /\ ~Read(clause).ok
    BY <1>0, <1>2 DEF BadClause, AtClause, Clause, Read
  <2> QED BY <1>2, <2>1, VerdictsDiffer, VerdictKeeps
          DEF BadClause, AtClause, Verdict, Unparsed, Readable
<1>3. CASE ClauseFails
  <2>1. FailsAt(clause) /\ Parsed.ok /\ clause <= Len(constraint)
    BY <1>0, <1>3 DEF ClauseFails, AtClause, Clause, FailsAt, ReadsAs
  <2> QED BY <1>3, <2>1, VerdictsDiffer, VerdictKeeps DEF ClauseFails, AtClause, Verdict, Violates
<1>4. CASE ClauseHolds
  <2>1. HoldsAt(clause) /\ clause <= Len(constraint) /\ verdict = NoVerdict
    BY <1>4 DEF ClauseHolds, AtClause, Clause, HoldsAt, ReadsAs
  <2>2. clause' = clause + 1 /\ UNCHANGED <<reference, constraint, verdict, drifting>>
    BY <1>4 DEF ClauseHolds
  <2>3. DriftTypes'
    BY <1>0, <2>1, <2>2 DEF DriftInv, DriftTypes, Satisfies, Violates, Unparsed
  <2>4. (\A k \in DOMAIN constraint : k < clause => HoldsAt(k))'
    <3>1. \A k : HoldsAt(k)' = HoldsAt(k)
      BY <2>2 DEF HoldsAt, ReadsAs, Parsed
    <3>2. \A k \in DOMAIN constraint : k < clause' => k < clause \/ k = clause
      BY <1>0, <2>2
    <3> QED BY <2>1, <2>2, <3>1, <3>2 DEF DriftInv, VerdictIsRight
  <2>5. drifting' = NoVerdict /\ verdict' = NoVerdict
    BY <2>1, <2>2 DEF DriftInv, VerdictIsRight
  <2>6. (verdict' # Satisfies /\ verdict' # Violates /\ verdict' # Unparsed)
    BY <2>5, VerdictsDiffer
  <2> QED BY <2>3, <2>4, <2>5, <2>6 DEF DriftInv, VerdictIsRight, Satisfies, Violates, Unparsed
<1>5. CASE AllHold
  BY <1>0, <1>5, VerdictsDiffer, VerdictKeeps DEF AllHold, Verdict, Satisfies
<1>6. CASE Report \/ UNCHANGED dvars
  <2>1. UNCHANGED <<reference, constraint, clause, verdict>>
    BY <1>6 DEF Report, dvars
  <2>2. drifting' # NoVerdict => verdict' # NoVerdict /\ drifting' = (verdict'.parsed /\ ~verdict'.ok)
    BY <1>6 DEF Report, dvars, DriftInv, VerdictIsRight
  <2>3. DriftTypes'
    BY <2>1 DEF DriftInv, DriftTypes, Satisfies, Violates, Unparsed
  <2>4. /\ \A k : HoldsAt(k)' = HoldsAt(k)
        /\ Parsed' = Parsed /\ FailsAt(clause)' = FailsAt(clause) /\ Readable' = Readable
    BY <2>1 DEF Parsed, HoldsAt, FailsAt, ReadsAs, Readable, Read
  <2> QED BY <2>1, <2>2, <2>3, <2>4 DEF DriftInv, VerdictIsRight, Satisfies, Violates, Unparsed
<1> QED BY <1>1, <1>2, <1>3, <1>4, <1>5, <1>6 DEF DriftNext

(***************************************************************************)
(* An entry in the drift report excludes the reference version, by a       *)
(* clause that can be read (computeDrifting, satisfiesConstraint).         *)
(***************************************************************************)
THEOREM DriftAlwaysReal == DriftSpec => []DriftIsReal
<1>1. DriftInit => DriftInv
  BY DriftStarts
<1>2. DriftInv /\ [DriftNext]_dvars => DriftInv'
  BY DriftStep
<1>3. DriftInv => DriftIsReal
  <2> SUFFICES ASSUME DriftInv, drifting = TRUE, \A k \in DOMAIN constraint : ~Strict(k)
               PROVE  Parsed.ok /\ \E k \in DOMAIN constraint : Excludes(k)
    BY DEF DriftIsReal
  <2>1. verdict = Violates
    BY VerdictsDiffer DEF DriftInv, DriftTypes, VerdictIsRight
  <2>2. Parsed.ok /\ clause \in DOMAIN constraint /\ FailsAt(clause)
    BY <2>1, ConstraintIs DEF DriftInv, DriftTypes, VerdictIsRight
  <2>3. /\ Parsed.comps \in Version
        /\ ReadsAs(clause).prefix \in BOOLEAN /\ ReadsAs(clause).comps \in Version
        /\ constraint[clause].op \in Op
    <3>1. reference \in Seq(Segment) /\ Len(reference) <= Width
      BY DriftAssumption DEF DriftInv, DriftTypes
    <3>2. parseVersion(reference).ok
      BY <2>1, <2>2 DEF Parsed
    <3>3. Parsed.comps \in Version
      BY <3>1, <3>2, ParseIs DEF Parsed
    <3>4. /\ constraint[clause].op \in Op
          /\ constraint[clause].version \in Seq(Segment) /\ Len(constraint[clause].version) <= Width
      BY <2>2, ConstraintIs DEF DriftInv, DriftTypes
    <3>5. parseVersion(constraint[clause].version).ok
      BY <2>2 DEF FailsAt, ReadsAs
    <3> QED BY <3>3, <3>4, <3>5, ParseIs DEF ReadsAs
  <2>4. ~Means(constraint[clause].op, Number(Parsed.comps), ReadsAs(clause))
    <3> DEFINE v == ReadsAs(clause)
               op == constraint[clause].op
               a == Parsed.comps
    <3>1. ~Holds(op, a, v) /\ ~StrictBound(op, v)
      BY <2>2 DEF FailsAt, Strict, StrictBound, Read, ReadsAs
    <3>2. op \in Op /\ a \in Version /\ v.prefix \in BOOLEAN /\ v.comps \in Version
      BY <2>3
    <3> HIDE DEF v, op, a
    <3>3. ~Means(op, Number(a), v)
      BY <3>1, <3>2, HoldsMeans
    <3> QED BY <3>3 DEF v, op, a
  <2>5. Excludes(clause)
    BY <2>2, <2>4 DEF Excludes, Read, ReadsAs, FailsAt
  <2> QED BY <2>2, <2>5
<1> QED BY <1>1, <1>2, <1>3, PTL DEF DriftSpec

(***************************************************************************)
(* And an entry that excludes it is in the report, whichever clause does   *)
(* it, but for the bounds that stats.go leaves out.                        *)
(***************************************************************************)
THEOREM DriftAlwaysFound == DriftSpec => []DriftIsFound
<1>1. DriftInit => DriftInv
  BY DriftStarts
<1>2. DriftInv /\ [DriftNext]_dvars => DriftInv'
  BY DriftStep
<1>3. DriftInv => DriftIsFound
  <2> SUFFICES ASSUME DriftInv, drifting = FALSE, Readable,
                      \A k \in DOMAIN constraint : ~Lenient(k), NEW k \in DOMAIN constraint
               PROVE  Means(constraint[k].op, Number(Parsed.comps), Read(k))
    BY DEF DriftIsFound, Satisfied
  <2>1. verdict = Satisfies
    BY VerdictsDiffer DEF DriftInv, DriftTypes, VerdictIsRight
  <2>2. k < clause /\ HoldsAt(k)
    BY <2>1, ConstraintIs DEF DriftInv, DriftTypes, VerdictIsRight
  <2>3. /\ Parsed.comps \in Version
        /\ ReadsAs(k).prefix \in BOOLEAN /\ ReadsAs(k).comps \in Version
        /\ constraint[k].op \in Op
    <3>1. reference \in Seq(Segment) /\ Len(reference) <= Width
      BY DriftAssumption DEF DriftInv, DriftTypes
    <3>2. parseVersion(reference).ok
      BY <2>1, <2>2 DEF Readable, Parsed
    <3>3. Parsed.comps \in Version
      BY <3>1, <3>2, ParseIs DEF Parsed
    <3>4. /\ constraint[k].op \in Op
          /\ constraint[k].version \in Seq(Segment) /\ Len(constraint[k].version) <= Width
      BY <2>2, ConstraintIs DEF DriftInv, DriftTypes
    <3>5. parseVersion(constraint[k].version).ok
      BY <2>2 DEF HoldsAt, ReadsAs
    <3> QED BY <3>3, <3>4, <3>5, ParseIs DEF ReadsAs
  <2> DEFINE v == ReadsAs(k)
             op == constraint[k].op
             a == Parsed.comps
  <2>4. Holds(op, a, v) /\ ~LenientBound(op, v)
    BY <2>2 DEF HoldsAt, Lenient, LenientBound, Read, ReadsAs
  <2>5. op \in Op /\ a \in Version /\ v.prefix \in BOOLEAN /\ v.comps \in Version
    BY <2>3
  <2> HIDE DEF v, op, a
  <2>6. Means(op, Number(a), v)
    BY <2>4, <2>5, HoldsMeans
  <2> QED BY <2>6 DEF v, op, a, ReadsAs, Read
<1> QED BY <1>1, <1>2, <1>3, PTL DEF DriftSpec
=============================================================================
