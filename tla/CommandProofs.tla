--------------------------- MODULE CommandProofs ---------------------------
(***************************************************************************)
(* Proofs about the commands.                                              *)
(*                                                                         *)
(* The first part is about Scaffold, for any number of commands on one     *)
(* catalog file, any requests, any file and any number of faults: what a   *)
(* race or a fault can do to the file; and that commands which neither a   *)
(* race nor a fault disturbs are the atomic additions and refusals         *)
(* CatalogFile promises.  The second part is about Cli: what the exit code *)
(* and stdout tell together, for every command line and every point of     *)
(* failure.                                                                *)
(***************************************************************************)
EXTENDS Scaffold, Cli, FiniteSetTheorems, TLAPS

-----------------------------------------------------------------------------
(* What the helpers on texts return.                                        *)

IsRequest(q) == q \in [section: Section, type: Type]

(* An entry of a text is a heading and a type under it.                      *)
LEMMA EntriesAre ==
    ASSUME NEW c, NEW q, IsRequest(q)
    PROVE  q \in Entries(c) <=>
             /\ IsDocument(c) /\ q.section \in DOMAIN c
             /\ \E i \in DOMAIN c[q.section].entries : c[q.section].entries[i] = q.type
<1>1. CASE ~IsDocument(c)
  BY <1>1 DEF Entries
<1>2. CASE IsDocument(c)
  <2> DEFINE under(h) == {[section |-> h, type |-> t] : t \in ToSet(c[h].entries)}
  <2>1. Entries(c) = UNION {under(h) : h \in DOMAIN c}
    BY <1>2 DEF Entries
  <2>2. \A h : q \in under(h) <=>
                 h = q.section /\ \E i \in DOMAIN c[h].entries : c[h].entries[i] = q.type
    BY DEF ToSet, IsRequest
  <2> HIDE DEF under
  <2> QED BY <1>2, <2>1, <2>2
<1> QED BY <1>1, <1>2

LEMMA EntriesType ==
    ASSUME NEW c, IsContents(c), NEW e \in Entries(c)
    PROVE  /\ IsDocument(c) /\ e = [section |-> e.section, type |-> e.type]
           /\ e.section \in Section \union {Stray} /\ e.type \in Type
<1>1. IsDocument(c)
  BY DEF Entries
<1>2. PICK h \in DOMAIN c : \E t \in ToSet(c[h].entries) : e = [section |-> h, type |-> t]
  BY <1>1 DEF Entries
<1>3. PICK t \in ToSet(c[h].entries) : e = [section |-> h, type |-> t]
  BY <1>2
<1>4. c[h].entries \in Seq(Type) /\ h \in Section \union {Stray}
  BY <1>1 DEF IsContents, Headings
<1>5. t \in Type
  BY <1>3, <1>4 DEF ToSet
<1> QED BY <1>1, <1>3, <1>4, <1>5

(* A mapping with a heading to every entry is none of the markers.           *)
LEMMA MappingIsDocument ==
    ASSUME NEW D \in SUBSET (Section \union {Stray}), NEW c \in [D -> Headings]
    PROVE  IsDocument(c)
BY MarkersAssumption DEF IsDocument

(* A stub is a file of one entry.                                            *)
LEMMA StubType ==
    ASSUME NEW q, IsRequest(q)
    PROVE  /\ IsDocument(Stub(q)) /\ IsContents(Stub(q)) /\ Decodes(Stub(q))
           /\ \A e : IsRequest(e) => (e \in Entries(Stub(q)) <=> e = q)
<1>1. <<q.type>> \in Seq(Type) /\ Len(<<q.type>>) = 1 /\ <<q.type>>[1] = q.type
  BY DEF IsRequest
<1>2. Heading(<<q.type>>) \in Headings
  BY <1>1 DEF Heading, Headings
<1>3. /\ DOMAIN Stub(q) = {q.section} /\ Stub(q)[q.section] = Heading(<<q.type>>)
      /\ Stub(q) \in [{q.section} -> Headings]
  BY <1>2 DEF Stub
<1>4. q.section \in Section
  BY DEF IsRequest
<1>5. IsDocument(Stub(q))
  BY <1>3, <1>4, MappingIsDocument
<1>6. IsContents(Stub(q))
  BY <1>3, <1>4 DEF IsContents, Heading
<1>7. DOMAIN <<q.type>> = {1}
  BY <1>1
<1>8. Decodes(Stub(q))
  BY <1>3, <1>4, <1>5, <1>7 DEF Decodes, Heading, IsInjective
<1>9. \A e : IsRequest(e) => (e \in Entries(Stub(q)) <=> e = q)
  <2> SUFFICES ASSUME NEW e, IsRequest(e) PROVE e \in Entries(Stub(q)) <=> e = q
    OBVIOUS
  <2>1. e \in Entries(Stub(q)) <=> e.section = q.section /\ e.type = q.type
    BY <1>1, <1>3, <1>5, <1>7, EntriesAre DEF Heading
  <2> QED BY <2>1 DEF IsRequest
<1> QED BY <1>5, <1>6, <1>8, <1>9

(* A merge adds its entry at the end of its heading and changes no other.    *)
LEMMA MergedIs ==
    ASSUME NEW c, IsContents(c), NEW q, IsRequest(q), CanMerge(c, q)
    PROVE  /\ DOMAIN Merged(c, q) = DOMAIN c \union {q.section}
           /\ Merged(c, q) \in [DOMAIN Merged(c, q) -> Headings]
           /\ \A g \in DOMAIN c : g # q.section => Merged(c, q)[g] = c[g]
           /\ Merged(c, q)[q.section].kind = "map"
           /\ q.section \in DOMAIN c =>
                /\ c[q.section].entries \in Seq(Type)
                /\ Merged(c, q)[q.section].entries = Append(c[q.section].entries, q.type)
           /\ q.section \notin DOMAIN c => Merged(c, q)[q.section].entries = <<q.type>>
<1> DEFINE d == Merged(c, q)
           h == q.section
<1>1. /\ IsDocument(c) /\ c \in [DOMAIN c -> Headings]
      /\ h \in DOMAIN c => c[h].kind = "map"
      /\ q.type \in Type /\ h \in Section
  BY DEF CanMerge, IsContents, IsRequest
<1>2. /\ DOMAIN d = DOMAIN c \union {h}
      /\ d = [g \in DOMAIN c \union {h} |->
                IF g # h THEN c[g]
                ELSE IF g \notin DOMAIN c THEN Heading(<<q.type>>)
                ELSE [c[g] EXCEPT !.entries = Append(@, q.type)]]
  BY DEF Merged
<1>3. \A g \in DOMAIN c : g # h => d[g] = c[g]
  BY <1>2
<1>4. CASE h \in DOMAIN c
  <2>1. c[h] \in Headings /\ d[h] = [c[h] EXCEPT !.entries = Append(c[h].entries, q.type)]
    BY <1>1, <1>2, <1>4
  <2>2. /\ d[h].kind = "map" /\ c[h].entries \in Seq(Type)
        /\ d[h].entries = Append(c[h].entries, q.type)
    BY <1>1, <1>4, <2>1 DEF Headings
  <2> DEFINE X == Append(c[h].entries, q.type)
  <2>3. d[h] \in Headings
    <3>1. X \in Seq(Type)
      BY <1>1, <2>2
    <3> HIDE DEF X
    <3>2. d[h] = [c[h] EXCEPT !.entries = X]
      BY <2>1 DEF X
    <3> QED BY <2>1, <3>1, <3>2 DEF Headings
  <2> QED BY <1>1, <1>2, <1>3, <1>4, <2>2, <2>3
<1>5. CASE h \notin DOMAIN c
  <2>1. d[h] = Heading(<<q.type>>)
    BY <1>2, <1>5
  <2>2. Heading(<<q.type>>) \in Headings
    BY <1>1 DEF Heading, Headings
  <2> QED BY <1>1, <1>2, <1>3, <1>5, <2>1, <2>2 DEF Heading
<1> QED BY <1>4, <1>5

LEMMA MergedType ==
    ASSUME NEW c, IsContents(c), NEW q, IsRequest(q), CanMerge(c, q)
    PROVE  IsDocument(Merged(c, q)) /\ IsContents(Merged(c, q))
<1> DEFINE d == Merged(c, q)
<1>0. /\ DOMAIN d = DOMAIN c \union {q.section} /\ d[q.section].kind = "map"
      /\ d \in [DOMAIN d -> Headings]
      /\ \A g \in DOMAIN c : g # q.section => d[g] = c[g]
  BY MergedIs
<1> HIDE DEF d
<1>1. DOMAIN d \subseteq Section \union {Stray}
  BY <1>0 DEF CanMerge, IsContents, IsRequest
<1>2. IsDocument(d)
  BY <1>0, <1>1, MappingIsDocument
<1>3. \A g \in DOMAIN d : d[g].kind # "map" => d[g].entries = <<>>
  BY <1>0 DEF CanMerge, IsContents
<1> QED BY <1>0, <1>1, <1>2, <1>3 DEF IsContents, d

(* Appending puts one more element at the end.                               *)
LEMMA AppendIs ==
    ASSUME NEW s \in Seq(Type), NEW t \in Type
    PROVE  /\ DOMAIN Append(s, t) = DOMAIN s \union {Len(s) + 1} /\ Len(s) + 1 \notin DOMAIN s
           /\ Append(s, t)[Len(s) + 1] = t
           /\ \A i \in DOMAIN s : Append(s, t)[i] = s[i]
<1>1. Len(s) \in Nat /\ DOMAIN s = 1 .. Len(s) /\ DOMAIN Append(s, t) = 1 .. Len(s) + 1
  OBVIOUS
<1> QED BY <1>1

LEMMA MergedEntries ==
    ASSUME NEW c, IsContents(c), NEW q, IsRequest(q), CanMerge(c, q), NEW e, IsRequest(e)
    PROVE  e \in Entries(Merged(c, q)) <=> e \in Entries(c) \/ e = q
<1> DEFINE d == Merged(c, q)
           h == q.section
           under(t, g) == \E i \in DOMAIN t[g].entries : t[g].entries[i] = e.type
<1>1. /\ IsDocument(c) /\ IsDocument(d)
      /\ e = q <=> e.section = h /\ e.type = q.type
      /\ q.type \in Type
  BY MergedType DEF CanMerge, IsRequest
<1>2. /\ e \in Entries(c) <=> e.section \in DOMAIN c /\ under(c, e.section)
      /\ e \in Entries(d) <=> e.section \in DOMAIN d /\ under(d, e.section)
  BY <1>1, EntriesAre
<1>3. CASE e.section # h
  <2>1. /\ e.section \in DOMAIN d <=> e.section \in DOMAIN c
        /\ e.section \in DOMAIN c => d[e.section] = c[e.section]
    <3>1. DOMAIN d = DOMAIN c \union {h} /\ \A g \in DOMAIN c : g # h => d[g] = c[g]
      BY MergedIs
    <3> HIDE DEF d, h
    <3> QED BY <1>3, <3>1
  <2> QED BY <1>1, <1>2, <1>3, <2>1
<1>4. CASE e.section = h /\ h \in DOMAIN c
  <2>1. d[h].entries = Append(c[h].entries, q.type) /\ c[h].entries \in Seq(Type) /\ h \in DOMAIN d
    BY <1>4, MergedIs, ZenonT(60)
  <2>2. under(d, h) <=> under(c, h) \/ e.type = q.type
    BY <1>1, <2>1, AppendIs
  <2> HIDE DEF under
  <2> QED BY <1>1, <1>2, <1>4, <2>1, <2>2
<1>5. CASE e.section = h /\ h \notin DOMAIN c
  <2>1. d[h].entries = <<q.type>> /\ h \in DOMAIN d
    BY <1>5, MergedIs
  <2>2. under(d, h) <=> e.type = q.type
    BY <2>1
  <2> HIDE DEF under
  <2> QED BY <1>1, <1>2, <1>5, <2>1, <2>2
<1> QED BY <1>3, <1>4, <1>5

(* Two positions of one text with the same entry.                            *)
Doubled(c, h, t) ==
    /\ IsDocument(c) /\ h \in DOMAIN c
    /\ \E i, k \in DOMAIN c[h].entries : i # k /\ c[h].entries[i] = t /\ c[h].entries[k] = t

LEMMA StubNotDoubled ==
    ASSUME NEW q, IsRequest(q), NEW h, NEW t
    PROVE  ~Doubled(Stub(q), h, t)
<1>1. DOMAIN <<q.type>> = {1}
  OBVIOUS
<1> QED BY <1>1 DEF Doubled, Stub, Heading

(* A text that decodes has no entry twice.                                   *)
LEMMA DecodedNotDoubled ==
    ASSUME NEW c, IsEmpty(c) \/ Decodes(c), NEW h, NEW t
    PROVE  ~Doubled(c, h, t)
BY DEF Doubled, Decodes, IsInjective, IsEmpty, IsDocument

(* A merge doubles an entry only if it was there.                            *)
LEMMA MergedDoubles ==
    ASSUME NEW c, IsContents(c), NEW q, IsRequest(q), CanMerge(c, q),
           NEW h, NEW t, Doubled(Merged(c, q), h, t)
    PROVE  Doubled(c, h, t) \/ (q = [section |-> h, type |-> t] /\ q \in Entries(c))
<1> DEFINE d == Merged(c, q)
<1>1. IsDocument(c) /\ q.type \in Type
  BY DEF CanMerge, IsRequest
<1>2. h \in DOMAIN d /\ \E i, k \in DOMAIN d[h].entries : i # k /\ d[h].entries[i] = t /\ d[h].entries[k] = t
  BY DEF Doubled
<1>3. DOMAIN d = DOMAIN c \union {q.section} /\ \A g \in DOMAIN c : g # q.section => d[g] = c[g]
  BY MergedIs
<1>4. CASE h # q.section
  <2>1. h \in DOMAIN c /\ d[h] = c[h]
    BY <1>2, <1>3, <1>4
  <2> HIDE DEF d
  <2> QED BY <1>1, <1>2, <2>1 DEF Doubled
<1>5. CASE h = q.section /\ h \notin DOMAIN c
  <2>1. d[h].entries = <<q.type>>
    BY <1>5, MergedIs
  <2>2. DOMAIN d[h].entries = {1}
    BY <2>1
  <2> HIDE DEF d
  <2> QED BY <1>2, <2>2
<1>6. CASE h = q.section /\ h \in DOMAIN c
  <2> DEFINE s == c[h].entries
  <2>1. s \in Seq(Type) /\ d[h].entries = Append(s, q.type)
    BY <1>6, MergedIs
  <2> HIDE DEF d, s
  <2>2. PICK i \in DOMAIN Append(s, q.type), k \in DOMAIN Append(s, q.type) :
           i # k /\ Append(s, q.type)[i] = t /\ Append(s, q.type)[k] = t
    BY <1>2, <2>1
  <2>3. CASE i \in DOMAIN s /\ k \in DOMAIN s
    <3>1. s[i] = t /\ s[k] = t
      BY <1>1, <2>1, <2>2, <2>3, AppendIs
    <3> QED BY <1>1, <1>6, <2>2, <2>3, <3>1 DEF Doubled, s
  <2>4. CASE ~(i \in DOMAIN s /\ k \in DOMAIN s)
    <3>1. q.type = t /\ \E m \in DOMAIN s : s[m] = t
      BY <1>1, <2>1, <2>2, <2>4, AppendIs
    <3>2. q \in Entries(c)
      BY <1>1, <1>6, <3>1, EntriesAre DEF s
    <3>3. q = [section |-> h, type |-> t]
      BY <1>6, <3>1 DEF IsRequest
    <3> QED BY <3>2, <3>3
  <2> QED BY <2>3, <2>4
<1> QED BY <1>4, <1>5, <1>6

-----------------------------------------------------------------------------
(* Types.                                                                   *)

(* What a command past the check asks for.                                   *)
LEMMA RequestIs ==
    ASSUME TypeOK, NEW j \in Job
    PROVE  /\ request[j] \in [section: Section, type: Type \union {NoType}]
           /\ pc[j] \in {"read", "open", "write", "ok"} => IsRequest(request[j])
<1>1. request[j] \in [section: Section, type: Type \union {NoType}]
  BY RequestsAssumption DEF TypeOK
<1> QED BY <1>1 DEF TypeOK, IsRequest

LEMMA MarkersAreContents == IsContents(Blank) /\ IsContents(Garbled)
BY DEF IsContents, IsDocument

LEMMA TypeInit == Init => TypeOK
<1> SUFFICES ASSUME Init PROVE TypeOK
  OBVIOUS
<1>1. IsFiniteSet({}) /\ Cardinality({}) = 0
  BY FS_EmptySet
<1>2. IsContents(file) /\ IsContents(original) /\ IsContents(before)
  BY RequestsAssumption DEF Init
<1> QED BY <1>1, <1>2, RequestsAssumption DEF Init, TypeOK

LEMMA TypeStep == TypeOK /\ [Next]_vars => TypeOK'
<1> SUFFICES ASSUME TypeOK, [Next]_vars PROVE TypeOK'
  OBVIOUS
<1> USE RequestsAssumption
<1>1. ASSUME NEW j \in Job, Start(j) PROVE TypeOK'
  BY <1>1 DEF TypeOK, Start, Goto
<1>2. ASSUME NEW j \in Job, Check(j) PROVE TypeOK'
  <2>1. pc'[j] = "read" => request[j].type \in Type
    BY <1>2, RequestIs DEF Check, Goto, Accepts, TypeOK
  <2> QED BY <1>2, <2>1 DEF TypeOK, Check, Goto, history
<1>3. ASSUME NEW j \in Job, ReadEmpty(j) PROVE TypeOK'
  <2>1. IsDocument(Stub(request[j])) /\ IsContents(Stub(request[j]))
    BY <1>3, RequestIs, StubType DEF ReadEmpty
  <2> QED BY <1>3, <2>1 DEF TypeOK, ReadEmpty, Goto, history
<1>4. ASSUME NEW j \in Job, ReadMerge(j) PROVE TypeOK'
  <2>1. CASE CanMerge(file, request[j])
    <3>1. IsDocument(Merged(file, request[j])) /\ IsContents(Merged(file, request[j]))
      BY <1>4, <2>1, RequestIs, MergedType DEF ReadMerge, TypeOK
    <3> QED BY <1>4, <2>1, <3>1 DEF TypeOK, ReadMerge, Goto, history
  <2>2. CASE ~CanMerge(file, request[j])
    BY <1>4, <2>2 DEF TypeOK, ReadMerge, Goto, history
  <2> QED BY <2>1, <2>2
<1>5. ASSUME NEW j \in Job, Open(j) PROVE TypeOK'
  BY <1>5, MarkersAreContents DEF TypeOK, Open, Goto, history
<1>6. ASSUME NEW j \in Job, Write(j) PROVE TypeOK'
  BY <1>6, MarkersAreContents DEF TypeOK, Write, Goto, history, Outcomes
<1>7. ASSUME NEW j \in Job, Fault(j) PROVE TypeOK'
  <2>1. /\ request' = request /\ text' = text /\ created' = created
        /\ original' = original /\ before' = before /\ IsContents(file')
    BY <1>7, MarkersAreContents DEF Fault, TypeOK
  <2>2. PICK end \in {"failed", "killed"} : pc' = [pc EXCEPT ![j] = end]
    BY <1>7 DEF Fault, Goto
  <2>3. faults \in Nat /\ faults' = faults + 1 /\ faults' \in 0 .. MaxFaults
    BY <1>7 DEF Fault, TypeOK
  <2>4. j \notin halfway
    BY <1>7 DEF Fault, Running, TypeOK
  <2>5. IsFiniteSet(halfway') /\ Cardinality(halfway') <= faults'
    <3>1. CASE pc[j] = "write"
      <4>1. halfway' = halfway \union {j}
        BY <1>7, <3>1 DEF Fault
      <4>2. IsFiniteSet(halfway') /\ Cardinality(halfway') = Cardinality(halfway) + 1
        BY <2>4, <4>1, FS_AddElement DEF TypeOK
      <4>3. Cardinality(halfway) \in Nat /\ Cardinality(halfway) <= faults
        BY FS_CardinalityType DEF TypeOK
      <4> QED BY <2>3, <4>2, <4>3
    <3>2. CASE pc[j] # "write"
      <4>1. halfway' = halfway
        BY <1>7, <3>2 DEF Fault
      <4>2. Cardinality(halfway) \in Nat /\ Cardinality(halfway) <= faults /\ IsFiniteSet(halfway)
        BY FS_CardinalityType DEF TypeOK
      <4> QED BY <2>3, <4>1, <4>2
    <3> QED BY <3>1, <3>2
  <2>6. halfway' \subseteq {k \in Job : pc'[k] \in {"failed", "killed"}}
    BY <1>7, <2>2 DEF Fault, TypeOK
  <2> QED BY <2>1, <2>2, <2>3, <2>5, <2>6 DEF TypeOK
<1>8. CASE UNCHANGED vars
  BY <1>8 DEF TypeOK, vars, history
<1> QED BY <1>1, <1>2, <1>3, <1>4, <1>5, <1>6, <1>7, <1>8 DEF Next, Step

(* Every variable keeps its type: whatever races and faults there are, what  *)
(* a command is about to write is a text with its entry.                     *)
THEOREM TypeCorrect == Spec => []TypeOK
BY TypeInit, TypeStep, PTL DEF Spec

-----------------------------------------------------------------------------
(* The last write stands.                                                   *)

(* What a command is about to write has its own entry.                       *)
TextHasEntry == \A j \in Job : pc[j] \in {"open", "write"} => request[j] \in Entries(text[j])

(* While nobody is between truncating and writing, the file is the original, *)
(* or torn, or the text of some command that reported success.               *)
Stands ==
    halfway = {} /\ (\A j \in Job : pc[j] # "write") =>
        \/ Succeeded = {} /\ file = original
        \/ file = Garbled
        \/ \E j \in Succeeded : request[j] \in Entries(file)

LEMMA TextHasEntryStep == TypeOK /\ TextHasEntry /\ [Next]_vars => TextHasEntry'
<1> SUFFICES ASSUME TypeOK, TextHasEntry, [Next]_vars PROVE TextHasEntry'
  OBVIOUS
<1>1. ASSUME NEW j \in Job, Start(j) \/ Check(j) \/ Open(j) \/ Write(j) \/ Fault(j)
      PROVE  TextHasEntry'
  <2>1. /\ text' = text /\ request' = request
        /\ \A k \in Job : pc'[k] \in {"open", "write"} => pc[k] \in {"open", "write"}
    BY <1>1 DEF Start, Check, Open, Write, Fault, Goto, TypeOK, history
  <2> QED BY <2>1 DEF TextHasEntry
<1>2. ASSUME NEW j \in Job, ReadEmpty(j) PROVE TextHasEntry'
  <2>1. request[j] \in Entries(Stub(request[j]))
    BY <1>2, RequestIs, StubType DEF ReadEmpty
  <2> QED BY <1>2, <2>1 DEF TextHasEntry, ReadEmpty, Goto, TypeOK
<1>3. ASSUME NEW j \in Job, ReadMerge(j) PROVE TextHasEntry'
  <2>1. CanMerge(file, request[j]) => request[j] \in Entries(Merged(file, request[j]))
    BY <1>3, RequestIs, MergedEntries DEF ReadMerge, TypeOK
  <2> QED BY <1>3, <2>1 DEF TextHasEntry, ReadMerge, Goto, TypeOK
<1>4. CASE UNCHANGED vars
  BY <1>4 DEF TextHasEntry, vars
<1> QED BY <1>1, <1>2, <1>3, <1>4 DEF Next, Step

LEMMA StandsStep == TypeOK /\ TextHasEntry /\ Stands /\ [Next]_vars => Stands'
<1> SUFFICES ASSUME TypeOK, TextHasEntry, Stands, [Next]_vars,
                    halfway' = {}, \A j \in Job : pc'[j] # "write"
             PROVE  \/ Succeeded' = {} /\ file' = original'
                    \/ file' = Garbled
                    \/ \E j \in Succeeded' : request'[j] \in Entries(file')
  BY DEF Stands
<1>1. ASSUME NEW j \in Job, Start(j) \/ Check(j) \/ ReadEmpty(j) \/ ReadMerge(j)
      PROVE  /\ file' = file /\ original' = original /\ request' = request /\ halfway' = halfway
             /\ Succeeded' = Succeeded /\ \A k \in Job : pc[k] # "write"
  BY <1>1 DEF Start, Check, ReadEmpty, ReadMerge, Goto, TypeOK, history, Succeeded
<1>2. ASSUME NEW j \in Job, Open(j) PROVE FALSE
  BY <1>2 DEF Open, Goto, TypeOK
<1>3. ASSUME NEW j \in Job, Write(j)
      PROVE  file' = Garbled \/ (j \in Succeeded' /\ request'[j] \in Entries(file'))
  <2>1. /\ file' \in {text[j], Garbled} /\ request' = request /\ j \in Succeeded'
        /\ request[j] \in Entries(text[j])
    BY <1>3 DEF Write, Goto, TypeOK, Outcomes, Succeeded, TextHasEntry
  <2> QED BY <2>1
<1>4. ASSUME NEW j \in Job, Fault(j)
      PROVE  /\ file' = file /\ original' = original /\ request' = request /\ halfway' = halfway
             /\ Succeeded' = Succeeded /\ \A k \in Job : pc[k] # "write"
  <2>1. pc[j] # "write"
    BY <1>4 DEF Fault
  <2> QED BY <1>4, <2>1 DEF Fault, Running, Goto, TypeOK, Succeeded
<1>5. CASE UNCHANGED vars
  BY <1>5 DEF vars, history, Succeeded, Stands
<1> QED BY <1>1, <1>2, <1>3, <1>4, <1>5 DEF Next, Step, Stands

(* For any number of commands, races and faults elsewhere never empty the    *)
(* file, and never lose the entry of every command that reported success.    *)
THEOREM LastWriteAlwaysStands == Spec => []LastWriteStands
<1>1. Init => TextHasEntry /\ Stands
  BY DEF Init, TextHasEntry, Stands, Succeeded
<1>2. TypeOK /\ TextHasEntry /\ Stands /\ [Next]_vars => (TypeOK /\ TextHasEntry /\ Stands)'
  BY TypeStep, TextHasEntryStep, StandsStep
<1>3. Stands => LastWriteStands
  BY DEF Stands, LastWriteStands, Quiet, Running
<1> QED BY TypeInit, <1>1, <1>2, <1>3, PTL DEF Spec

-----------------------------------------------------------------------------
(* Doubling.                                                                *)

(* Two commands running at one time have been seen to overlap.               *)
OverlapsSeen == \A j, k \in Job : Running(j) /\ Running(k) /\ j # k => {j, k} \in overlaps

Overlapped(j) == j \in UNION overlaps

(* A command past the check finds its entry in the file only if another one  *)
(* ran beside it.                                                            *)
CheckHolds == \A j \in Job : pc[j] = "read" => request[j] \notin Entries(file) \/ Overlapped(j)

(* Some command that reported success added (h, t) while another one ran.    *)
Blamed(h, t) == \E j \in Succeeded : request[j] = [section |-> h, type |-> t] /\ Overlapped(j)

Sane == IsEmpty(original) \/ Decodes(original)

FileExplained == Sane => \A h \in Section, t \in Type : Doubled(file, h, t) => Blamed(h, t)

(* A text to be written doubles what the file did, or its own entry.         *)
TextExplained ==
    Sane => \A j \in Job : pc[j] \in {"open", "write"} =>
        \A h \in Section, t \in Type : Doubled(text[j], h, t) =>
            Blamed(h, t) \/ (request[j] = [section |-> h, type |-> t] /\ Overlapped(j))

DoublingInv == OverlapsSeen /\ CheckHolds /\ FileExplained /\ TextExplained

LEMMA OverlapsStep == TypeOK /\ OverlapsSeen /\ [Next]_vars => OverlapsSeen' /\ overlaps \subseteq overlaps'
<1> SUFFICES ASSUME TypeOK, OverlapsSeen, [Next]_vars
             PROVE  OverlapsSeen' /\ overlaps \subseteq overlaps'
  OBVIOUS
<1>1. ASSUME NEW j \in Job, Start(j) PROVE OverlapsSeen' /\ overlaps \subseteq overlaps'
  <2>1. overlaps' = overlaps \union {{j, k} : k \in {i \in Job : Running(i)}}
    BY <1>1 DEF Start
  <2>2. pc' = [pc EXCEPT ![j] = "check"] /\ ~Running(j)
    BY <1>1 DEF Start, Goto, Running
  <2>3. \A k \in Job : k # j => (Running(k)' <=> Running(k))
    BY <2>2 DEF Running, TypeOK
  <2>4. ASSUME NEW i \in Job, NEW k \in Job, Running(i)', Running(k)', i # k
        PROVE  {i, k} \in overlaps'
    <3>1. CASE i = j
      <4>1. Running(k)
        BY <2>3, <2>4, <3>1
      <4> QED BY <2>1, <3>1, <4>1
    <3>2. CASE k = j
      <4>1. Running(i) /\ {i, k} = {k, i}
        BY <2>3, <2>4, <3>2
      <4> QED BY <2>1, <3>2, <4>1
    <3>3. CASE i # j /\ k # j
      BY <2>1, <2>3, <2>4, <3>3 DEF OverlapsSeen
    <3> QED BY <3>1, <3>2, <3>3
  <2> QED BY <2>1, <2>4 DEF OverlapsSeen
<1>2. ASSUME NEW j \in Job, Step(j) \/ Fault(j) PROVE OverlapsSeen' /\ overlaps \subseteq overlaps'
  <2>1. overlaps' = overlaps /\ \A k \in Job : Running(k)' => Running(k)
    BY <1>2 DEF Step, Check, ReadEmpty, ReadMerge, Open, Write, Fault, Goto, Running, TypeOK, history
  <2> QED BY <2>1 DEF OverlapsSeen
<1>3. CASE UNCHANGED vars
  BY <1>3 DEF vars, history, OverlapsSeen, Running
<1> QED BY <1>1, <1>2, <1>3 DEF Next

(* Who has been blamed stays blamed.                                         *)
LEMMA BlamedStays ==
    ASSUME TypeOK, OverlapsSeen, [Next]_vars
    PROVE  /\ \A h, t : Blamed(h, t) => Blamed(h, t)'
           /\ \A j : Overlapped(j) => Overlapped(j)'
           /\ (Sane' <=> Sane) /\ request' = request /\ Succeeded \subseteq Succeeded'
<1>1. request' = request /\ original' = original
  BY DEF Next, Step, Start, Check, ReadEmpty, ReadMerge, Open, Write, Fault, vars, history
<1>2. Succeeded \subseteq Succeeded'
  BY DEF Next, Step, Start, Check, ReadEmpty, ReadMerge, Open, Write, Fault, Running, vars, Goto,
         TypeOK, Succeeded
<1>3. \A j : Overlapped(j) => Overlapped(j)'
  BY OverlapsStep DEF Overlapped
<1>4. \A h, t : Blamed(h, t) => Blamed(h, t)'
  BY <1>1, <1>2, <1>3 DEF Blamed
<1>5. (Sane' <=> Sane)
  BY <1>1 DEF Sane
<1> QED BY <1>1, <1>2, <1>3, <1>4, <1>5

(* The file changes under a command only if another one runs.                *)
LEMMA CheckStep == TypeOK /\ OverlapsSeen /\ CheckHolds /\ [Next]_vars => CheckHolds'
<1> SUFFICES ASSUME TypeOK, OverlapsSeen, CheckHolds, [Next]_vars,
                    NEW k \in Job, pc'[k] = "read"
             PROVE  request'[k] \notin Entries(file') \/ Overlapped(k)'
  BY DEF CheckHolds
<1>0. request' = request /\ (Overlapped(k) => Overlapped(k)')
  BY BlamedStays
<1>1. ASSUME NEW j \in Job, Start(j) \/ ReadEmpty(j) \/ ReadMerge(j) PROVE pc[k] = "read" /\ file' = file
  BY <1>1 DEF Start, ReadEmpty, ReadMerge, Goto, TypeOK
<1>2. ASSUME NEW j \in Job, Check(j)
      PROVE  file' = file /\ (pc[k] = "read" \/ request[k] \notin Entries(file))
  <2>1. CASE k = j
    <3>1. Accepts(request[k]) /\ file' = file
      BY <1>2, <2>1 DEF Check, Goto, TypeOK
    <3> QED BY <3>1 DEF Accepts, IsDuplicate, IsEmpty, Entries, IsDocument
  <2>2. CASE k # j
    BY <1>2, <2>2 DEF Check, Goto, TypeOK
  <2> QED BY <2>1, <2>2
<1>3. ASSUME NEW j \in Job, Open(j) \/ Write(j) \/ Fault(j)
      PROVE  pc[k] = "read" /\ (file' = file \/ Overlapped(k))
  <2>1. pc[k] = "read"
    BY <1>3 DEF Open, Write, Fault, Goto, TypeOK
  <2>2. Running(j) /\ Running(k)
    BY <1>3, <2>1 DEF Open, Write, Fault, Running
  <2>3. CASE j = k
    BY <1>3, <2>1, <2>3 DEF Open, Write, Fault
  <2>4. CASE j # k
    BY <2>1, <2>2, <2>4 DEF OverlapsSeen, Overlapped
  <2> QED BY <2>1, <2>3, <2>4
<1>4. CASE UNCHANGED vars
  BY <1>4 DEF vars, CheckHolds, Overlapped, history
<1> QED BY <1>0, <1>1, <1>2, <1>3, <1>4 DEF Next, Step, CheckHolds

LEMMA ExplainedStep == TypeOK /\ DoublingInv /\ [Next]_vars => FileExplained' /\ TextExplained'
<1> SUFFICES ASSUME TypeOK, DoublingInv, [Next]_vars PROVE FileExplained' /\ TextExplained'
  OBVIOUS
<1> USE DEF DoublingInv
<1>0. /\ \A h, t : Blamed(h, t) => Blamed(h, t)'
      /\ \A j : Overlapped(j) => Overlapped(j)'
      /\ (Sane' <=> Sane) /\ request' = request
  BY BlamedStays
<1>1. ASSUME NEW j \in Job, Start(j) \/ Check(j) PROVE FileExplained' /\ TextExplained'
  <2>1. /\ file' = file /\ text' = text
        /\ \A k \in Job : pc'[k] \in {"open", "write"} => pc[k] \in {"open", "write"}
    BY <1>1 DEF Start, Check, Goto, TypeOK
  <2> QED BY <1>0, <2>1 DEF FileExplained, TextExplained
<1>2. ASSUME NEW j \in Job, ReadEmpty(j) PROVE FileExplained' /\ TextExplained'
  <2>1. /\ file' = file /\ text'[j] = Stub(request[j])
        /\ \A k \in Job : k # j => text'[k] = text[k] /\ pc'[k] = pc[k]
    BY <1>2 DEF ReadEmpty, Goto, TypeOK
  <2>2. \A h, t : ~Doubled(text'[j], h, t)
    BY <1>2, <2>1, RequestIs, StubNotDoubled DEF ReadEmpty
  <2> QED BY <1>0, <2>1, <2>2 DEF FileExplained, TextExplained
<1>3. ASSUME NEW j \in Job, ReadMerge(j) PROVE FileExplained' /\ TextExplained'
  <2>1. /\ file' = file /\ pc[j] = "read"
        /\ \A k \in Job : k # j => text'[k] = text[k] /\ pc'[k] = pc[k]
        /\ pc'[j] = "open" => text'[j] = Merged(file, request[j]) /\ CanMerge(file, request[j])
        /\ pc'[j] # "write"
    BY <1>3 DEF ReadMerge, Goto, TypeOK
  <2>2. ASSUME Sane, pc'[j] = "open", NEW h \in Section, NEW t \in Type, Doubled(text'[j], h, t)
        PROVE  Blamed(h, t) \/ (request[j] = [section |-> h, type |-> t] /\ Overlapped(j))
    <3>1. Doubled(file, h, t) \/ (request[j] = [section |-> h, type |-> t] /\ request[j] \in Entries(file))
      BY <2>1, <2>2, RequestIs, MergedDoubles DEF TypeOK
    <3> QED BY <2>1, <2>2, <3>1 DEF FileExplained, CheckHolds
  <2> QED BY <1>0, <2>1, <2>2 DEF FileExplained, TextExplained
<1>4. ASSUME NEW j \in Job, Open(j) PROVE FileExplained' /\ TextExplained'
  <2>1. /\ file' = Blank /\ text' = text
        /\ \A k \in Job : pc'[k] \in {"open", "write"} => pc[k] \in {"open", "write"}
    BY <1>4 DEF Open, Goto, TypeOK
  <2>2. \A h, t : ~Doubled(file', h, t)
    BY <2>1 DEF Doubled, IsDocument
  <2> QED BY <1>0, <2>1, <2>2 DEF FileExplained, TextExplained
<1>5. ASSUME NEW j \in Job, Write(j) PROVE FileExplained' /\ TextExplained'
  <2>1. /\ file' \in {text[j], Garbled} /\ text' = text /\ pc[j] = "write" /\ j \in Succeeded'
        /\ \A k \in Job : pc'[k] \in {"open", "write"} => pc[k] \in {"open", "write"}
    BY <1>5 DEF Write, Goto, TypeOK, Outcomes, Succeeded
  <2>2. ASSUME Sane, NEW h \in Section, NEW t \in Type, Doubled(file', h, t) PROVE Blamed(h, t)'
    <3>1. file' = text[j]
      BY <2>1, <2>2 DEF Doubled, IsDocument
    <3>2. Blamed(h, t) \/ (request[j] = [section |-> h, type |-> t] /\ Overlapped(j))
      BY <2>1, <2>2, <3>1 DEF TextExplained
    <3> QED BY <1>0, <2>1, <3>2 DEF Blamed
  <2> QED BY <1>0, <2>1, <2>2 DEF FileExplained, TextExplained
<1>6. ASSUME NEW j \in Job, Fault(j) PROVE FileExplained' /\ TextExplained'
  <2>1. /\ file' \in {file, Garbled} /\ text' = text
        /\ \A k \in Job : pc'[k] \in {"open", "write"} => pc[k] \in {"open", "write"}
    BY <1>6 DEF Fault, Goto, TypeOK
  <2>2. \A h, t : Doubled(file', h, t) => Doubled(file, h, t)
    BY <2>1 DEF Doubled, IsDocument
  <2> QED BY <1>0, <2>1, <2>2 DEF FileExplained, TextExplained
<1>7. CASE UNCHANGED vars
  BY <1>0, <1>7 DEF vars, FileExplained, TextExplained
<1> QED BY <1>1, <1>2, <1>3, <1>4, <1>5, <1>6, <1>7 DEF Next, Step

(* For any number of commands and faults: an entry declared twice in a file  *)
(* that had none takes a command that added it beside another.               *)
THEOREM DoublingAlwaysNeedsOverlap == Spec => []DoublingNeedsOverlap
<1>1. Init => DoublingInv
  <2> SUFFICES ASSUME Init PROVE DoublingInv
    OBVIOUS
  <2>1. OverlapsSeen /\ CheckHolds /\ TextExplained
    BY DEF Init, OverlapsSeen, CheckHolds, TextExplained, Running
  <2>2. FileExplained
    BY DecodedNotDoubled DEF Init, FileExplained, Sane
  <2> QED BY <2>1, <2>2 DEF DoublingInv
<1>2. TypeOK /\ DoublingInv /\ [Next]_vars => (TypeOK /\ DoublingInv)'
  BY TypeStep, OverlapsStep, CheckStep, ExplainedStep DEF DoublingInv
<1>3. DoublingInv => DoublingNeedsOverlap
  BY DEF DoublingInv, FileExplained, DoublingNeedsOverlap, Sane, Twice, Doubled, Blamed, Overlapped
<1> QED BY TypeInit, <1>1, <1>2, <1>3, PTL DEF Spec

-----------------------------------------------------------------------------
(* Loss.                                                                    *)

(* What must not be lost: the original entries and those reported as added.  *)
Kept(c) ==
    /\ Entries(original) \subseteq Entries(c)
    /\ \A j \in Succeeded : request[j] \in Entries(c)

(* Without overlaps and torn commands, the file has all of it, or the one    *)
(* command that is at it is about to write all of it into an empty file.     *)
KeepsAll ==
    overlaps = {} /\ halfway = {} =>
        /\ \A j \in Job : pc[j] \in {"open", "write"} => Kept(text[j])
        /\ \A j \in Job : pc[j] = "write" => file = Blank
        /\ (\A j \in Job : pc[j] # "write") => Kept(file)

LossInv == OverlapsSeen /\ TextHasEntry /\ KeepsAll

LEMMA OneAtATime ==
    ASSUME OverlapsSeen, overlaps = {}, NEW j \in Job, Running(j)
    PROVE  \A k \in Job : Running(k) => k = j
BY DEF OverlapsSeen

(* A merge keeps what the file had.                                          *)
LEMMA MergedKeeps ==
    ASSUME NEW c, IsContents(c), NEW q, IsRequest(q), CanMerge(c, q)
    PROVE  Entries(c) \subseteq Entries(Merged(c, q))
<1> SUFFICES ASSUME NEW e \in Entries(c) PROVE e \in Entries(Merged(c, q))
  OBVIOUS
<1>1. /\ IsDocument(c) /\ e = [section |-> e.section, type |-> e.type]
      /\ e.section \in Section \union {Stray} /\ e.type \in Type
  BY EntriesType
<1>2. CASE e.section \in Section
  BY <1>1, <1>2, MergedEntries DEF IsRequest
<1>3. CASE e.section \notin Section
  <2> DEFINE d == Merged(c, q)
  <2>1. PICK h \in DOMAIN c : \E t \in ToSet(c[h].entries) : e = [section |-> h, type |-> t]
    BY <1>1 DEF Entries
  <2>2. h # q.section
    BY <1>3, <2>1 DEF IsRequest
  <2>3. h \in DOMAIN d /\ d[h] = c[h] /\ IsDocument(d)
    <3>1. DOMAIN d = DOMAIN c \union {q.section} /\ \A g \in DOMAIN c : g # q.section => d[g] = c[g]
      BY MergedIs
    <3>2. IsDocument(d)
      BY MergedType
    <3> HIDE DEF d
    <3> QED BY <2>2, <3>1, <3>2
  <2> HIDE DEF d
  <2>4. \E t \in ToSet(d[h].entries) : e = [section |-> h, type |-> t]
    BY <2>1, <2>3
  <2> QED BY <2>3, <2>4, SMTT(30) DEF Entries, d
<1> QED BY <1>2, <1>3

LEMMA KeepsStep == TypeOK /\ LossInv /\ [Next]_vars => KeepsAll'
<1> SUFFICES ASSUME TypeOK, LossInv, [Next]_vars, overlaps' = {}, halfway' = {}
             PROVE  /\ \A j \in Job : pc'[j] \in {"open", "write"} => Kept(text[j])'
                    /\ \A j \in Job : pc'[j] = "write" => file' = Blank
                    /\ (\A j \in Job : pc'[j] # "write") => Kept(file)'
  BY DEF KeepsAll
<1> USE DEF LossInv
<1>0. /\ request' = request /\ original' = original /\ overlaps = {}
  BY OverlapsStep DEF Next, Step, Start, Check, ReadEmpty, ReadMerge, Open, Write, Fault, vars, history
<1>h. halfway = {}
  BY DEF Next, Step, Start, Check, ReadEmpty, ReadMerge, Open, Write, Fault, vars, history
<1>k. /\ \A j \in Job : pc[j] \in {"open", "write"} => Kept(text[j])
      /\ \A j \in Job : pc[j] = "write" => file = Blank
      /\ (\A j \in Job : pc[j] # "write") => Kept(file)
  BY <1>0, <1>h DEF KeepsAll
<1>1. ASSUME NEW j \in Job, Start(j) \/ Check(j)
      PROVE  /\ file' = file /\ text' = text /\ Succeeded' = Succeeded
             /\ \A k \in Job : pc'[k] \in {"open", "write"} => pc'[k] = pc[k]
             /\ \A k \in Job : pc[k] = "write" => pc'[k] = "write"
  BY <1>1 DEF Start, Check, Goto, TypeOK, Succeeded
<1>2. ASSUME NEW j \in Job, ReadEmpty(j) \/ ReadMerge(j)
      PROVE  /\ file' = file /\ Succeeded' = Succeeded
             /\ \A k \in Job : pc[k] # "write" /\ pc'[k] # "write"
             /\ \A k \in Job : pc'[k] = "open" => k = j /\ Kept(text[j])'
  <2>1. \A k \in Job : Running(k) => k = j
    BY <1>0, <1>2, OneAtATime DEF ReadEmpty, ReadMerge, Running
  <2>2. /\ file' = file /\ Succeeded' = Succeeded
        /\ \A k \in Job : pc[k] # "write" /\ pc'[k] # "write"
        /\ \A k \in Job : pc'[k] = "open" => k = j
    BY <1>2, <2>1 DEF ReadEmpty, ReadMerge, Goto, TypeOK, Succeeded, Running
  <2>3. Kept(file)
    BY <1>k, <2>2
  <2>4. ASSUME pc'[j] = "open" PROVE Entries(file) \subseteq Entries(text'[j])
    <3>1. CASE ReadEmpty(j)
      BY <3>1 DEF ReadEmpty, Entries, IsEmpty, IsDocument
    <3>2. CASE ReadMerge(j)
      <4>1. text'[j] = Merged(file, request[j]) /\ CanMerge(file, request[j])
        BY <2>4, <3>2 DEF ReadMerge, Goto, TypeOK
      <4> QED BY <3>2, <4>1, RequestIs, MergedKeeps DEF ReadMerge, TypeOK
    <3> QED BY <1>2, <3>1, <3>2
  <2> QED BY <1>0, <2>2, <2>3, <2>4 DEF Kept
<1>3. ASSUME NEW j \in Job, Open(j)
      PROVE  /\ file' = Blank /\ text' = text /\ Succeeded' = Succeeded /\ pc'[j] = "write"
             /\ \A k \in Job : pc'[k] \in {"open", "write"} => pc[k] \in {"open", "write"}
  BY <1>3 DEF Open, Goto, TypeOK, Succeeded
<1>4. ASSUME NEW j \in Job, Write(j)
      PROVE  /\ \A k \in Job : pc'[k] \notin {"open", "write"}
             /\ Kept(file)'
  <2>1. \A k \in Job : Running(k) => k = j
    BY <1>0, <1>4, OneAtATime DEF Write, Running
  <2>2. file' = text[j] /\ Kept(text[j]) /\ request[j] \in Entries(text[j])
    BY <1>4, <1>k DEF Write, Outcomes, TextHasEntry
  <2>3. Succeeded' = Succeeded \union {j} /\ \A k \in Job : pc'[k] \notin {"open", "write"}
    BY <1>4, <2>1 DEF Write, Goto, TypeOK, Succeeded, Running
  <2> QED BY <1>0, <2>2, <2>3 DEF Kept
<1>5. ASSUME NEW j \in Job, Fault(j)
      PROVE  /\ file' = file /\ text' = text /\ Succeeded' = Succeeded
             /\ \A k \in Job : pc'[k] \in {"open", "write"} => pc'[k] = pc[k]
             /\ \A k \in Job : pc[k] = "write" => pc'[k] = "write"
  <2>1. pc[j] # "write"
    BY <1>5 DEF Fault
  <2> QED BY <1>5, <2>1 DEF Fault, Running, Goto, TypeOK, Succeeded
<1>6. CASE UNCHANGED vars
  BY <1>6, <1>k DEF vars, history, Kept, Succeeded
<1>7. ASSUME NEW j \in Job, Start(j) \/ Check(j) \/ Fault(j)
      PROVE  /\ \A k \in Job : pc'[k] \in {"open", "write"} => Kept(text[k])'
             /\ \A k \in Job : pc'[k] = "write" => file' = Blank
             /\ (\A k \in Job : pc'[k] # "write") => Kept(file)'
  <2>1. /\ file' = file /\ text' = text /\ Succeeded' = Succeeded
        /\ \A k \in Job : pc'[k] \in {"open", "write"} => pc'[k] = pc[k]
        /\ \A k \in Job : pc[k] = "write" => pc'[k] = "write"
    BY <1>1, <1>5, <1>7
  <2> QED BY <1>0, <1>k, <2>1 DEF Kept
<1>8. ASSUME NEW j \in Job, ReadEmpty(j) \/ ReadMerge(j)
      PROVE  /\ \A k \in Job : pc'[k] \in {"open", "write"} => Kept(text[k])'
             /\ \A k \in Job : pc'[k] = "write" => file' = Blank
             /\ (\A k \in Job : pc'[k] # "write") => Kept(file)'
  BY <1>0, <1>2, <1>8, <1>k DEF Kept
<1>9. ASSUME NEW j \in Job, Open(j)
      PROVE  /\ \A k \in Job : pc'[k] \in {"open", "write"} => Kept(text[k])'
             /\ \A k \in Job : pc'[k] = "write" => file' = Blank
             /\ (\A k \in Job : pc'[k] # "write") => Kept(file)'
  BY <1>0, <1>3, <1>9, <1>k DEF Kept
<1> QED BY <1>4, <1>6, <1>7, <1>8, <1>9 DEF Next, Step

(* For any number of commands and faults: what the file had and what was     *)
(* reported as added is lost only to a race or a torn write.                 *)
THEOREM LossAlwaysNeedsCause == Spec => []LossNeedsCause
<1>1. Init => LossInv
  BY DEF Init, LossInv, OverlapsSeen, TextHasEntry, KeepsAll, Kept, Succeeded, Running
<1>2. TypeOK /\ LossInv /\ [Next]_vars => (TypeOK /\ LossInv)'
  BY TypeStep, OverlapsStep, TextHasEntryStep, KeepsStep DEF LossInv
<1>3. LossInv => LossNeedsCause
  BY DEF LossInv, KeepsAll, Kept, LossNeedsCause, Quiet, Running
<1> QED BY TypeInit, <1>1, <1>2, <1>3, PTL DEF Spec

-----------------------------------------------------------------------------
(* Until something disturbs them, commands run one at a time.                *)

(* The file the command at hand read, now or before it truncated it.         *)
FileRead(j) == IF pc[j] = "write" THEN before ELSE file

SerialInv ==
    /\ \A j, k \in Job : Running(j) /\ Running(k) => j = k
    /\ \A j \in Job : pc[j] \in {"idle", "check", "read"} => ~created[j]
    /\ \A j \in Job : pc[j] \in {"read", "open", "write"} =>
          /\ request[j] \notin Entries(FileRead(j))
          /\ IsEmpty(FileRead(j)) \/ Decodes(FileRead(j))
    /\ \A j \in Job : pc[j] \in {"open", "write"} =>
          /\ created[j] <=> IsEmpty(FileRead(j))
          /\ ~IsEmpty(FileRead(j)) => CanMerge(FileRead(j), request[j])
          /\ text[j] = IF IsEmpty(FileRead(j)) THEN Stub(request[j])
                       ELSE Merged(FileRead(j), request[j])
    /\ \A j \in Job : pc[j] = "write" => file = Blank

LEMMA SerialStarts == Init => SerialInv
BY DEF Init, SerialInv, Running

LEMMA SerialStep ==
    ASSUME TypeOK, SerialInv, [Next]_vars, ~Disturbed'
    PROVE  SerialInv'
<1>1. ASSUME NEW j \in Job, Start(j) PROVE SerialInv'
  <2>1. ASSUME NEW k \in Job, Running(k) PROVE FALSE
    <3>1. {j, k} \in overlaps'
      BY <1>1, <2>1 DEF Start
    <3> QED BY <3>1 DEF Disturbed
  <2>2. pc' = [pc EXCEPT ![j] = "check"] /\ created' = created
    BY <1>1 DEF Start, Goto
  <2> QED BY <1>1, <2>1, <2>2 DEF Start, SerialInv, Running, TypeOK
<1>2. ASSUME NEW j \in Job, Step(j)
      PROVE  /\ \A k \in Job : Running(k)' => k = j
             /\ \A k \in Job : Running(k) => k = j
             /\ \A k \in Job : k # j => pc'[k] = pc[k]
             /\ request' = request
  BY <1>2 DEF Step, Check, ReadEmpty, ReadMerge, Open, Write, Goto, Running, TypeOK, SerialInv
<1>3. ASSUME NEW j \in Job, Check(j) PROVE SerialInv'
  <2>1. pc'[j] = "read" => Accepts(request[j])
    BY <1>3 DEF Check, Goto, TypeOK
  <2>2. Accepts(request[j]) => request[j] \notin Entries(file) /\ (IsEmpty(file) \/ Decodes(file))
    BY DEF Accepts, IsDuplicate, IsEmpty, Entries, IsDocument
  <2>3. /\ file' = file /\ created' = created /\ pc'[j] \in {"read", "failed"}
        /\ ~created[j]
    BY <1>3 DEF Check, Goto, TypeOK, SerialInv
  <2> QED BY <1>2, <1>3, <2>1, <2>2, <2>3 DEF Step, SerialInv, Running, FileRead
<1>4. ASSUME NEW j \in Job, ReadEmpty(j) PROVE SerialInv'
  <2>1. /\ file' = file /\ pc[j] = "read" /\ pc'[j] = "open" /\ created'[j] = TRUE
        /\ text'[j] = Stub(request[j]) /\ IsEmpty(file)
        /\ \A k \in Job : k # j => created'[k] = created[k]
    BY <1>4 DEF ReadEmpty, Goto, TypeOK
  <2> QED BY <1>2, <1>4, <2>1 DEF Step, SerialInv, Running, FileRead
<1>5. ASSUME NEW j \in Job, ReadMerge(j) PROVE SerialInv'
  <2>1. /\ file' = file /\ pc[j] = "read" /\ created' = created /\ ~IsEmpty(file)
        /\ pc'[j] \in {"open", "failed"}
        /\ pc'[j] = "open" => text'[j] = Merged(file, request[j]) /\ CanMerge(file, request[j])
    BY <1>5 DEF ReadMerge, Goto, TypeOK
  <2> QED BY <1>2, <1>5, <2>1 DEF Step, SerialInv, Running, FileRead
<1>6. ASSUME NEW j \in Job, Open(j) PROVE SerialInv'
  <2>1. /\ before' = file /\ file' = Blank /\ created' = created /\ text' = text
        /\ pc[j] = "open" /\ pc'[j] = "write"
    BY <1>6 DEF Open, Goto, TypeOK
  <2> QED BY <1>2, <1>6, <2>1 DEF Step, SerialInv, Running, FileRead
<1>7. ASSUME NEW j \in Job, Write(j) PROVE SerialInv'
  <2>1. created' = created /\ pc'[j] = "ok"
    BY <1>7 DEF Write, Goto, TypeOK
  <2> QED BY <1>2, <1>7, <2>1 DEF Step, SerialInv, Running, FileRead
<1>8. ASSUME NEW j \in Job, Fault(j) PROVE FALSE
  BY <1>8, RequestsAssumption DEF Fault, TypeOK, Disturbed
<1>9. CASE UNCHANGED vars
  BY <1>9 DEF vars, SerialInv, Running, FileRead
<1> QED BY <1>1, <1>3, <1>4, <1>5, <1>6, <1>7, <1>8, <1>9 DEF Next, Step

(* The promise reads texts as the program does.                              *)
LEMMA SameTexts ==
    /\ \A c : (Promised!IsDocument(c) <=> IsDocument(c)) /\ (Promised!IsEmpty(c) <=> IsEmpty(c))
    /\ \A c : (Promised!Decodes(c) <=> Decodes(c)) /\ Promised!Entries(c) = Entries(c)
<1>1. \A c : (Promised!IsDocument(c) <=> IsDocument(c)) /\ (Promised!IsEmpty(c) <=> IsEmpty(c))
  BY DEF Promised!IsDocument, Promised!IsEmpty, IsDocument, IsEmpty
<1>2. \A s : (Promised!IsInjective(s) <=> IsInjective(s)) /\ Promised!ToSet(s) = ToSet(s)
  BY DEF Promised!IsInjective, Promised!ToSet, IsInjective, ToSet
<1>3. \A c : Promised!Decodes(c) <=> Decodes(c)
  BY <1>1, <1>2 DEF Promised!Decodes, Decodes
<1>4. ASSUME NEW c PROVE Promised!Entries(c) = Entries(c)
  <2> DEFINE promised(h) == {[section |-> h, type |-> t] : t \in Promised!ToSet(c[h].entries)}
             under(h) == {[section |-> h, type |-> t] : t \in ToSet(c[h].entries)}
  <2>1. \A h : promised(h) = under(h)
    BY <1>2, Zenon
  <2>2. /\ Promised!Entries(c) = IF IsDocument(c) THEN UNION {promised(h) : h \in DOMAIN c} ELSE {}
        /\ Entries(c) = IF IsDocument(c) THEN UNION {under(h) : h \in DOMAIN c} ELSE {}
    BY <1>1, Zenon DEF Promised!Entries, Entries
  <2> HIDE DEF promised, under
  <2>3. {promised(h) : h \in DOMAIN c} = {under(h) : h \in DOMAIN c}
    BY <2>1
  <2> QED BY <2>2, <2>3, Zenon
<1> QED BY <1>1, <1>3, <1>4

(* The file and the answers as the promise sees them.                        *)
FileSeen == IF \E j \in Job : pc[j] = "write" THEN before ELSE file
AnswerSeen == [j \in Job |-> IF pc[j] = "idle" THEN "none"
                             ELSE IF Running(j) THEN "pending"
                             ELSE IF pc[j] # "ok" THEN pc[j]
                             ELSE IF created[j] THEN "created" ELSE "updated"]

(* A stub or a merge is the addition the promise speaks of.                  *)
LEMMA AdditionIsPromised ==
    ASSUME NEW c, IsContents(c), NEW q, IsRequest(q), q \notin Entries(c),
           IsEmpty(c) \/ Decodes(c), ~IsEmpty(c) => CanMerge(c, q),
           NEW d, d = IF IsEmpty(c) THEN Stub(q) ELSE Merged(c, q)
    PROVE  Decodes(d) /\ Promised!Extends(c, d) /\ Entries(d) = Entries(c) \union {q}
<1>1. CASE IsEmpty(c)
  <2>1. Entries(c) = {} /\ Promised!Extends(c, d)
    BY <1>1, SameTexts DEF IsEmpty, Entries, IsDocument, Promised!Extends
  <2>2. Decodes(d) /\ IsContents(d)
    BY <1>1, StubType
  <2>3. \A e : e \in Entries(d) <=> e = q
    <3>1. \A e \in Entries(d) : IsRequest(e)
      BY <2>2, EntriesType DEF Decodes, IsRequest, Entries
    <3> QED BY <1>1, <3>1, StubType
  <2> QED BY <2>1, <2>2, <2>3
<1>2. CASE ~IsEmpty(c)
  <2> DEFINE h == q.section
  <2>1. /\ d = Merged(c, q) /\ CanMerge(c, q) /\ Decodes(c) /\ IsDocument(c)
        /\ DOMAIN c \subseteq Section /\ c \in [DOMAIN c -> Headings]
        /\ h \in Section /\ q.type \in Type
    BY <1>2 DEF Decodes, IsRequest, IsContents
  <2>2. /\ DOMAIN d = DOMAIN c \union {h} /\ d[h].kind = "map"
        /\ d \in [DOMAIN d -> Headings]
        /\ \A g \in DOMAIN c : g # h => d[g] = c[g]
        /\ h \in DOMAIN c => c[h].entries \in Seq(Type) /\ d[h].entries = Append(c[h].entries, q.type)
        /\ h \notin DOMAIN c => d[h].entries = <<q.type>>
    <3>1. /\ DOMAIN Merged(c, q) = DOMAIN c \union {q.section}
          /\ Merged(c, q) \in [DOMAIN Merged(c, q) -> Headings]
          /\ \A g \in DOMAIN c : g # q.section => Merged(c, q)[g] = c[g]
          /\ Merged(c, q)[q.section].kind = "map"
          /\ q.section \in DOMAIN c =>
               /\ c[q.section].entries \in Seq(Type)
               /\ Merged(c, q)[q.section].entries = Append(c[q.section].entries, q.type)
          /\ q.section \notin DOMAIN c => Merged(c, q)[q.section].entries = <<q.type>>
      BY <2>1, MergedIs
    <3> QED BY <2>1, <3>1, Zenon
  <2>3. IsDocument(d) /\ IsContents(d)
    BY <2>1, MergedType
  <2>4. h \in DOMAIN c => \A i \in DOMAIN c[h].entries : c[h].entries[i] # q.type
    BY <2>1, EntriesAre
  <2>5. IsInjective(d[h].entries)
    <3>1. CASE h \in DOMAIN c
      <4> DEFINE s == c[h].entries
      <4>1. s \in Seq(Type) /\ d[h].entries = Append(s, q.type) /\ \A i \in DOMAIN s : s[i] # q.type
        BY <2>2, <2>4, <3>1
      <4>2. \A i, k \in DOMAIN s : s[i] = s[k] => i = k
        BY <2>1, <3>1 DEF Decodes, IsInjective
      <4> HIDE DEF s
      <4>3. \A i, k \in DOMAIN Append(s, q.type) :
               Append(s, q.type)[i] = Append(s, q.type)[k] => i = k
        BY <2>1, <4>1, <4>2, AppendIs
      <4> QED BY <4>1, <4>3 DEF IsInjective
    <3>2. CASE h \notin DOMAIN c
      <4>1. d[h].entries = <<q.type>> /\ DOMAIN <<q.type>> = {1}
        BY <2>2, <3>2
      <4> QED BY <4>1 DEF IsInjective
    <3> QED BY <3>1, <3>2
  <2>6. Decodes(d)
    BY <2>1, <2>2, <2>3, <2>5 DEF Decodes
  <2>7. Promised!Extends(c, d)
    <3>1. ASSUME NEW g \in DOMAIN c PROVE Promised!IsPrefix(c[g].entries, d[g].entries)
      <4>1. c[g].entries \in Seq(Type)
        BY <2>1 DEF Headings
      <4>2. CASE g # h
        BY <2>2, <4>1, <4>2 DEF Promised!IsPrefix
      <4>3. CASE g = h
        <5> DEFINE s == c[g].entries
        <5>1. s \in Seq(Type) /\ d[g].entries = Append(s, q.type) /\ Len(s) \in Nat
          BY <2>2, <4>1, <4>3
        <5> HIDE DEF s
        <5>2. /\ Len(Append(s, q.type)) = Len(s) + 1
              /\ SubSeq(Append(s, q.type), 1, Len(s)) = SubSeq(s, 1, Len(s))
          BY <2>1, <5>1
        <5> QED BY <5>1, <5>2 DEF Promised!IsPrefix, s
      <4> QED BY <4>2, <4>3
    <3> QED BY <2>2, <3>1 DEF Promised!Extends
  <2>8. \A e : e \in Entries(d) <=> e \in Entries(c) \/ e = q
    <3>1. \A e \in Entries(d) : IsRequest(e)
      BY <2>3, <2>6, EntriesType DEF Decodes, IsRequest, Entries
    <3>2. \A e \in Entries(c) : IsRequest(e)
      BY <2>1, EntriesType DEF Decodes, IsRequest, Entries
    <3> QED BY <2>1, <3>1, <3>2, MergedEntries
  <2> QED BY <2>6, <2>7, <2>8
<1> QED BY <1>1, <1>2

-----------------------------------------------------------------------------
(* Every step is one of the promise, or none of its.                         *)

LEMMA PromisedIs ==
    /\ Promised!vars = <<request, FileSeen, AnswerSeen, Disturbed>>
    /\ Promised!Init <=> /\ request \in [Job -> Requests] /\ FileSeen \in Texts
                         /\ AnswerSeen = [j \in Job |-> "none"] /\ Disturbed = FALSE
BY DEF Promised!vars, Promised!Init, FileSeen, AnswerSeen, Running

LEMMA PromisedInit == Init => Promised!Init
BY PromisedIs DEF Init, FileSeen, AnswerSeen, Disturbed

(* Nothing takes a disturbance back.                                         *)
LEMMA StaysDisturbed == ASSUME TypeOK, Disturbed, [Next]_vars PROVE Disturbed'
<1>1. overlaps \subseteq overlaps' /\ (faults' = faults \/ faults' = faults + 1)
  BY DEF Next, Start, Step, Check, ReadEmpty, ReadMerge, Open, Write, Fault, vars, history
<1>2. faults \in Nat
  BY RequestsAssumption DEF TypeOK
<1> QED BY <1>1, <1>2 DEF Disturbed

LEMMA PromisedStep ==
    ASSUME TypeOK, TypeOK', SerialInv, ~Disturbed, ~Disturbed', [Next]_vars
    PROVE  [Promised!Next]_(Promised!vars)
<1>0. UNCHANGED Disturbed
  BY DEF Disturbed
<1>1. ASSUME NEW j \in Job, Start(j) PROVE Promised!Next
  <2>1. FileSeen' = FileSeen
    BY <1>1 DEF Start, Goto, FileSeen, TypeOK, Running
  <2>2. AnswerSeen[j] = "none" /\ AnswerSeen' = [AnswerSeen EXCEPT ![j] = "pending"] /\ request' = request
    BY <1>1 DEF Start, Goto, AnswerSeen, TypeOK, Running
  <2>3. Promised!Start(j)
    BY <1>0, <2>1, <2>2 DEF Promised!Start, FileSeen, AnswerSeen, Running
  <2> QED BY <2>3 DEF Promised!Next
<1>2. ASSUME NEW j \in Job, Step(j)
      PROVE  /\ \A k \in Job : k # j => ~Running(k) /\ pc'[k] = pc[k]
             /\ Running(j) /\ request' = request /\ AnswerSeen[j] = "pending"
             /\ FileSeen = FileRead(j)
             /\ pc[j] # "write" => pc'[j] # "ok"
  BY <1>2 DEF Step, Check, ReadEmpty, ReadMerge, Open, Write, Goto, Running, TypeOK, SerialInv,
              FileSeen, FileRead, AnswerSeen
<1>3. ASSUME NEW j \in Job, Step(j), Running(j)'
      PROVE  UNCHANGED Promised!vars
  <2>1. \/ pc[j] # "write" /\ pc'[j] # "write" /\ file' = file
        \/ pc'[j] = "write" /\ pc[j] # "write" /\ before' = file
    BY <1>3 DEF Step, Check, ReadEmpty, ReadMerge, Open, Write, Goto, Running, TypeOK
  <2>2. FileSeen' = FileSeen
    BY <1>2, <1>3, <2>1 DEF FileSeen, Running
  <2>3. \A k \in Job : AnswerSeen'[k] = AnswerSeen[k]
    <3>1. \A k \in Job : k # j => created'[k] = created[k]
      BY <1>3 DEF Step, Check, ReadEmpty, ReadMerge, Open, Write, TypeOK
    <3> QED BY <1>2, <1>3, <3>1 DEF AnswerSeen, Running
  <2>4. AnswerSeen' = AnswerSeen
    BY <2>3 DEF AnswerSeen
  <2> QED BY <1>0, <1>2, <1>3, <2>2, <2>4 DEF Promised!vars, FileSeen, AnswerSeen, Running
<1>4. ASSUME NEW j \in Job, Check(j) \/ ReadMerge(j), ~Running(j)'
      PROVE  Promised!Refuse(j)
  <2>1. /\ Step(j) /\ pc'[j] = "failed" /\ file' = file /\ created' = created /\ pc[j] # "write"
    BY <1>4 DEF Step, Check, ReadMerge, Goto, Running, TypeOK
  <2>2. FileSeen = file /\ FileSeen' = file
    BY <1>2, <2>1 DEF FileSeen, Running
  <2>3. AnswerSeen' = [AnswerSeen EXCEPT ![j] = "failed"]
    BY <1>2, <2>1 DEF AnswerSeen, Running
  <2>4. \/ request[j].type \notin Type \/ request[j] \in Entries(file)
        \/ ~IsEmpty(file) /\ ~Decodes(file)
        \/ Promised!NoMapping(file, request[j])
    <3>1. CASE Check(j)
      <4>1. ~Accepts(request[j])
        BY <2>1, <3>1 DEF Check, Goto, TypeOK
      <4> QED BY <4>1, RequestsAssumption DEF Accepts, IsDuplicate
    <3>2. CASE ReadMerge(j)
      <4>1. IsDocument(file) /\ ~CanMerge(file, request[j])
        BY <2>1, <3>2 DEF ReadMerge, Goto, TypeOK, IsEmpty, IsDocument, Decodes, SerialInv, FileRead
      <4> QED BY <4>1, SameTexts DEF CanMerge, Promised!NoMapping
    <3> QED BY <1>4, <3>1, <3>2
  <2> QED BY <1>0, <1>2, <2>1, <2>2, <2>3, <2>4, SameTexts DEF Promised!Refuse, FileSeen, AnswerSeen, Running
<1>5. ASSUME NEW j \in Job, Write(j) PROVE Promised!Add(j)
  <2>1. /\ Step(j) /\ pc[j] = "write" /\ pc'[j] = "ok" /\ created' = created /\ FileRead(j) = before
    BY <1>5 DEF Step, Write, Goto, TypeOK, FileRead
  <2>2. /\ request[j] \notin Entries(before) /\ (IsEmpty(before) \/ Decodes(before))
        /\ created[j] <=> IsEmpty(before)
        /\ ~IsEmpty(before) => CanMerge(before, request[j])
        /\ text[j] = IF IsEmpty(before) THEN Stub(request[j]) ELSE Merged(before, request[j])
        /\ file = Blank
    BY <2>1 DEF SerialInv
  <2>3. FileSeen = before /\ FileSeen' = text[j]
    <3>1. file' = text[j]
      BY <1>5, <2>2 DEF Write, Outcomes
    <3> QED BY <1>2, <2>1, <3>1 DEF FileSeen, Running
  <2>4. IsRequest(request[j]) /\ IsContents(before)
    BY <2>1, RequestIs DEF TypeOK
  <2>5. /\ Decodes(text[j]) /\ Promised!Extends(before, text[j])
        /\ Entries(text[j]) = Entries(before) \union {request[j]}
    <3> DEFINE q == request[j]
               d == text[j]
    <3>1. /\ q \notin Entries(before) /\ (IsEmpty(before) \/ Decodes(before))
          /\ (~IsEmpty(before) => CanMerge(before, q))
          /\ d = IF IsEmpty(before) THEN Stub(q) ELSE Merged(before, q)
          /\ IsRequest(q) /\ IsContents(before)
      BY <2>2, <2>4
    <3> HIDE DEF q, d
    <3>2. Decodes(d) /\ Promised!Extends(before, d) /\ Entries(d) = Entries(before) \union {q}
      BY <3>1, AdditionIsPromised
    <3> QED BY <3>2 DEF q, d
  <2>6. AnswerSeen' = [AnswerSeen EXCEPT ![j] = IF IsEmpty(before) THEN "created" ELSE "updated"]
    <3> DEFINE a == IF IsEmpty(before) THEN "created" ELSE "updated"
    <3>1. AnswerSeen'[j] = a
      BY <2>1, <2>2 DEF AnswerSeen, Running
    <3>2. \A k \in Job : k # j => AnswerSeen'[k] = AnswerSeen[k]
      BY <1>2, <2>1 DEF AnswerSeen, Running
    <3> HIDE DEF a
    <3>3. AnswerSeen' = [AnswerSeen EXCEPT ![j] = a]
      BY <3>1, <3>2 DEF AnswerSeen
    <3> QED BY <3>3 DEF a
  <2>7. request[j].type \in Type
    BY <2>1 DEF TypeOK
  <2>8. /\ AnswerSeen[j] = "pending" /\ request[j].type \in Type
        /\ request[j] \notin Promised!Entries(FileSeen)
        /\ Promised!IsEmpty(FileSeen) \/ Promised!Decodes(FileSeen)
        /\ Promised!Decodes(FileSeen') /\ Promised!Extends(FileSeen, FileSeen')
        /\ Promised!Entries(FileSeen') = Promised!Entries(FileSeen) \union {request[j]}
        /\ \E a \in Promised!Answer(FileSeen) : AnswerSeen' = [AnswerSeen EXCEPT ![j] = a]
        /\ request' = request
    <3>1. /\ Promised!Entries(FileSeen) = Entries(before)
          /\ Promised!Entries(FileSeen') = Entries(text[j])
          /\ (Promised!IsEmpty(FileSeen) <=> IsEmpty(before))
          /\ (Promised!Decodes(FileSeen) <=> Decodes(before))
          /\ (Promised!Decodes(FileSeen') <=> Decodes(text[j]))
      BY <2>3, SameTexts
    <3>2. Promised!Extends(FileSeen, FileSeen')
      BY <2>3, <2>5
    <3>3. \E a \in Promised!Answer(FileSeen) : AnswerSeen' = [AnswerSeen EXCEPT ![j] = a]
      <4>1. (IF IsEmpty(before) THEN "created" ELSE "updated") \in Promised!Answer(FileSeen)
        BY <2>3, <3>1 DEF Promised!Answer, IsEmpty
      <4> QED BY <2>6, <4>1
    <3> QED BY <1>2, <2>1, <2>2, <2>5, <2>7, <3>1, <3>2, <3>3
  <2> QED BY <1>0, <2>8 DEF Promised!Add, FileSeen, AnswerSeen, Running
<1>6. ASSUME NEW j \in Job, Fault(j) PROVE FALSE
  BY <1>6, RequestsAssumption DEF Fault, TypeOK, Disturbed
<1>7. CASE UNCHANGED vars
  <2>1. FileSeen' = FileSeen /\ AnswerSeen' = AnswerSeen /\ request' = request
    BY <1>7 DEF vars, history, FileSeen, AnswerSeen, Running
  <2> QED BY <1>0, <2>1 DEF Promised!vars, FileSeen, AnswerSeen, Running
<1>8. ASSUME NEW j \in Job, Step(j) PROVE [Promised!Next]_(Promised!vars)
  <2>1. CASE Running(j)'
    BY <1>3, <1>8, <2>1
  <2>2. CASE ~Running(j)'
    <3>1. Check(j) \/ ReadMerge(j) \/ Write(j)
      BY <1>8, <2>2 DEF Step, ReadEmpty, Open, Goto, Running, TypeOK
    <3> QED BY <1>4, <1>5, <2>2, <3>1 DEF Promised!Next
  <2> QED BY <2>1, <2>2
<1> QED BY <1>1, <1>6, <1>7, <1>8 DEF Next

(* The step that disturbs, and any step after it.                            *)
LEMMA DisturbedStep ==
    ASSUME TypeOK, Disturbed', [Next]_vars
    PROVE  [Promised!Next]_(Promised!vars)
<1>1. request' = request /\ Disturbed' = TRUE
  BY DEF Next, Start, Step, Check, ReadEmpty, ReadMerge, Open, Write, Fault, vars, Disturbed
<1> QED BY <1>1 DEF Promised!Next, Promised!Disturb, Disturbed

(* For any number of commands, any requests and any file: as long as no two  *)
(* commands overlap and none is killed or fails in I/O, the two reads, the   *)
(* truncation and the write are one atomic addition, or one refusal for a    *)
(* reason and no change.                                                     *)
THEOREM UndisturbedIsAtomic == Spec => Promised!Init /\ [][Promised!Next]_(Promised!vars)
<1> DEFINE Inv == Disturbed \/ SerialInv
<1>1. Init => Inv
  BY SerialStarts
<1>2. TypeOK /\ Inv /\ [Next]_vars => (TypeOK /\ Inv)'
  BY TypeStep, SerialStep, StaysDisturbed
<1>3. TypeOK /\ TypeOK' /\ Inv /\ [Next]_vars => [Promised!Next]_(Promised!vars)
  BY PromisedStep, DisturbedStep, StaysDisturbed
<1> QED BY TypeInit, PromisedInit, <1>1, <1>2, <1>3, PTL DEF Spec

-----------------------------------------------------------------------------
Before == {"args", "prerun", "help", "stat", "parse", "catalog", "stats", "versions", "scaffold"}

(* Where an invocation may be with which command line.  A wrong line of the *)
(* root command gets no further than PreRunE.                               *)
OnTheWay ==
    /\ phase \in Before \union {"render", "done"}
    /\ phase \in {"prerun", "help", "stat", "parse", "catalog"} => line.cmd = "root"
    /\ phase \in {"stats", "versions", "scaffold"} => line.cmd # "root"
    /\ phase \in {"args", "prerun"} => format = (IF line.format = "unset" THEN "flat" ELSE line.format)
    /\ phase = "prerun" => ~line.unknownFlag /\ ~(line.args > 1)
    /\ phase \in {"help", "stat", "parse", "catalog", "render"} /\ line.cmd = "root" => ~WrongLine
    /\ phase = "help" => line.args = 0

(* Before there is a report, nothing is printed and nothing resolved.       *)
NothingYet ==
    phase \in Before => doc = <<>> /\ out = <<>> /\ next = 0 /\ ~latched /\ options = None

(* Names of sections.                                                       *)
Words == {"header", "table", "footer", "permissions", "document", "summary", "warnings",
          "unknowns", "unresolved"}

(* Every section so far reached stdout, in order, unless the writer holds   *)
(* an error; then only the first of them did.                               *)
Printed ==
    doc # <<>> \/ phase # "done" =>
        /\ doc \in Seq(Words) /\ out \in Seq(Words)
        /\ next \in 0 .. Len(doc)
        /\ Len(out) <= next
        /\ ~latched => Len(out) = next
        /\ \A k \in 1 .. Len(out) : out[k] = doc[k]
        /\ phase = "render" => doc # <<>>

(* The delete flag as PreRunE finds and leaves it.                          *)
DeleteFlag ==
    /\ phase \in {"args", "prerun"} => includeDelete = (line.include # "false")
    /\ phase \in {"help", "stat", "parse", "catalog"} =>
         includeDelete = (line.include # "false" /\ line.exclude # "true")

Deletes == line \in CommandLines /\ DeleteFlag /\ DeleteAsAsked

CliInv == line \in CommandLines /\ OnTheWay /\ NothingYet /\ Printed

-----------------------------------------------------------------------------
(* A command line has at most two arguments, and flags.                     *)
LEMMA LineType ==
    ASSUME line \in CommandLines
    PROVE  line.args \in 0 .. 2 /\ line.unknownFlag \in BOOLEAN /\ line.cmd \in Commands
           /\ line.cmd \in {"root", "stats", "versions", "scaffold"}
BY CommandsAssumption DEF CommandLines, Lines

(* Every report has a section.                                              *)
LEMMA DocumentType == Document \in Seq(Words) /\ Document # <<>>
<1>1. <<"summary", "permissions", "warnings">> \in Seq(Words)
  BY DEF Words
<1>2. Findings \in Seq(Words)
  <2>1. CASE line.quiet
    BY <2>1 DEF Findings, Words
  <2>2. CASE ~line.quiet
    BY <2>2 DEF Findings, Words
  <2> QED BY <2>1, <2>2
<1>3. /\ <<"summary", "permissions", "warnings">> \o Findings \in Seq(Words)
      /\ Len(<<"summary", "permissions", "warnings">> \o Findings) = 3 + Len(Findings)
      /\ Len(Findings) \in Nat
  BY <1>1, <1>2
<1>4. <<"summary", "permissions", "warnings">> \o Findings # <<>>
  BY <1>3
<1>5. /\ <<"header", "table", "footer">> \in Seq(Words)
      /\ <<"header", "permissions">> \in Seq(Words)
      /\ <<"document">> \in Seq(Words)
  BY DEF Words
<1> QED BY <1>3, <1>4, <1>5 DEF Document

(* An invocation starts with its arguments.                                 *)
LEMMA CliStarts == CliInit => CliInv /\ Deletes
BY DEF CliInit, CliInv, OnTheWay, NothingYet, Printed, Before, Deletes, DeleteFlag, DeleteAsAsked

-----------------------------------------------------------------------------
(* The delete flags: PreRun combines them, and only Resolve reads the       *)
(* combination.                                                             *)
LEMMA DeletesStep == Deletes /\ [CliNext]_cvars => Deletes'
<1> SUFFICES ASSUME Deletes, [CliNext]_cvars PROVE Deletes'
  OBVIOUS
<1>1. CASE UNCHANGED cvars
  BY <1>1 DEF cvars, Deletes, DeleteFlag, DeleteAsAsked
<1>2. CASE PreRun
  BY <1>2 DEF PreRun, ExcludeAsked, Deletes, DeleteFlag, DeleteAsAsked
<1>3. CASE Resolve
  <2>1. options' = [ExcludeDelete |-> ~includeDelete] /\ phase' = "render" /\ line' = line
    BY <1>3 DEF Resolve
  <2>2. options'.ExcludeDelete = ~includeDelete
    BY <2>1
  <2>3. includeDelete = (line.include # "false" /\ line.exclude # "true")
    BY <1>3 DEF Resolve, Deletes, DeleteFlag
  <2>4. DeleteAsAsked'
    BY <2>1, <2>2, <2>3 DEF DeleteAsAsked
  <2> QED BY <2>1, <2>4 DEF Deletes, DeleteFlag
<1>4. CASE AcceptArgs
  <2>1. UNCHANGED <<line, includeDelete, options>>
        /\ phase = "args" /\ phase' \in {"prerun", "stats", "versions", "scaffold"} \union {line.cmd}
        /\ (line.cmd = "root" => phase' = "prerun") /\ (line.cmd # "root" => phase' = line.cmd)
        /\ line.cmd \in {"root", "stats", "versions", "scaffold"}
    BY <1>4, LineType DEF AcceptArgs, Proceed, Deletes
  <2> QED BY <2>1 DEF Deletes, DeleteFlag, DeleteAsAsked
<1>5. CASE StatOk \/ LoadRecursiveOk
  BY <1>5 DEF StatOk, LoadRecursiveOk, Proceed, Deletes, DeleteFlag, DeleteAsAsked
<1>6. CASE Aggregate \/ WriteSection
  BY <1>6 DEF Aggregate, WriteSection, Deletes, DeleteFlag, DeleteAsAsked
<1>7. CASE \/ RejectArgs \/ RejectFlags \/ Help \/ StatFails \/ LoadRecursiveFails \/ CatalogFails
           \/ RenderFails \/ RenderOk \/ ScaffoldFails \/ RunScaffold \/ Panic
  <2>1. UNCHANGED <<line, options>> /\ phase' = "done"
    BY <1>7 DEF RejectArgs, RejectFlags, Help, StatFails, LoadRecursiveFails, CatalogFails,
                RenderFails, RenderOk, ScaffoldFails, RunScaffold, Panic, Fail, Exit
  <2> QED BY <2>1 DEF Deletes, DeleteFlag, DeleteAsAsked
<1> QED BY <1>1, <1>2, <1>3, <1>4, <1>5, <1>6, <1>7 DEF CliNext

(***************************************************************************)
(* PreRunE and runAnalyze: delete permissions are left out exactly if one  *)
(* of the two flags asks for it, whatever else is on the command line.     *)
(***************************************************************************)
THEOREM DeletesAsAsked == CliSpec => []DeleteAsAsked
<1>1. Deletes => DeleteAsAsked
  BY DEF Deletes
<1> QED BY CliStarts, DeletesStep, <1>1, PTL DEF CliSpec

-----------------------------------------------------------------------------
(* What PreRunE and cobra refuse is exactly a wrong command line.           *)
LEMMA RefusedIsWrong ==
    ASSUME line \in CommandLines, line.cmd = "root",
           format = (IF line.format = "unset" THEN "flat" ELSE line.format)
    PROVE  /\ ~ArgsFit <=> line.unknownFlag \/ line.args > 1
           /\ ~ArgsFit => WrongLine
           /\ ~validateFormatFlags \/ FormatsClash => WrongLine
           /\ ArgsFit /\ validateFormatFlags /\ ~FormatsClash => ~WrongLine
<1>1. /\ line.args \in 0 .. 2 /\ line.unknownFlag \in BOOLEAN /\ line.byResource \in BOOLEAN
      /\ line.format \in Formats \union {"unset", "yaml"}
  BY DEF CommandLines, Lines
<1>2. ArgsFit <=> ~line.unknownFlag /\ ~(line.args > 1)
  BY <1>1 DEF ArgsFit
<1>3. ~validateFormatFlags => line.format = "yaml" \/ (line.format = "role" /\ line.roleName # "good")
  BY <1>1 DEF validateFormatFlags, Formats
<1>4. validateFormatFlags => line.format # "yaml" /\ (line.format = "role" => line.roleName = "good")
  BY <1>1 DEF validateFormatFlags, Formats
<1>5. FormatsClash <=> line.byResource /\ line.format \in (Formats \union {"yaml"}) \ {"by-resource"}
  BY <1>1 DEF FormatsClash, Formats
<1> QED BY <1>1, <1>2, <1>3, <1>4, <1>5 DEF WrongLine

(* The steps before there is a report.                                      *)
LEMMA EarlySteps ==
    ASSUME CliInv,
           \/ AcceptArgs \/ PreRun \/ StatOk \/ LoadRecursiveOk
    PROVE  CliInv'
<1>1. NothingYet' /\ Printed' /\ line' = line /\ phase' \in Before
  <2>1. UNCHANGED <<line, doc, out, next, latched, options>> /\ phase \in Before
    BY DEF AcceptArgs, PreRun, StatOk, LoadRecursiveOk, Proceed, Before
  <2>2. line.cmd \in {"root", "stats", "versions", "scaffold"}
    BY LineType DEF CliInv
  <2>3. phase' \in Before
    <3>1. CASE AcceptArgs
      BY <3>1, <2>2 DEF AcceptArgs, Proceed, Before
    <3>2. CASE PreRun
      BY <3>2 DEF PreRun, Before
    <3>3. CASE StatOk \/ LoadRecursiveOk
      BY <3>3 DEF StatOk, LoadRecursiveOk, Proceed, Before
    <3> QED BY <3>1, <3>2, <3>3
  <2>4. doc = <<>> /\ out = <<>> /\ next = 0 /\ ~latched /\ options = None
    BY <2>1 DEF CliInv, NothingYet
  <2> QED BY <2>1, <2>3, <2>4 DEF NothingYet, Printed, Before, Words
<1>2. OnTheWay'
  <2>1. CASE AcceptArgs
    <3>1. UNCHANGED <<line, format>> /\ phase = "args" /\ ArgsFit
          /\ (line.cmd = "root" => phase' = "prerun") /\ (line.cmd # "root" => phase' = line.cmd)
      BY <2>1 DEF AcceptArgs, Proceed
    <3>2. line.cmd \in {"root", "stats", "versions", "scaffold"}
      BY LineType DEF CliInv
    <3>3. format = (IF line.format = "unset" THEN "flat" ELSE line.format)
      BY <3>1 DEF CliInv, OnTheWay
    <3>4. line.cmd = "root" => ~line.unknownFlag /\ ~(line.args > 1)
      BY <3>1, <3>3, RefusedIsWrong DEF CliInv
    <3>5. CASE line.cmd = "root"
      BY <3>1, <3>3, <3>4, <3>5 DEF OnTheWay, Before
    <3>6. CASE line.cmd # "root"
      BY <3>1, <3>2, <3>6 DEF OnTheWay, Before
    <3> QED BY <3>5, <3>6
  <2>2. CASE PreRun
    <3>1. /\ line' = line /\ phase = "prerun" /\ validateFormatFlags /\ ~FormatsClash
          /\ (line.args = 0 => phase' = "help") /\ (line.args # 0 => phase' = "stat")
      BY <2>2 DEF PreRun
    <3>2. line.cmd = "root" /\ ~WrongLine
      BY <3>1, RefusedIsWrong DEF CliInv, OnTheWay
    <3>3. WrongLine' <=> WrongLine
      BY <3>1 DEF WrongLine
    <3> QED BY <3>1, <3>2, <3>3 DEF OnTheWay, Before
  <2>3. CASE StatOk \/ LoadRecursiveOk
    <3>1. /\ line' = line /\ phase \in {"stat", "parse"} /\ phase' \in {"parse", "catalog"}
      BY <2>3 DEF StatOk, LoadRecursiveOk, Proceed
    <3>2. line.cmd = "root" /\ ~WrongLine
      BY <3>1 DEF CliInv, OnTheWay
    <3>3. WrongLine' <=> WrongLine
      BY <3>1 DEF WrongLine
    <3> QED BY <3>1, <3>2, <3>3 DEF OnTheWay, Before
  <2> QED BY <2>1, <2>2, <2>3
<1> QED BY <1>1, <1>2 DEF CliInv

(* The report is made, then written section by section.                     *)
LEMMA ReportSteps ==
    ASSUME CliInv, Resolve \/ Aggregate \/ WriteSection
    PROVE  CliInv'
<1>1. OnTheWay' /\ NothingYet' /\ line' = line
  <2>1. line' = line /\ phase' = "render" /\ phase \in {"catalog", "stats", "versions", "render"}
    BY DEF Resolve, Aggregate, WriteSection
  <2>2. WrongLine' <=> WrongLine
    BY <2>1 DEF WrongLine
  <2>3. line.cmd = "root" => ~WrongLine
    BY <2>1 DEF CliInv, OnTheWay
  <2> QED BY <2>1, <2>2, <2>3 DEF OnTheWay, NothingYet, Before
<1>2. CASE Resolve \/ Aggregate
  <2>1. /\ doc' = Document /\ UNCHANGED <<next, out, latched>> /\ phase \in Before
    BY <1>2 DEF Resolve, Aggregate, Before
  <2>2. out = <<>> /\ next = 0 /\ ~latched
    BY <2>1 DEF CliInv, NothingYet
  <2>3. doc' \in Seq(Words) /\ doc' # <<>>
    BY <2>1, DocumentType
  <2>4. Printed'
    BY <2>1, <2>2, <2>3 DEF Printed
  <2> QED BY <1>1, <2>4 DEF CliInv
<1>3. CASE WriteSection
  <2>1. /\ doc \in Seq(Words) /\ out \in Seq(Words) /\ next \in 0 .. Len(doc) /\ Len(out) <= next
        /\ ~latched => Len(out) = next
        /\ \A k \in 1 .. Len(out) : out[k] = doc[k]
        /\ doc # <<>>
    BY <1>3 DEF WriteSection, CliInv, Printed
  <2>2. /\ doc' = doc /\ next' = next + 1 /\ next < Len(doc) /\ phase' = phase /\ phase = "render"
    BY <1>3 DEF WriteSection
  <2>3. next' \in 0 .. Len(doc)
    BY <2>1, <2>2
  <2>4. CASE ~latched /\ out' = Append(out, doc[next + 1]) /\ UNCHANGED latched
    <3>1. doc[next + 1] \in Words
      BY <2>1, <2>2
    <3>2. /\ out' \in Seq(Words) /\ Len(out') = next + 1
      BY <2>1, <2>4, <3>1
    <3>3. \A k \in 1 .. Len(out') : out'[k] = doc[k]
      BY <2>1, <2>4, <3>1, <3>2
    <3> QED BY <1>1, <2>1, <2>2, <2>3, <2>4, <3>2, <3>3 DEF CliInv, Printed
  <2>5. CASE out' = out /\ latched'
    <3>1. ~~latched'
      BY <2>5, Zenon
    <3>2. Printed'
      BY <2>1, <2>2, <2>3, <2>5, <3>1 DEF Printed
    <3> QED BY <1>1, <3>2 DEF CliInv
  <2>6. \/ ~latched /\ out' = Append(out, doc[next + 1]) /\ UNCHANGED latched
        \/ latched' = TRUE /\ out' = out
        \/ latched /\ out' = out /\ latched' = latched
    BY <1>3, Zenon DEF WriteSection, ShortCircuits
  <2>7. latched /\ latched' = latched => latched'
    BY SMT
  <2>8. latched' = TRUE => latched'
    BY Zenon
  <2> QED BY <2>4, <2>5, <2>6, <2>7, <2>8, Zenon
<1> QED BY <1>2, <1>3

(* The ends leave the report alone; only a command that has none prints on. *)
LEMMA EndSteps ==
    ASSUME CliInv,
           \/ RejectArgs \/ RejectFlags \/ Help \/ StatFails \/ LoadRecursiveFails \/ CatalogFails
           \/ RenderFails \/ RenderOk \/ ScaffoldFails \/ RunScaffold \/ Panic
    PROVE  CliInv'
<1>1. /\ UNCHANGED <<line, doc, next, latched>> /\ phase' = "done" /\ phase # "done"
  BY DEF RejectArgs, RejectFlags, Help, StatFails, LoadRecursiveFails, CatalogFails,
         RenderFails, RenderOk, ScaffoldFails, RunScaffold, Panic, Fail, Exit
<1>2. CASE Help \/ RunScaffold
  <2>1. doc = <<>>
    BY <1>2 DEF Help, RunScaffold, CliInv, NothingYet, Before
  <2> QED BY <1>1, <2>1 DEF CliInv, OnTheWay, NothingYet, Printed, Before
<1>3. CASE out' = out
  BY <1>1, <1>3 DEF CliInv, OnTheWay, NothingYet, Printed, Before
<1> QED BY <1>2, <1>3 DEF RejectArgs, RejectFlags, Help, StatFails, LoadRecursiveFails,
         CatalogFails, RenderFails, RenderOk, ScaffoldFails, RunScaffold, Panic, Fail

(* The invariant holds after every step.                                    *)
LEMMA CliStep == CliInv /\ [CliNext]_cvars => CliInv'
<1> SUFFICES ASSUME CliInv, [CliNext]_cvars PROVE CliInv'
  OBVIOUS
<1>1. CASE UNCHANGED cvars
  <2>1. UNCHANGED WrongLine
    BY <1>1 DEF cvars, WrongLine
  <2> QED BY <1>1, <2>1 DEF cvars, CliInv, OnTheWay, NothingYet, Printed
<1>2. CASE \/ AcceptArgs \/ PreRun \/ StatOk \/ LoadRecursiveOk
  BY <1>2, EarlySteps
<1>3. CASE Resolve \/ Aggregate \/ WriteSection
  BY <1>3, ReportSteps
<1>4. CASE \/ RejectArgs \/ RejectFlags \/ Help \/ StatFails \/ LoadRecursiveFails \/ CatalogFails
           \/ RenderFails \/ RenderOk \/ ScaffoldFails \/ RunScaffold \/ Panic
  BY <1>4, EndSteps
<1> QED BY <1>1, <1>2, <1>3, <1>4 DEF CliNext

(***************************************************************************)
(* errWriter: stdout holds a beginning of the report at every moment,      *)
(* whichever writes fail and come back.                                    *)
(***************************************************************************)
THEOREM StdoutHasNoHoles == CliSpec => []NoHoles
<1>1. CliInv => NoHoles
  <2> SUFFICES ASSUME CliInv, doc # <<>> PROVE IsPrefix(out, doc)
    BY DEF NoHoles
  <2>1. /\ doc \in Seq(Words) /\ out \in Seq(Words) /\ next \in 0 .. Len(doc) /\ Len(out) <= next
        /\ \A k \in 1 .. Len(out) : out[k] = doc[k]
    BY DEF CliInv, Printed
  <2>2. Len(out) \in Nat /\ Len(doc) \in Nat /\ Len(out) <= Len(doc)
    BY <2>1
  <2>3. SubSeq(out, 1, Len(out)) = SubSeq(doc, 1, Len(out))
    BY <2>1, <2>2
  <2> QED BY <2>2, <2>3 DEF IsPrefix
<1> QED BY CliStarts, CliStep, <1>1, PTL DEF CliSpec

-----------------------------------------------------------------------------
(* Whichever way an invocation ends, its code fits.                         *)
LEMMA CodeStep == CliInv /\ ExitCodeTells /\ [CliNext]_cvars => ExitCodeTells'
<1> SUFFICES ASSUME CliInv, ExitCodeTells, [CliNext]_cvars, phase' = "done", line'.cmd = "root"
             PROVE  /\ code' = 1 => WrongLine' /\ out' = <<>> /\ options' = None
                    /\ code' = 0 => ~WrongLine' /\ (Whole' \/ line'.args = 0)
                    /\ WrongLine' => code' \in {1, 2}
                    /\ ~WrongLine' /\ latched' => code' = 2
  BY DEF ExitCodeTells
<1>1. CASE UNCHANGED cvars
  <2>1. UNCHANGED WrongLine /\ UNCHANGED Whole
    BY <1>1 DEF cvars, WrongLine, Whole
  <2> QED BY <1>1, <2>1 DEF cvars, ExitCodeTells
<1>2. CASE RejectArgs \/ RejectFlags
  <2>1. /\ code' = 1 /\ UNCHANGED <<line, out, options, latched>> /\ phase \in {"args", "prerun"}
        /\ ~ArgsFit \/ ~validateFormatFlags \/ FormatsClash
    BY <1>2 DEF RejectArgs, RejectFlags, Fail, Exit, Classify
  <2>2. WrongLine
    BY <2>1, RefusedIsWrong DEF CliInv, OnTheWay
  <2>3. WrongLine' <=> WrongLine
    BY <2>1 DEF WrongLine
  <2>4. out = <<>> /\ options = None
    BY <2>1 DEF CliInv, NothingYet, Before
  <2> QED BY <2>1, <2>2, <2>3, <2>4
<1>3. CASE Help
  <2>1. code' = 0 /\ UNCHANGED <<line, latched>> /\ phase = "help"
    BY <1>3 DEF Help, Exit
  <2>2. ~WrongLine /\ line.args = 0 /\ ~latched
    BY <2>1 DEF CliInv, OnTheWay, NothingYet, Before
  <2>3. WrongLine' <=> WrongLine
    BY <2>1 DEF WrongLine
  <2> QED BY <2>1, <2>2, <2>3
<1>4. CASE RenderOk
  <2>1. code' = 0 /\ UNCHANGED <<line, latched, out, doc>> /\ phase = "render" /\ next = Len(doc) /\ ~latched
    BY <1>4 DEF RenderOk, Exit
  <2>2. ~WrongLine
    BY <2>1 DEF CliInv, OnTheWay
  <2>3. WrongLine' <=> WrongLine
    BY <2>1 DEF WrongLine
  <2>4. /\ doc \in Seq(Words) /\ out \in Seq(Words) /\ Len(out) = Len(doc)
        /\ \A k \in 1 .. Len(out) : out[k] = doc[k]
        /\ doc # <<>>
    BY <2>1 DEF CliInv, Printed
  <2>5. out = doc
    BY <2>4
  <2> QED BY <2>1, <2>2, <2>3, <2>4, <2>5 DEF Whole
<1>5. CASE StatFails \/ LoadRecursiveFails \/ CatalogFails \/ RenderFails \/ Panic
  <2>1. code' = 2
    BY <1>5 DEF StatFails, LoadRecursiveFails, CatalogFails, RenderFails, Panic, Fail, Exit, Classify
  <2> QED BY <2>1
<1>6. CASE ScaffoldFails \/ RunScaffold
  <2>1. phase = "scaffold" /\ line' = line
    BY <1>6 DEF ScaffoldFails, RunScaffold, Fail
  <2> QED BY <2>1 DEF CliInv, OnTheWay
<1>7. CASE \/ AcceptArgs \/ PreRun \/ StatOk \/ LoadRecursiveOk \/ Resolve \/ Aggregate \/ WriteSection
  <2>1. phase' # "done"
    <3>1. CASE AcceptArgs
      BY <3>1, LineType DEF AcceptArgs, Proceed, CliInv
    <3>2. CASE \/ PreRun \/ StatOk \/ LoadRecursiveOk \/ Resolve \/ Aggregate \/ WriteSection
      BY <3>2 DEF PreRun, StatOk, LoadRecursiveOk, Resolve, Aggregate, WriteSection, Proceed
    <3> QED BY <1>7, <3>1, <3>2
  <2> QED BY <2>1
<1> QED BY <1>1, <1>2, <1>3, <1>4, <1>5, <1>6, <1>7 DEF CliNext

(***************************************************************************)
(* run and runAnalyze: the exit code tells what happened, for every        *)
(* command line and every point of failure.                                *)
(***************************************************************************)
THEOREM ExitCodeAlwaysTells == CliSpec => []ExitCodeTells
<1>1. CliInit => ExitCodeTells
  BY DEF CliInit, ExitCodeTells
<1>2. CliInv /\ ExitCodeTells /\ [CliNext]_cvars => (CliInv /\ ExitCodeTells)'
  BY CliStep, CodeStep
<1> QED BY CliStarts, <1>1, <1>2, PTL DEF CliSpec
=============================================================================
