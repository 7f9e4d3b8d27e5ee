--------------------------- MODULE CatalogEntries ---------------------------
(***************************************************************************)
(* What a file of catalog/ may hold and how it is read and extended:       *)
(* internal/catalog/loader.go's rawFile and the functions of scaffold.go   *)
(* that work on one text.  A text is abstracted to its top-level headings  *)
(* and, under each, the Terraform types in the order they are declared.    *)
(***************************************************************************)
EXTENDS Naturals, Sequences, SequencesExt

CONSTANTS
    Type,       \* Terraform types, of one service: all go to one file
    Section,    \* the headings rawFile knows
    Stray,      \* a heading it does not know
    Absent,     \* there is no such file
    Blank,      \* nothing but white space, or nothing at all
    Garbled     \* text that is not one YAML mapping, a torn one for instance

(* What stands under a heading: a mapping, null, or something else.         *)
Heading(entries) == [kind |-> "map", entries |-> entries]
Null == [kind |-> "null", entries |-> <<>>]
List == [kind |-> "other", entries |-> <<>>]

IsDocument(c) == c \notin {Absent, Blank, Garbled}
IsEmpty(c) == c \in {Absent, Blank}

Headings == [kind: {"map", "null", "other"}, entries: Seq(Type)]

(* Only a mapping has entries.                                              *)
IsContents(c) ==
    IsDocument(c) =>
        /\ DOMAIN c \subseteq Section \union {Stray} /\ c \in [DOMAIN c -> Headings]
        /\ \A h \in DOMAIN c : c[h].kind # "map" => c[h].entries = <<>>

ASSUME SectionAssumption == Stray \notin Section
ASSUME MarkersAssumption ==
    \A D \in SUBSET (Section \union {Stray}) : \A c \in {Absent, Blank, Garbled} : c \notin [D -> Headings]

-----------------------------------------------------------------------------
(* The strict decoder: known headings only, each a mapping or null, no key  *)
(* twice.                                                                   *)
Decodes(c) ==
    /\ IsDocument(c)
    /\ DOMAIN c \subseteq Section
    /\ \A h \in DOMAIN c : c[h].kind # "other" /\ IsInjective(c[h].entries)

Entries(c) ==
    IF IsDocument(c)
    THEN UNION {{[section |-> h, type |-> t] : t \in ToSet(c[h].entries)} : h \in DOMAIN c}
    ELSE {}

(* Mutant: a stub of any section goes under the resources heading.          *)
Stub_Resources(q) == [h \in {"resources"} |-> Heading(<<q.type>>)]

(* GenerateStub: one heading with one entry.                                *)
Stub(q) == [h \in {q.section} |-> Heading(<<q.type>>)]

(* Mutant: what stands under the heading is not looked at.                  *)
CanMerge_AnyKind(c, q) == IsDocument(c)

(* mergeIntoDocument wants a mapping at the root and under the heading, if  *)
(* that is there; nothing else is looked at, duplicates included.           *)
CanMerge(c, q) == IsDocument(c) /\ (q.section \in DOMAIN c => c[q.section].kind = "map")

(* Mutant: the heading is written anew.                                     *)
Merged_Fresh(c, q) ==
    [h \in DOMAIN c \union {q.section} |-> IF h = q.section THEN Heading(<<q.type>>) ELSE c[h]]

(* The new entry comes last under its heading.                              *)
Merged(c, q) ==
    [h \in DOMAIN c \union {q.section} |->
        IF h # q.section THEN c[h]
        ELSE IF h \notin DOMAIN c THEN Heading(<<q.type>>)
        ELSE [c[h] EXCEPT !.entries = Append(@, q.type)]]
=============================================================================
