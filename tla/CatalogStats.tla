----------------------------- MODULE CatalogStats -----------------------------
(***************************************************************************)
(* The commands `catalog stats' and `catalog versions': internal/catalog/  *)
(* stats.go, ComputeStats, and versions.go, AggregateVersions, on the      *)
(* catalog that Load returned.  Both walk Go maps, whose order changes     *)
(* from run to run, and sort what they have gathered with an unstable      *)
(* sort; so their tables are those of one catalog only if no order shows.  *)
(*                                                                         *)
(* Abstractions.  Each table has a walk of its own in the code; no table   *)
(* depends on another, and here they share one.  A position is its file,   *)
(* as a type has one line in a file, and a service is a file's name.       *)
(* Drifting entries are Drift's business.                                  *)
(***************************************************************************)
EXTENDS CatalogLoad

CONSTANT oldestVerifiedLimit    \* how many of the oldest entries are listed

ASSUME LimitAssumption == oldestVerifiedLimit \in Nat

VARIABLES
    spc,        \* "idle", "walk" over the entries or "done"
    left,       \* the entries still to visit
    services,   \* map: file -> [total, empirical, docsSource]
    counts,     \* map: constraint -> number of entries
    aging,      \* entries in the order they are visited, then the oldest
    missing,    \* fields that still hold TODO, in that order, then sorted
    groups      \* the census, a sequence of [constraint, count]

svars == <<spc, left, services, counts, aging, missing, groups>>

-----------------------------------------------------------------------------
LexicalSections == <<"data_sources", "iam_bindings", "resources">>
Rank(word, words) == CHOOSE i \in DOMAIN words : words[i] = word

(* The names of fields as MissingProvenance prints them, in lexical order.  *)
FieldNames ==
    <<"parent_resource", "create", "delete", "plan", "update", "tested_against_provider",
      "method", "source_urls", "verified_at", "verified_provider_version">>

(* Mutant: ties of the date are left as they are.                           *)
Older_DateOnly(a, b) == LexLess(<<a.at>>, <<b.at>>)

(* Older first; ties break on section, type and position.                   *)
Older(a, b) ==
    LexLess(<<a.at, Rank(a.section, LexicalSections), a.type, a.file>>,
            <<b.at, Rank(b.section, LexicalSections), b.type, b.file>>)

Zero == 48                  \* the codes of "0" and of "]"
ClosingBracket == 93

(* The decimal digits of a number, as character codes.                      *)
Decimal[n \in Nat] == IF n < 10 THEN <<Zero + n>> ELSE Append(Decimal[n \div 10], Zero + (n % 10))

(* What is printed behind "[" after the name of a list: plan[10] comes      *)
(* before plan[2], for fields are sorted as they are printed.  The name of  *)
(* no field begins with that of another.                                    *)
PlaceText(index) == IF index = 0 THEN <<>> ELSE Append(Decimal[index - 1], ClosingBracket)

FieldKey(a) == <<Rank(a.field, FieldNames)>> \o PlaceText(a.index)
IssueKey(a) == <<Rank(a.section, LexicalSections), a.type>> \o FieldKey(a)

IssueLess(a, b) == LexLess(IssueKey(a), IssueKey(b))

(* The busiest constraints first; ties break on the constraint.             *)
GroupLess(a, b) == a.count > b.count \/ (a.count = b.count /\ a.constraint < b.constraint)

-----------------------------------------------------------------------------
StatsInit ==
    /\ Init
    /\ spc = "idle" /\ left = {}
    /\ services = <<>> /\ counts = <<>> /\ aging = <<>> /\ missing = <<>> /\ groups = <<>>

Load == Next /\ UNCHANGED svars

(* Without a catalog there is nothing to report.                            *)
StartWalk ==
    /\ spc = "idle" /\ pc = "done" /\ result.ok
    /\ left' = DOMAIN result.catalog
    /\ spc' = "walk"
    /\ UNCHANGED <<vars, services, counts, aging, missing, groups>>

Add(m, k, n) == Put(m, k, (IF k \in DOMAIN m THEN m[k] ELSE 0) + n)

(* computeServiceStats, of one entry.                                       *)
CountService(file, method) ==
    LET row == IF file \in DOMAIN services THEN services[file] ELSE [total |-> 0, empirical |-> 0, docsSource |-> 0]
    IN  Put(services, file,
            [total |-> row.total + 1,
             empirical |-> row.empirical + (IF method = "empirical" THEN 1 ELSE 0),
             docsSource |-> row.docsSource + (IF method = "docs+source" THEN 1 ELSE 0)])

(* Mutant: only what holds for reading is looked through.                   *)
TodoAt_PlanOnly(e, f) ==
    IF f \in {"create", "update", "delete"} THEN {}
    ELSE IF f \in Lists THEN {i \in DOMAIN e[f] : e[f][i] = Todo}
    ELSE IF e[f] = Todo THEN {0} ELSE {}

(* Where a field holds the sentinel: places in a list, or 0 for a string.   *)
TodoAt(e, f) ==
    IF f \in Lists THEN {i \in DOMAIN e[f] : e[f][i] = Todo}
    ELSE IF e[f] = Todo THEN {0} ELSE {}

(* computeMissingProvenance, of one entry; conditionals are not looked at.  *)
Issues(k, e) ==
    SetToSeq(UNION {{[section |-> k.section, type |-> k.type, field |-> f, index |-> i, file |-> firstSeen[k]] :
                        i \in TodoAt(e, f)} : f \in Fields(k.section)})

(* The maps one after the other, each in any order.                         *)
NextOf(k) == \A j \in left : Rank(k.section, Sections) <= Rank(j.section, Sections)

Visit ==
    /\ spc = "walk"
    /\ \E k \in left :
         LET e == result.catalog[k]
         IN  /\ NextOf(k)
             /\ left' = left \ {k}
             /\ services' = CountService(firstSeen[k], e.method)
             /\ counts' = Add(counts, e.tested_against_provider, 1)
             /\ aging' = Append(aging, [section |-> k.section, type |-> k.type, at |-> e.verified_at, file |-> firstSeen[k]])
             /\ missing' = missing \o Issues(k, e)
    /\ UNCHANGED <<vars, spc, groups>>

(* The tables are sorted, and that of the oldest is cut.                    *)
Sort ==
    /\ spc = "walk" /\ left = {}
    /\ LET sorted == SortedBy(aging, Older)
       IN  aging' = IF Len(sorted) > oldestVerifiedLimit THEN SubSeq(sorted, 1, oldestVerifiedLimit) ELSE sorted
    /\ missing' = SortedBy(missing, IssueLess)
    /\ groups' = SortedBy(SetToSeq({[constraint |-> c, count |-> counts[c]] : c \in DOMAIN counts}), GroupLess)
    /\ spc' = "done"
    /\ UNCHANGED <<vars, left, services, counts>>

StatsNext == Load \/ StartWalk \/ Visit \/ Sort

StatsSpec == StatsInit /\ [][StatsNext]_<<vars, svars>> /\ WF_<<vars, svars>>(StatsNext)

-----------------------------------------------------------------------------
Entries == DOMAIN result.catalog
Sum(f) == FoldFunction(+, 0, f)

(***************************************************************************)
(* The tables are those of the catalog, in whatever order its maps were    *)
(* walked: every entry counts once for its service ("Empirical +           *)
(* DocsSource sum to Total") and once in the census ("the sum of Count     *)
(* equals TotalResources + TotalDataSources + TotalIAMBindings"); the      *)
(* oldest are listed in the one order of date, section and type, and none  *)
(* that is left out comes before one that is listed.                       *)
(***************************************************************************)
TablesExact ==
    spc = "done" =>
        /\ DOMAIN services = {firstSeen[k] : k \in Entries}
        /\ Sum([n \in DOMAIN services |-> services[n].total]) = Cardinality(Entries)
        /\ \A n \in DOMAIN services :
             /\ services[n].empirical + services[n].docsSource = services[n].total
             /\ services[n].total = Cardinality({k \in Entries : firstSeen[k] = n})
        /\ \A i \in DOMAIN groups :
             groups[i].count = Cardinality({k \in Entries : result.catalog[k].tested_against_provider = groups[i].constraint})
        /\ Sum([i \in DOMAIN groups |-> groups[i].count]) = Cardinality(Entries)
        /\ \A i, j \in DOMAIN groups : i < j =>
             /\ groups[i].count >= groups[j].count
             /\ groups[i].count = groups[j].count => groups[i].constraint < groups[j].constraint
        /\ \A k \in Entries :
             \/ \E i \in DOMAIN aging : aging[i].section = k.section /\ aging[i].type = k.type
             \/ /\ Len(aging) = oldestVerifiedLimit
                /\ \A i \in DOMAIN aging :
                     LexLess(<<aging[i].at, Rank(aging[i].section, LexicalSections), aging[i].type>>,
                             <<result.catalog[k].verified_at, Rank(k.section, LexicalSections), k.type>>)
        /\ \A i, j \in DOMAIN aging : i < j =>
             LexLess(<<aging[i].at, Rank(aging[i].section, LexicalSections), aging[i].type>>,
                     <<aging[j].at, Rank(aging[j].section, LexicalSections), aging[j].type>>)

(***************************************************************************)
(* What scaffold wrote and nobody replaced is noticed.  Each field of an   *)
(* entry that is still as in GenerateStub keeps the catalog from loading,  *)
(* or stands in the table of missing provenance; and what stands there is  *)
(* such a field.                                                           *)
(***************************************************************************)
LeftAsStub(k, f) == result.catalog[k][f] = GenerateStub(k.section)[f]

PlaceholdersNoticed ==
    spc = "done" =>
        /\ \A k \in Entries : \A f \in Fields(k.section) :
             LeftAsStub(k, f) => \E i \in DOMAIN missing :
                 missing[i].section = k.section /\ missing[i].type = k.type /\ missing[i].field = f
        /\ \A i \in DOMAIN missing :
             LET held == result.catalog[[section |-> missing[i].section, type |-> missing[i].type]][missing[i].field]
             IN  held = Todo \/ (missing[i].field \in Lists /\ Todo \in ToSet(held))
        /\ \A i, j \in DOMAIN missing : i < j => IssueLess(missing[i], missing[j])
=============================================================================
