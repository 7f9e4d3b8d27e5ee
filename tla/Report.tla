------------------------------- MODULE Report -------------------------------
(***************************************************************************)
(* internal/reporter on what Resolve returned: Canonicalize puts the rows  *)
(* in order, groupByType goes through them one by one and gathers a group  *)
(* for every Terraform type, and unionResourcePerms flattens them for the  *)
(* JSON report.                                                            *)
(*                                                                         *)
(* Abstractions.  Lexical order is given by the constants below.  A when:  *)
(* clause as text is its rank among texts, so that two clauses that read   *)
(* the same (true and "true") have one rank.  Lists of permissions and the *)
(* list of groups are sets: they are sorted by name before they are shown. *)
(***************************************************************************)
EXTENDS Resolver, SortedKeys

CONSTANTS
    BlockRank,      \* the order of blocks by (File, Line, Type, Name)
    NameRank,       \* the order of call names
    serialiseWhen   \* when: clause -> its text

ASSUME RankAssumption ==
    /\ BlockRank \in [Block -> Nat]
    /\ \A b, c \in Block : BlockRank[b] = BlockRank[c] => b = c
    /\ NameRank \in [DOMAIN NameRank -> Nat]
    /\ \A m, n \in DOMAIN NameRank : NameRank[m] = NameRank[n] => m = n
    /\ \A p \in Path : p \in Seq(DOMAIN NameRank)
    /\ serialiseWhen \in [When -> Nat]

VARIABLES
    rows,       \* the canonical list of resources, or Nothing
    seen,       \* how many of them groupByType has gone through
    accs,       \* map: type -> resourceGroup and groupAccumulator
    groups,     \* map: type -> finished resourceGroup, or Nothing
    jsonPerms   \* map: identity of a row -> its permissions, or Nothing

rvars == <<rows, seen, accs, groups, jsonPerms>>

-----------------------------------------------------------------------------
(* Mutant: only the first segment is compared.                              *)
moduleLess_First(a, b) ==
    b # <<>> /\ (a = <<>> \/ NameRank[a[1]] < NameRank[b[1]])

(* Segment by segment; a path comes before its extensions.                  *)
moduleLess(a, b) ==
    \E i \in DOMAIN b :
        /\ i <= Len(a) + 1
        /\ \A j \in 1 .. i - 1 : a[j] = b[j]
        /\ i <= Len(a) => NameRank[a[i]] < NameRank[b[i]]

rowLess(x, y) ==
    \/ BlockRank[x.block] < BlockRank[y.block]
    \/ x.block = y.block /\ moduleLess(x.path, y.path)

(* Clauses whose texts tie are left in order: whichever is first, the       *)
(* report says the same.                                                    *)
sortedApplied(applied) ==
    LET order == StableOrder([i \in DOMAIN applied |-> serialiseWhen[applied[i].When]])
    IN  [i \in DOMAIN applied |-> applied[order[i]]]

(* sort.Slice is not stable: p may bring the rows into any order in which   *)
(* none comes after a greater one.                                          *)
IsOrder(p, rs) ==
    /\ p \in Bijection(DOMAIN rs, DOMAIN rs)
    /\ \A i, j \in DOMAIN rs : i < j => ~rowLess(rs[p[j]], rs[p[i]])

sortedBy(p, rs) == [i \in DOMAIN rs |-> [rs[p[i]] EXCEPT !.Applied = sortedApplied(@)]]

(* Mutant: the plan permissions of conditionals are forgotten.              *)
unionResourcePerms_Base(x) == x.BasePlan \union RowApplyOnly(x)

unionResourcePerms(x) == RowPlan(x) \union RowApplyOnly(x)

ReportInit ==
    /\ Init
    /\ rows = Nothing /\ seen = 0 /\ accs = <<>>
    /\ groups = Nothing /\ jsonPerms = Nothing

Canonicalize ==
    /\ pc = "done" /\ rows = Nothing
    /\ \E p \in [DOMAIN result.Resources -> DOMAIN result.Resources] :
         /\ IsOrder(p, result.Resources)
         /\ rows' = sortedBy(p, result.Resources)
    /\ jsonPerms' = [x \in {Identity(y) : y \in ToSet(result.Resources)} |->
                       UNION {unionResourcePerms(y) : y \in {z \in ToSet(rows') : Identity(z) = x}}]
    /\ UNCHANGED <<vars, seen, accs, groups>>

NewGroup ==
    [Instances |-> <<>>, basePlan |-> {}, baseApplyOnly |-> {}, plan |-> {}, applyOnly |-> {},
     condPlanOrigin |-> <<>>, condApplyOrigin |-> <<>>]

GroupOf(type) == IF type \in DOMAIN accs THEN accs[type] ELSE NewGroup

Given(applied, stage) == UNION {applied[i][stage] : i \in DOMAIN applied}

FirstText(applied, stage, p) ==
    LET givers == {i \in DOMAIN applied : p \in applied[i][stage]}
        first == CHOOSE i \in givers : \A j \in givers : i <= j
    IN  serialiseWhen[applied[first].When]

(* Mutant: the last conditional to give a permission is its origin.         *)
Origins_Last(origin, applied, stage) ==
    [p \in DOMAIN origin \union Given(applied, stage) |->
        IF p \in Given(applied, stage) THEN FirstText(applied, stage, p) ELSE origin[p]]

(* An origin once noted stays.                                              *)
Origins(origin, applied, stage) ==
    [p \in DOMAIN origin \union Given(applied, stage) |->
        IF p \in DOMAIN origin THEN origin[p] ELSE FirstText(applied, stage, p)]

Gathered(g, x) ==
    [Instances |-> Append(g.Instances, Identity(x)),
     basePlan |-> g.basePlan \union x.BasePlan,
     baseApplyOnly |-> g.baseApplyOnly \union x.BaseApplyOnly,
     plan |-> g.plan \union RowPlan(x),
     applyOnly |-> g.applyOnly \union RowApplyOnly(x),
     condPlanOrigin |-> Origins(g.condPlanOrigin, x.Applied, "Plan"),
     condApplyOrigin |-> Origins(g.condApplyOrigin, x.Applied, "ApplyOnly")]

(* The body of groupByType's loop over the resources.                       *)
GroupRow ==
    /\ rows # Nothing /\ seen < Len(rows)
    /\ LET x == rows[seen + 1]
       IN  accs' = Put(accs, x.type, Gathered(GroupOf(x.type), x))
    /\ seen' = seen + 1
    /\ UNCHANGED <<vars, rows, groups, jsonPerms>>

(* Mutant: a permission is annotated though some instance has it as base.   *)
Annotated_Always(g) == [plan |-> DOMAIN g.condPlanOrigin, apply |-> DOMAIN g.condApplyOrigin]

(* What is never in a base, by stage (planKey and applyOnlyKey).            *)
Annotated(g) ==
    [plan  |-> DOMAIN g.condPlanOrigin \ g.basePlan,
     apply |-> DOMAIN g.condApplyOrigin \ g.baseApplyOnly]

Shown(g) ==
    [Instances |-> g.Instances, PlanPerms |-> g.plan, ApplyOnlyPerms |-> g.applyOnly,
     planOrigin |-> [p \in Annotated(g).plan |-> g.condPlanOrigin[p]],
     applyOrigin |-> [p \in Annotated(g).apply |-> g.condApplyOrigin[p]]]

CloseGroups ==
    /\ rows # Nothing /\ seen = Len(rows) /\ groups = Nothing
    /\ groups' = [t \in DOMAIN accs |-> Shown(accs[t])]
    /\ UNCHANGED <<vars, rows, seen, accs, jsonPerms>>

Analyse == Next /\ UNCHANGED rvars

ReportNext == Analyse \/ Canonicalize \/ GroupRow \/ CloseGroups
ReportSpec == ReportInit /\ [][ReportNext]_<<vars, rvars>> /\ WF_<<vars, rvars>>(ReportNext)

-----------------------------------------------------------------------------
Finished == groups # Nothing

(***************************************************************************)
(* The formats agree.  The flat list and the role name the permissions of  *)
(* the two running sets of Resolve, the grouped and the JSON report those  *)
(* of its per-resource account, and they are the same, stage by stage as   *)
(* far as the plan stage goes.                                             *)
(***************************************************************************)
FormatsAgree ==
    Finished =>
        /\ UNION {groups[t].PlanPerms : t \in DOMAIN groups} = result.PlanPerms
        /\ UNION {groups[t].PlanPerms \union groups[t].ApplyOnlyPerms : t \in DOMAIN groups}
             = result.TotalApplyPerms
        /\ UNION {jsonPerms[x] : x \in DOMAIN jsonPerms} = result.TotalApplyPerms

(***************************************************************************)
(* "# from conditional": in the finished report a permission of a stage is *)
(* annotated exactly if no instance of the group has it in its base for    *)
(* that stage, whichever instance came first.                              *)
(***************************************************************************)
RowsOf(t) == {x \in ToSet(result.Resources) : x.type = t}

AnnotationsExact ==
    Finished => \A t \in DOMAIN groups :
        /\ DOMAIN groups[t].planOrigin =
             groups[t].PlanPerms \ UNION {x.BasePlan : x \in RowsOf(t)}
        /\ DOMAIN groups[t].applyOrigin =
             groups[t].ApplyOnlyPerms \ UNION {x.BaseApplyOnly : x \in RowsOf(t)}

(***************************************************************************)
(* The annotation does not depend on the order the resources came in: it   *)
(* names the least clause, by text, of the first instance, by file, line,  *)
(* type, name and module path, whose conditionals give the permission.     *)
(***************************************************************************)
Gives(x, stage, p) == p \in Given(x.Applied, stage)

IsOrigin(text, t, stage, p) ==
    \E x \in RowsOf(t) :
        /\ Gives(x, stage, p)
        /\ \A y \in RowsOf(t) : rowLess(y, x) => ~Gives(y, stage, p)
        /\ \E i \in DOMAIN x.Applied :
             /\ p \in x.Applied[i][stage] /\ text = serialiseWhen[x.Applied[i].When]
             /\ \A j \in DOMAIN x.Applied :
                  p \in x.Applied[j][stage] => text <= serialiseWhen[x.Applied[j].When]

OriginsStable ==
    Finished => \A t \in DOMAIN groups :
        /\ \A p \in DOMAIN groups[t].planOrigin :
             IsOrigin(groups[t].planOrigin[p], t, "Plan", p)
        /\ \A p \in DOMAIN groups[t].applyOrigin :
             IsOrigin(groups[t].applyOrigin[p], t, "ApplyOnly", p)

(***************************************************************************)
(* One report lists its rows in one order, however the resources came in:  *)
(* by place, and the instances of a shared module by module path.          *)
(***************************************************************************)
RowsOrdered ==
    rows # Nothing => \A i, j \in DOMAIN rows : i < j =>
        \/ BlockRank[rows[i].block] < BlockRank[rows[j].block]
        \/ /\ rows[i].block = rows[j].block
           /\ \/ IsStrictPrefix(rows[i].path, rows[j].path)
              \/ \E k \in DOMAIN rows[i].path \intersect DOMAIN rows[j].path :
                   /\ SubSeq(rows[i].path, 1, k - 1) = SubSeq(rows[j].path, 1, k - 1)
                   /\ NameRank[rows[i].path[k]] < NameRank[rows[j].path[k]]

=============================================================================
