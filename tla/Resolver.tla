------------------------------ MODULE Resolver ------------------------------
(***************************************************************************)
(* internal/resolver/resolver.go, func Resolve: one pass over the parsed   *)
(* resource blocks, one pass over the catalog conditionals of each, and    *)
(* the maps the pass accumulates.  One action per branch of the two loops; *)
(* the local variables of the function are the variables here.             *)
(***************************************************************************)
EXTENDS ResolverInput

CONSTANT Nothing        \* a variable of the function not assigned yet

VARIABLES
    resources, cat, excludeDelete,  \* the arguments
    pc,           \* "resource", "conditional" (the inner loop) or "done"
    next,         \* index of the resource the outer loop is at
    cond,         \* index of the conditional the inner loop is at
    entry,        \* the entry looked up for resources[next]
    row,          \* rr, the ResourceResult being built
    plan, apply,  \* the running permission sets
    unknowns,     \* map: unknownKey -> module path
    unresolved,   \* map: unresolvedRecordKey -> [path, reason]
    results,      \* resourceResults
    result        \* what Resolve returned, or Nothing

args == <<resources, cat, excludeDelete>>
vars == <<args, pc, next, cond, entry, row, plan, apply, unknowns, unresolved, results, result>>

-----------------------------------------------------------------------------
r == resources[next]

(* m[k] = v on a Go map.                                                    *)
Put(m, k, v) == [x \in DOMAIN m \union {k} |-> IF x = k THEN v ELSE m[x]]
(* m[k] = f(k) for every k of K.                                            *)
PutAll(m, K, f) == [x \in DOMAIN m \union K |-> IF x \in K THEN f[x] ELSE m[x]]

(* Mutant: the two gates AND together instead of ORing.                     *)
ApplyStage_BothGates(perms, preventDestroy, noDelete) ==
    perms.Create \union perms.Update
        \union (IF ~preventDestroy \/ ~noDelete THEN perms.Delete ELSE {})

(* Delete permissions count unless either of two independent gates is shut. *)
ApplyStage(perms, preventDestroy, noDelete) ==
    perms.Create \union perms.Update
        \union (IF ~preventDestroy /\ ~noDelete THEN perms.Delete ELSE {})

(* applyPermissionSet(plan, apply, perms, ...): the next plan and apply.    *)
applyPermissionSet(perms) ==
    /\ plan'  = plan \union perms.Plan
    /\ apply' = apply \union ApplyStage(perms, r.preventDestroy, excludeDelete)

(* Mutant: the attribution split does not hear of --exclude-delete.         *)
splitPermStrings_NoExclude(perms, preventDestroy, noDelete) ==
    [Plan |-> perms.Plan,
     ApplyOnly |-> ApplyStage(perms, preventDestroy, FALSE) \ perms.Plan]

(* splitPermStrings: the split local to one entry or one conditional.       *)
splitPermStrings(perms, preventDestroy, noDelete) ==
    [Plan |-> perms.Plan,
     ApplyOnly |-> ApplyStage(perms, preventDestroy, noDelete) \ perms.Plan]

(***************************************************************************)
(* matchesConditional: every predicate must hold.  A definite mismatch     *)
(* settles the outcome and swallows what is missing elsewhere.             *)
(***************************************************************************)
Unread(attrs, when) == {a \in DOMAIN when : a \notin DOMAIN attrs \/ attrs[a] = NilVal}

Mismatch(attrs, when) ==
    \E a \in DOMAIN when \ Unread(attrs, when) : ~ctyValueEqualsLiteral(attrs[a], when[a])

(* Mutant: an attribute the block does not write is a mismatch, not missing. *)
matchesConditional_AbsentFails(attrs, when) ==
    [matched |-> ~Mismatch(attrs, when) /\ Unread(attrs, when) = {},
     missing |-> IF Mismatch(attrs, when) \/ ~(DOMAIN when \subseteq DOMAIN attrs)
                 THEN {} ELSE Unread(attrs, when)]

matchesConditional(attrs, when) ==
    [matched |-> ~Mismatch(attrs, when) /\ Unread(attrs, when) = {},
     missing |-> IF Mismatch(attrs, when) THEN {} ELSE Unread(attrs, when)]

(* Mutant: two instances of one shared module get one key.                  *)
unknownKey_NoPath(res) == [type |-> res.type, block |-> res.block, pathKey |-> <<>>]

unknownKey(res) ==
    [type |-> res.type, block |-> res.block, pathKey |-> encodeModulePath(res.path)]

unresolvedRecordKey(res, attr) ==
    [type |-> res.type, block |-> res.block, pathKey |-> encodeModulePath(res.path),
     attr |-> attr]

unresolvedReasonFor(res, attr) ==
    IF attr \in DOMAIN res.reasons THEN res.reasons[attr] ELSE "other"

-----------------------------------------------------------------------------
Init ==
    /\ resources \in Inputs
    /\ cat \in Catalogs
    /\ excludeDelete \in BOOLEAN
    /\ pc = "resource"
    /\ next = 1
    /\ cond = 0
    /\ entry = Nothing
    /\ row = Nothing
    /\ plan = {} /\ apply = {}
    /\ unknowns = <<>> /\ unresolved = <<>>
    /\ results = <<>>
    /\ result = Nothing

AtResource == pc = "resource" /\ next <= Len(resources)

Mapped == r.kind \in {"resource", "data"}

(* A kind the parser does not emit is passed over, and is not an unknown.   *)
SkipKind ==
    /\ AtResource
    /\ ~Mapped
    /\ next' = next + 1
    /\ UNCHANGED <<args, pc, cond, entry, row, plan, apply, unknowns, unresolved, results, result>>

RecordUnknown ==
    /\ AtResource
    /\ Mapped
    /\ ~Found(cat, r)
    /\ unknowns' = Put(unknowns, unknownKey(r), r.path)
    /\ next' = next + 1
    /\ UNCHANGED <<args, pc, cond, entry, row, plan, apply, unresolved, results, result>>

(* The base permissions go to the running sets and to the block's own row.  *)
OpenResource ==
    /\ AtResource
    /\ Mapped
    /\ Found(cat, r)
    /\ entry' = lookupEntry(cat, r)
    /\ applyPermissionSet(entry'.base)
    /\ LET split == splitPermStrings(entry'.base, r.preventDestroy, excludeDelete)
       IN  row' = [type |-> r.type, block |-> r.block, path |-> r.path,
                   BasePlan |-> split.Plan, BaseApplyOnly |-> split.ApplyOnly,
                   Applied |-> <<>>]
    /\ cond' = 1
    /\ pc' = "conditional"
    /\ UNCHANGED <<args, next, unknowns, unresolved, results, result>>

AtConditional == pc = "conditional" /\ cond <= Len(entry.conditionals)
Current == entry.conditionals[cond]
Outcome == matchesConditional(r.attrs, Current.when)

ApplyConditional ==
    /\ AtConditional
    /\ Outcome.matched
    /\ applyPermissionSet(Current.permissions)
    /\ LET split == splitPermStrings(Current.permissions, r.preventDestroy, excludeDelete)
       IN  row' = [row EXCEPT !.Applied = Append(@,
                     [When |-> Current.when, Plan |-> split.Plan, ApplyOnly |-> split.ApplyOnly])]
    /\ cond' = cond + 1
    /\ UNCHANGED <<args, pc, next, entry, unknowns, unresolved, results, result>>

ReportMissing ==
    /\ AtConditional
    /\ Outcome.missing # {}
    /\ LET keys == {unresolvedRecordKey(r, a) : a \in Outcome.missing}
       IN  unresolved' = PutAll(unresolved, keys,
             [k \in keys |-> [path |-> r.path, reason |-> unresolvedReasonFor(r, k.attr)]])
    /\ cond' = cond + 1
    /\ UNCHANGED <<args, pc, next, entry, row, plan, apply, unknowns, results, result>>

(* Mutant: the index moves on in the branch and again at the loop header.   *)
RejectConditional_Twice ==
    /\ AtConditional
    /\ ~Outcome.matched
    /\ Outcome.missing = {}
    /\ cond' = cond + 2
    /\ UNCHANGED <<args, pc, next, entry, row, plan, apply, unknowns, unresolved, results, result>>

RejectConditional ==
    /\ AtConditional
    /\ ~Outcome.matched
    /\ Outcome.missing = {}
    /\ cond' = cond + 1
    /\ UNCHANGED <<args, pc, next, entry, row, plan, apply, unknowns, unresolved, results, result>>

CloseResource ==
    /\ pc = "conditional"
    /\ cond > Len(entry.conditionals)
    /\ results' = Append(results, row)
    /\ next' = next + 1
    /\ pc' = "resource"
    /\ cond' = 0 /\ entry' = Nothing /\ row' = Nothing
    /\ UNCHANGED <<args, plan, apply, unknowns, unresolved, result>>

(* sortedUnknowns and sortedUnresolved: the rows, with the path slice kept  *)
(* on the value side of the map.                                            *)
UnknownRows == {[type |-> k.type, block |-> k.block, path |-> unknowns[k]] : k \in DOMAIN unknowns}
UnresolvedRows ==
    {[type |-> k.type, block |-> k.block, path |-> unresolved[k].path,
      attr |-> k.attr, reason |-> unresolved[k].reason] : k \in DOMAIN unresolved}

Finish ==
    /\ pc = "resource"
    /\ next > Len(resources)
    /\ result' = [PlanPerms |-> plan, ApplyOnlyPerms |-> apply \ plan,
                  TotalApplyPerms |-> plan \union apply,
                  Unknowns |-> UnknownRows, Unresolved |-> UnresolvedRows,
                  Resources |-> results]
    /\ pc' = "done"
    /\ UNCHANGED <<args, next, cond, entry, row, plan, apply, unknowns, unresolved, results>>

Next ==
    \/ SkipKind \/ RecordUnknown \/ OpenResource
    \/ ApplyConditional \/ ReportMissing \/ RejectConditional
    \/ CloseResource \/ Finish

(* Resolve runs on one goroutine and nothing blocks it: it keeps going.     *)
Spec == Init /\ [][Next]_vars /\ WF_vars(Next)
-----------------------------------------------------------------------------
(* Type of every variable; the row under construction is that of the block  *)
(* at hand, and a map key encodes the path on its value side.               *)
Rows == [type: Type, block: Block, path: Path,
         BasePlan: SUBSET Perm, BaseApplyOnly: SUBSET Perm,
         Applied: Seq([When: When, Plan: SUBSET Perm, ApplyOnly: SUBSET Perm])]

(* What Resolve returns is no nil pointer.                                  *)
Answers == [PlanPerms: SUBSET Perm, ApplyOnlyPerms: SUBSET Perm, TotalApplyPerms: SUBSET Perm,
            Unknowns: SUBSET [type: Type, block: Block, path: Path],
            Unresolved: SUBSET [type: Type, block: Block, path: Path, attr: Attr, reason: Reasons],
            Resources: Seq(Rows)]

ASSUME NothingAssumption == Nothing \notin Answers

TypeOK ==
    /\ resources \in Inputs /\ cat \in Catalogs /\ excludeDelete \in BOOLEAN
    /\ pc \in {"resource", "conditional", "done"}
    /\ next \in 1 .. Len(resources) + 1
    /\ cond \in Nat
    /\ pc = "conditional" =>
         /\ next <= Len(resources) /\ Found(cat, r) /\ Mapped
         /\ entry = lookupEntry(cat, r)
         /\ cond \in 1 .. Len(entry.conditionals) + 1
         /\ row \in Rows /\ Identity(row) = Identity(r)
    /\ plan \subseteq Perm /\ apply \subseteq Perm
    /\ results \in Seq(Rows)
    /\ \A k \in DOMAIN unknowns :
         unknowns[k] \in Path /\ k.pathKey = encodeModulePath(unknowns[k])
    /\ \A k \in DOMAIN unresolved :
         unresolved[k].path \in Path /\ unresolved[k].reason \in Reasons

(* What one row of the per-resource account says the block contributes.     *)
RowPlan(x) == x.BasePlan \union UNION {x.Applied[i].Plan : i \in DOMAIN x.Applied}
RowApplyOnly(x) == x.BaseApplyOnly \union UNION {x.Applied[i].ApplyOnly : i \in DOMAIN x.Applied}

OpenRow == IF pc = "conditional" THEN {row} ELSE {}
AllRows == ToSet(results) \union OpenRow

(***************************************************************************)
(* The totals and the per-resource account are computed by two routines    *)
(* (applyPermissionSet and splitPermStrings) that nothing but a comment    *)
(* keeps in lockstep.  At every point of the pass the account explains     *)
(* every permission of the totals and claims no other.                     *)
(***************************************************************************)
AccountBalances ==
    /\ plan = UNION {RowPlan(x) : x \in AllRows}
    /\ plan \union apply = UNION {RowPlan(x) \union RowApplyOnly(x) : x \in AllRows}

(***************************************************************************)
(* No block is silently dropped: each one passed so far has its own row or *)
(* its own unknown, told apart from every other instance of the same       *)
(* module source by its module path ("would silently collapse them and     *)
(* under-report", resolver.go).                                            *)
(***************************************************************************)
Accounted(res) ==
    IF Found(cat, res)
    THEN \E i \in DOMAIN results : Identity(results[i]) = Identity(res)
    ELSE \E k \in DOMAIN unknowns :
             [type |-> k.type, block |-> k.block, path |-> unknowns[k]] = Identity(res)

NothingDropped ==
    \A i \in 1 .. next - 1 : resources[i].kind \in {"resource", "data"} => Accounted(resources[i])

(***************************************************************************)
(* A clean report is exact: with no unknown and no unresolved entry, the   *)
(* answer is what any completion of the unread attributes would give, so   *)
(* nothing the user could fill in later changes it.  Completing a block    *)
(* gives every attribute it does not know a value.                         *)
(***************************************************************************)
CompletionsOf(res) ==
    {f \in [Attr -> Value] : \A a \in DOMAIN res.attrs : res.attrs[a] # NilVal => f[a] = res.attrs[a]}

Contribution(res, attrs) ==
    LET e == lookupEntry(cat, res)
        fired == {e.conditionals[i].permissions :
                    i \in {j \in DOMAIN e.conditionals :
                             matchesConditional(attrs, e.conditionals[j].when).matched}}
    IN  UNION {ps.Plan \union ApplyStage(ps, res.preventDestroy, excludeDelete) : ps \in {e.base} \union fired}

CleanReportIsExact ==
    pc = "done" /\ result.Unknowns = {} /\ result.Unresolved = {} =>
        LET known == {i \in DOMAIN resources : resources[i].kind \in {"resource", "data"}}
        IN  /\ \A i \in known : \A f \in CompletionsOf(resources[i]) :
                  Contribution(resources[i], f) \subseteq result.TotalApplyPerms
            /\ \A p \in result.TotalApplyPerms : \E i \in known :
                  \A f \in CompletionsOf(resources[i]) : p \in Contribution(resources[i], f)

(* The pass implements the promise: its answer is the one the abstract      *)
(* specification gives in one step, and it gives one.  Of the per-resource  *)
(* account the promise sees only which blocks have a row.                   *)
Promised ==
    IF result = Nothing THEN Nothing
    ELSE [result EXCEPT !.Resources = {Identity(x) : x \in ToSet(result.Resources)}]

Required == INSTANCE RequiredPermissions WITH result <- Promised
ImplementsRequired == Required!Spec

(***************************************************************************)
(* What the comment on splitPermStrings says: "the by-resource reporter    *)
(* cannot disagree with the flat-list summary on which stage a permission  *)
(* belongs to".  A permission a row lists as apply-only is apply-only in   *)
(* the summary.                                                            *)
(***************************************************************************)
StagesAgree ==
    pc = "done" => \A x \in AllRows : RowApplyOnly(x) \subseteq result.ApplyOnlyPerms
=============================================================================
