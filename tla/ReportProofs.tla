---------------------------- MODULE ReportProofs ----------------------------
(***************************************************************************)
(* Proofs, for every catalog, every list of blocks and every permission,   *)
(* about the answer of Resolve and what the reporters make of it.          *)
(*                                                                         *)
(* The first half is about Resolver: it keeps its account                  *)
(* (AccountBalances), drops no block (NothingDropped), gives the answer    *)
(* RequiredPermissions promises and errs in no clean report                *)
(* (CleanReportIsExact).  The second half is about Report: the rows are in *)
(* one order, the formats agree, and annotations are exact and depend on   *)
(* content alone.                                                          *)
(***************************************************************************)
EXTENDS Report, ListProofs

-----------------------------------------------------------------------------
(* What the helpers return.                                                 *)

(* The two projections return lists of conditionals, data sources included. *)
LEMMA ProjectType ==
    /\ \A conds \in Seq(Conditional) : projectConditionals(conds) \in Seq(Conditional)
    /\ \A conds \in Seq(DataSourceConditional) :
           projectDataSourceConditionals(conds) \in Seq(Conditional)
<1>1. ASSUME NEW conds \in Seq(Conditional)
      PROVE  projectConditionals(conds) \in Seq(Conditional)
  <2>1. DOMAIN conds = 1 .. Len(conds) /\ Len(conds) \in Nat
    OBVIOUS
  <2>2. ASSUME NEW i \in 1 .. Len(conds)
        PROVE  [when |-> conds[i].when, permissions |-> conds[i].permissions] \in Conditional
    <3>1. conds[i] \in Conditional
      OBVIOUS
    <3> QED BY <3>1 DEF Conditional
  <2> QED BY <2>1, <2>2 DEF projectConditionals
<1>2. ASSUME NEW conds \in Seq(DataSourceConditional)
      PROVE  projectDataSourceConditionals(conds) \in Seq(Conditional)
  <2>1. DOMAIN conds = 1 .. Len(conds) /\ Len(conds) \in Nat
    OBVIOUS
  <2>2. ASSUME NEW i \in 1 .. Len(conds)
        PROVE  [when |-> conds[i].when, permissions |-> PlanOnly(conds[i].permissions)]
                 \in Conditional
    <3>0. conds[i] \in DataSourceConditional
      OBVIOUS
    <3>1. conds[i].when \in When /\ conds[i].permissions \in DataSourcePermissions
      BY <3>0 DEF DataSourceConditional
    <3> QED BY <3>1 DEF Conditional, PlanOnly, PermissionSet, DataSourcePermissions
  <2> QED BY <2>1, <2>2 DEF projectDataSourceConditionals
<1> QED BY <1>1, <1>2

(* lookupEntry returns an entry whenever there is one.                       *)
LEMMA LookupType ==
    ASSUME NEW c, IsCatalog(c), NEW x, Found(c, x)
    PROVE  lookupEntry(c, x) \in ResolvedEntry
<1>1. CASE InDataSources(c, x)
  <2> DEFINE e == c.DataSources[x.type]
  <2>1. e \in DataSourceEntry
    BY <1>1 DEF IsCatalog, IsMap, InDataSources
  <2>2. projectDataSourceConditionals(e.conditionals) \in Seq(Conditional)
    BY <2>1, ProjectType DEF DataSourceEntry
  <2>3. PlanOnly(e.permissions) \in PermissionSet
    BY <2>1 DEF DataSourceEntry, PlanOnly, PermissionSet, DataSourcePermissions
  <2> QED BY <1>1, <2>2, <2>3 DEF lookupEntry, ResolvedEntry
<1>2. CASE ~InDataSources(c, x) /\ InResources(c, x)
  <2> DEFINE e == c.Resources[x.type]
  <2>1. e \in ResourceEntry
    BY <1>2 DEF IsCatalog, IsMap, InResources
  <2>2. projectConditionals(e.conditionals) \in Seq(Conditional)
    BY <2>1, ProjectType DEF ResourceEntry
  <2> QED BY <1>2, <2>1, <2>2 DEF lookupEntry, ResolvedEntry, ResourceEntry
<1>3. CASE ~InDataSources(c, x) /\ ~InResources(c, x)
  <2> DEFINE e == c.IAMBindings[x.type]
  <2>1. e \in ResourceEntry
    BY <1>3 DEF IsCatalog, IsMap, InIAMBindings, Found
  <2>2. projectConditionals(e.conditionals) \in Seq(Conditional)
    BY <2>1, ProjectType DEF ResourceEntry
  <2> QED BY <1>3, <2>1, <2>2 DEF lookupEntry, ResolvedEntry, ResourceEntry
<1> QED BY <1>1, <1>2, <1>3

(* The stages of a permission set are permissions, and the plan stage is    *)
(* the same to applyPermissionSet and to splitPermStrings.                  *)
LEMMA StageType ==
    ASSUME NEW perms \in PermissionSet, NEW pd, NEW noDelete
    PROVE  /\ ApplyStage(perms, pd, noDelete) \subseteq Perm
           /\ splitPermStrings(perms, pd, noDelete).Plan = perms.Plan
           /\ splitPermStrings(perms, pd, noDelete).ApplyOnly \subseteq Perm
           /\ perms.Plan \subseteq Perm
           /\ perms.Plan \union splitPermStrings(perms, pd, noDelete).ApplyOnly
                = perms.Plan \union ApplyStage(perms, pd, noDelete)
BY DEF ApplyStage, splitPermStrings, PermissionSet

(* The block at hand is one of the input.                                    *)
LEMMA CurrentResource ==
    ASSUME TypeOK, next <= Len(resources)
    PROVE  next \in DOMAIN resources /\ IsResource(r)
<1>1. /\ resources \in Seq({resources[i] : i \in DOMAIN resources})
      /\ \A i \in DOMAIN resources : IsResource(resources[i])
  BY InputsAssumption DEF TypeOK
<1>2. next \in 1 .. Len(resources)
  BY <1>1 DEF TypeOK
<1>3. DOMAIN resources = 1 .. Len(resources)
  BY <1>1
<1> QED BY <1>1, <1>2, <1>3 DEF r

(* The conditional at hand is one of the entry of the block at hand.         *)
LEMMA CurrentConditional ==
    ASSUME TypeOK, AtConditional
    PROVE  /\ pc = "conditional" /\ cond <= Len(entry.conditionals)
           /\ Len(entry.conditionals) \in Nat
           /\ IsResource(r) /\ row \in Rows /\ Current \in Conditional
<1>1. pc = "conditional" /\ cond \in 1 .. Len(entry.conditionals)
  BY DEF TypeOK, AtConditional
<1>2. IsResource(r) /\ row \in Rows /\ Found(cat, r) /\ entry = lookupEntry(cat, r)
  BY <1>1, CurrentResource DEF TypeOK
<1>3. IsCatalog(cat)
  BY <1>2, CatalogsAssumption DEF TypeOK, Found
<1>4. entry \in ResolvedEntry
  BY <1>2, <1>3, LookupType
<1> QED BY <1>1, <1>2, <1>4 DEF ResolvedEntry, Current

-----------------------------------------------------------------------------
(* The pass starts well-typed ...                                            *)
LEMMA TypeInit == Init => TypeOK
BY InputsAssumption DEF Init, TypeOK

(* ... and every step of it keeps the types.                                 *)
LEMMA TypeStep == TypeOK /\ [Next]_vars => TypeOK'
<1> SUFFICES ASSUME TypeOK, [Next]_vars PROVE TypeOK'
  OBVIOUS
<1>0. resources \in Seq({resources[i] : i \in DOMAIN resources}) /\ Len(resources) \in Nat
  BY InputsAssumption DEF TypeOK
<1>1. CASE SkipKind
  BY <1>0, <1>1 DEF TypeOK, SkipKind, AtResource, args, r, Mapped
<1>2. CASE RecordUnknown
  <2>1. r.path \in Path
    BY <1>2, CurrentResource DEF RecordUnknown, AtResource, IsResource
  <2>2. \A k \in DOMAIN unknowns' :
          unknowns'[k] \in Path /\ k.pathKey = encodeModulePath(unknowns'[k])
    BY <1>2, <2>1 DEF RecordUnknown, Put, unknownKey, TypeOK
  <2> QED BY <1>0, <1>2, <2>2 DEF TypeOK, RecordUnknown, AtResource, args
<1>3. CASE OpenResource
  <2>1. /\ IsCatalog(cat) /\ Found(cat, r) /\ IsResource(r)
    BY <1>3, CurrentResource, CatalogsAssumption DEF OpenResource, AtResource, TypeOK, Found
  <2>2. lookupEntry(cat, r) \in ResolvedEntry
    BY <2>1, LookupType
  <2> DEFINE e == lookupEntry(cat, r)
             split == splitPermStrings(e.base, r.preventDestroy, excludeDelete)
  <2>3. /\ e.base \in PermissionSet
        /\ e.conditionals \in Seq(Conditional)
        /\ Len(e.conditionals) \in Nat
    BY <2>2 DEF ResolvedEntry
  <2>4. /\ split.Plan \subseteq Perm /\ split.ApplyOnly \subseteq Perm
        /\ e.base.Plan \subseteq Perm
        /\ ApplyStage(e.base, r.preventDestroy, excludeDelete) \subseteq Perm
    BY <2>3, StageType
  <2>5. row' = [type |-> r.type, block |-> r.block, path |-> r.path,
                BasePlan |-> split.Plan, BaseApplyOnly |-> split.ApplyOnly,
                Applied |-> <<>>]
    BY <1>3 DEF OpenResource
  <2>6. row' \in Rows
    BY <2>1, <2>4, <2>5 DEF Rows, IsResource
  <2>7. plan' \subseteq Perm /\ apply' \subseteq Perm
    BY <1>3, <2>4 DEF OpenResource, applyPermissionSet, TypeOK
  <2>8. /\ r' = r /\ Mapped' /\ Found(cat, r)' /\ entry' = lookupEntry(cat, r)'
        /\ cond' \in 1 .. Len(entry'.conditionals) + 1 /\ cond' \in Nat
    BY <1>3, <2>1, <2>3 DEF OpenResource, args, r, Mapped
  <2>9. Identity(row') = Identity(r)
    BY <2>5 DEF Identity
  <2> QED
    BY <1>0, <1>3, <2>6, <2>7, <2>8, <2>9 DEF TypeOK, OpenResource, AtResource, args
<1>4. CASE ApplyConditional
  <2>1. /\ pc = "conditional" /\ cond <= Len(entry.conditionals) /\ Current \in Conditional
        /\ row \in Rows /\ Len(entry.conditionals) \in Nat
    BY <1>4, CurrentConditional DEF ApplyConditional
  <2> DEFINE split == splitPermStrings(Current.permissions, r.preventDestroy, excludeDelete)
  <2>2. /\ split.Plan \subseteq Perm /\ split.ApplyOnly \subseteq Perm
        /\ Current.permissions.Plan \subseteq Perm
        /\ ApplyStage(Current.permissions, r.preventDestroy, excludeDelete) \subseteq Perm
    BY <2>1, StageType DEF Conditional
  <2>3. row' = [row EXCEPT !.Applied = Append(@,
                  [When |-> Current.when, Plan |-> split.Plan, ApplyOnly |-> split.ApplyOnly])]
    BY <1>4 DEF ApplyConditional
  <2>4. row' \in Rows
    <3> DEFINE A == [When: When, Plan: SUBSET Perm, ApplyOnly: SUBSET Perm]
               x == [When |-> Current.when, Plan |-> split.Plan, ApplyOnly |-> split.ApplyOnly]
    <3>1. x \in A
      BY <2>1, <2>2 DEF Conditional
    <3>2. row.Applied \in Seq(A)
      BY <2>1 DEF Rows
    <3>3. Append(row.Applied, x) \in Seq(A)
      BY <3>1, <3>2
    <3>4. row' = [row EXCEPT !.Applied = Append(row.Applied, x)]
      BY <2>3
    <3> HIDE DEF x, A
    <3> QED BY <2>1, <3>3, <3>4 DEF Rows, A
  <2>5. plan' \subseteq Perm /\ apply' \subseteq Perm
    BY <1>4, <2>2 DEF ApplyConditional, applyPermissionSet, TypeOK
  <2>6. /\ r' = r /\ Mapped' /\ Found(cat, r)' /\ entry' = lookupEntry(cat, r)'
        /\ cond' \in 1 .. Len(entry'.conditionals) + 1 /\ cond' \in Nat
    BY <1>4, <2>1 DEF ApplyConditional, TypeOK, args, r, Mapped
  <2>7. Identity(row') = Identity(row) /\ Identity(row) = Identity(r)
    BY <1>4, <2>1, <2>3 DEF TypeOK, Identity, Rows
  <2> QED
    BY <1>4, <2>1, <2>4, <2>5, <2>6, <2>7 DEF TypeOK, ApplyConditional, args
<1>5. CASE ReportMissing
  <2>1. /\ pc = "conditional" /\ cond <= Len(entry.conditionals)
        /\ Len(entry.conditionals) \in Nat /\ IsResource(r)
    BY <1>5, CurrentConditional DEF ReportMissing
  <2>2. \A k \in DOMAIN unresolved' :
           unresolved'[k].path \in Path /\ unresolved'[k].reason \in Reasons
    <3>1. r.path \in Path /\ \A a : unresolvedReasonFor(r, a) \in Reasons
      BY <2>1 DEF IsResource, IsMap, unresolvedReasonFor, Reasons
    <3> QED BY <1>5, <3>1 DEF ReportMissing, PutAll, TypeOK
  <2>3. /\ r' = r /\ Mapped' /\ Found(cat, r)' /\ entry' = lookupEntry(cat, r)'
        /\ cond' \in 1 .. Len(entry'.conditionals) + 1 /\ cond' \in Nat
    BY <1>5, <2>1 DEF ReportMissing, TypeOK, args, r, Mapped
  <2> QED
    BY <1>5, <2>1, <2>2, <2>3 DEF TypeOK, ReportMissing, args
<1>6. CASE RejectConditional
  <2>1. /\ pc = "conditional" /\ cond <= Len(entry.conditionals)
        /\ Len(entry.conditionals) \in Nat
    BY <1>6, CurrentConditional DEF RejectConditional
  <2>2. /\ r' = r /\ Mapped' /\ Found(cat, r)' /\ entry' = lookupEntry(cat, r)'
        /\ cond' \in 1 .. Len(entry'.conditionals) + 1 /\ cond' \in Nat
    BY <1>6, <2>1 DEF RejectConditional, TypeOK, args, r, Mapped
  <2> QED
    BY <1>6, <2>1, <2>2 DEF TypeOK, RejectConditional, args
<1>7. CASE CloseResource
  <2>1. /\ pc = "conditional" /\ row \in Rows /\ next <= Len(resources)
    BY <1>7 DEF CloseResource, TypeOK
  <2> QED
    BY <1>0, <1>7, <2>1 DEF TypeOK, CloseResource, args
<1>8. CASE Finish
  BY <1>0, <1>8 DEF TypeOK, Finish, args
<1>9. CASE UNCHANGED vars
  BY <1>9 DEF TypeOK, vars, args, r, Mapped
<1> QED
  BY <1>1, <1>2, <1>3, <1>4, <1>5, <1>6, <1>7, <1>8, <1>9 DEF Next

(* Every variable keeps its type, and each map key encodes its value.       *)
THEOREM TypeCorrect == Spec => []TypeOK
BY TypeInit, TypeStep, PTL DEF Spec

-----------------------------------------------------------------------------
(* The account.  A row contributes its own permissions to the union.        *)

(* Appending a row adds it to the set of rows and takes none away.           *)
LEMMA RowsGrow ==
    ASSUME NEW s, s \in Seq(Rows), NEW x \in Rows
    PROVE  ToSet(Append(s, x)) = ToSet(s) \union {x}
<1> DEFINE t == Append(s, x)
           n == Len(s)
<1>1. n \in Nat /\ DOMAIN s = 1 .. n /\ DOMAIN t = 1 .. n + 1
  OBVIOUS
<1>2. t[n + 1] = x /\ \A i \in 1 .. n : t[i] = s[i]
  OBVIOUS
<1>3. 1 .. n + 1 = 1 .. n \union {n + 1}
  BY <1>1
<1> HIDE DEF t, n
<1>4. {t[i] : i \in 1 .. n + 1} = {s[i] : i \in 1 .. n} \union {x}
  BY <1>2, <1>3
<1> QED BY <1>1, <1>4 DEF ToSet, t

(* Appending a fired conditional to a row adds what it gives, stage by       *)
(* stage, and changes nothing else.                                          *)
LEMMA AppliedGrows ==
    ASSUME NEW x \in Rows, NEW a \in [When: When, Plan: SUBSET Perm, ApplyOnly: SUBSET Perm],
           NEW y, y = [x EXCEPT !.Applied = Append(@, a)]
    PROVE  /\ RowPlan(y) = RowPlan(x) \union a.Plan
           /\ RowApplyOnly(y) = RowApplyOnly(x) \union a.ApplyOnly
<1> DEFINE A == [When: When, Plan: SUBSET Perm, ApplyOnly: SUBSET Perm]
           n == Len(x.Applied)
<1>1. /\ x.Applied \in Seq(A) /\ n \in Nat /\ DOMAIN x.Applied = 1 .. n
      /\ y.Applied = Append(x.Applied, a)
      /\ y.BasePlan = x.BasePlan /\ y.BaseApplyOnly = x.BaseApplyOnly
  BY DEF Rows
<1>2. /\ DOMAIN y.Applied = 1 .. n + 1 /\ y.Applied[n + 1] = a
      /\ \A i \in 1 .. n : y.Applied[i] = x.Applied[i]
  BY <1>1
<1>3. 1 .. n + 1 = 1 .. n \union {n + 1} /\ n + 1 \notin 1 .. n
  BY <1>1
<1> HIDE DEF n, A
<1>0. \A P, e : UNION (P \union {e}) = (UNION P) \union e
  OBVIOUS
<1>4. UNION {y.Applied[i].Plan : i \in DOMAIN y.Applied}
        = (UNION {x.Applied[i].Plan : i \in DOMAIN x.Applied}) \union a.Plan
  <2> DEFINE X == {x.Applied[i].Plan : i \in 1 .. n}
             Y == {y.Applied[i].Plan : i \in 1 .. n + 1}
  <2>1. Y = X \union {a.Plan}
    BY <1>2, <1>3
  <2>2. /\ {y.Applied[i].Plan : i \in DOMAIN y.Applied} = Y
        /\ {x.Applied[i].Plan : i \in DOMAIN x.Applied} = X
    BY <1>1, <1>2
  <2> HIDE DEF X, Y
  <2>3. UNION Y = (UNION X) \union a.Plan
    BY <1>0, <2>1
  <2> QED BY <2>2, <2>3
<1>5. UNION {y.Applied[i].ApplyOnly : i \in DOMAIN y.Applied}
        = (UNION {x.Applied[i].ApplyOnly : i \in DOMAIN x.Applied}) \union a.ApplyOnly
  <2> DEFINE X == {x.Applied[i].ApplyOnly : i \in 1 .. n}
             Y == {y.Applied[i].ApplyOnly : i \in 1 .. n + 1}
  <2>1. Y = X \union {a.ApplyOnly}
    BY <1>2, <1>3
  <2>2. /\ {y.Applied[i].ApplyOnly : i \in DOMAIN y.Applied} = Y
        /\ {x.Applied[i].ApplyOnly : i \in DOMAIN x.Applied} = X
    BY <1>1, <1>2
  <2> HIDE DEF X, Y
  <2>3. UNION Y = (UNION X) \union a.ApplyOnly
    BY <1>0, <2>1
  <2> QED BY <2>2, <2>3
<1> QED BY <1>1, <1>4, <1>5 DEF RowPlan, RowApplyOnly

(* The empty totals balance with the empty account ...                       *)
LEMMA BalanceInit == Init => AccountBalances
BY DEF Init, AccountBalances, AllRows, OpenRow, ToSet

(* ... and every step of the pass books alike on both sides.                 *)
LEMMA BalanceStep == TypeOK /\ AccountBalances /\ [Next]_vars => AccountBalances'
<1> SUFFICES ASSUME TypeOK, AccountBalances, [Next]_vars PROVE AccountBalances'
  OBVIOUS
<1>1. CASE SkipKind \/ RecordUnknown \/ Finish \/ ReportMissing \/ RejectConditional
             \/ UNCHANGED vars
  <2>1. AllRows' = AllRows /\ plan' = plan /\ apply' = apply
    BY <1>1 DEF SkipKind, RecordUnknown, Finish, ReportMissing, RejectConditional, vars,
                AllRows, OpenRow, ToSet, AtResource, AtConditional
  <2> QED BY <2>1 DEF AccountBalances
<1>2. CASE OpenResource
  <2> DEFINE base == lookupEntry(cat, r).base
             split == splitPermStrings(base, r.preventDestroy, excludeDelete)
             stage == ApplyStage(base, r.preventDestroy, excludeDelete)
  <2>1. base \in PermissionSet
    BY <1>2, CurrentResource, CatalogsAssumption, LookupType
       DEF OpenResource, AtResource, TypeOK, Found, ResolvedEntry
  <2>2. split.Plan = base.Plan /\ base.Plan \union split.ApplyOnly = base.Plan \union stage
    BY <2>1, StageType
  <2>3. plan' = plan \union base.Plan /\ apply' = apply \union stage
    BY <1>2 DEF OpenResource, applyPermissionSet
  <2>4. RowPlan(row') = split.Plan /\ RowApplyOnly(row') = split.ApplyOnly
    BY <1>2 DEF OpenResource, RowPlan, RowApplyOnly
  <2>5. AllRows' = AllRows \union {row'}
    BY <1>2 DEF OpenResource, AtResource, AllRows, OpenRow
  <2> HIDE DEF base, split, stage
  <2> QED BY <2>2, <2>3, <2>4, <2>5 DEF AccountBalances
<1>3. CASE ApplyConditional
  <2> DEFINE perms == Current.permissions
             split == splitPermStrings(perms, r.preventDestroy, excludeDelete)
             stage == ApplyStage(perms, r.preventDestroy, excludeDelete)
             a == [When |-> Current.when, Plan |-> split.Plan, ApplyOnly |-> split.ApplyOnly]
  <2>1. pc = "conditional" /\ row \in Rows /\ Current \in Conditional
    BY <1>3, CurrentConditional DEF ApplyConditional
  <2>2. perms \in PermissionSet /\ Current.when \in When
    BY <2>1 DEF Conditional
  <2>3. /\ split.Plan = perms.Plan /\ split.Plan \subseteq Perm /\ split.ApplyOnly \subseteq Perm
        /\ perms.Plan \union split.ApplyOnly = perms.Plan \union stage
    BY <2>2, StageType
  <2>4. row' = [row EXCEPT !.Applied = Append(@, a)]
    BY <1>3 DEF ApplyConditional
  <2>5. /\ RowPlan(row') = RowPlan(row) \union split.Plan
        /\ RowApplyOnly(row') = RowApplyOnly(row) \union split.ApplyOnly
    <3>1. a \in [When: When, Plan: SUBSET Perm, ApplyOnly: SUBSET Perm]
      BY <2>2, <2>3
    <3>2. a.Plan = split.Plan /\ a.ApplyOnly = split.ApplyOnly
      OBVIOUS
    <3> HIDE DEF a
    <3> QED BY <2>1, <2>4, <3>1, <3>2, AppliedGrows
  <2>6. plan' = plan \union perms.Plan /\ apply' = apply \union stage
    BY <1>3 DEF ApplyConditional, applyPermissionSet
  <2>7. /\ AllRows = ToSet(results) \union {row}
        /\ AllRows' = ToSet(results) \union {row'}
    BY <1>3, <2>1 DEF ApplyConditional, AllRows, OpenRow
  <2> HIDE DEF perms, split, stage, a
  <2> QED BY <2>3, <2>5, <2>6, <2>7 DEF AccountBalances
<1>4. CASE CloseResource
  <2>1. pc = "conditional" /\ row \in Rows /\ results \in Seq(Rows)
    BY <1>4 DEF CloseResource, TypeOK
  <2>2. AllRows = ToSet(results) \union {row} /\ AllRows' = ToSet(Append(results, row))
    BY <1>4, <2>1 DEF CloseResource, AllRows, OpenRow
  <2>3. AllRows' = AllRows
    BY <2>1, <2>2, RowsGrow
  <2> QED BY <1>4, <2>3 DEF AccountBalances, CloseResource
<1> QED BY <1>1, <1>2, <1>3, <1>4 DEF Next

(* For every catalog and configuration, the totals and the per-resource     *)
(* account of the resolver explain each other at every step of the pass.    *)
THEOREM AccountAlwaysBalances == Spec => []AccountBalances
<1>1. TypeOK /\ AccountBalances /\ [Next]_vars => (TypeOK /\ AccountBalances)'
  BY TypeStep, BalanceStep
<1> QED BY TypeInit, BalanceInit, <1>1, PTL DEF Spec

-----------------------------------------------------------------------------
(* No block is dropped.  A later unknown may only land on an earlier one's  *)
(* key by having its path, because the encoding of paths is one-to-one; and *)
(* then it overwrites the entry with itself.                                *)

(* A block once accounted for stays accounted for.                           *)
LEMMA AccountedStays ==
    ASSUME TypeOK, [Next]_vars, NEW res, Accounted(res)
    PROVE  Accounted(res)'
<1>1. Found(cat, res)' = Found(cat, res)
  BY DEF Next, vars, args, SkipKind, RecordUnknown, OpenResource, ApplyConditional,
         ReportMissing, RejectConditional, CloseResource, Finish, Found, InResources,
         InIAMBindings, InDataSources
<1>2. CASE RecordUnknown
  <2>1. r.path \in Path /\ results' = results
    BY <1>2, CurrentResource DEF RecordUnknown, AtResource, IsResource
  <2>2. ASSUME NEW k \in DOMAIN unknowns
        PROVE  k \in DOMAIN unknowns' /\ unknowns'[k] = unknowns[k]
    <3>1. CASE k = unknownKey(r)
      <4>1. encodeModulePath(unknowns[k]) = encodeModulePath(r.path) /\ unknowns[k] \in Path
        BY <3>1 DEF TypeOK, unknownKey
      <4> QED BY <1>2, <2>1, <3>1, <4>1, PathAssumption DEF RecordUnknown, Put
    <3>2. CASE k # unknownKey(r)
      BY <1>2, <3>2 DEF RecordUnknown, Put
    <3> QED BY <3>1, <3>2
  <2> QED BY <1>1, <2>1, <2>2 DEF Accounted
<1>3. CASE CloseResource
  <2>1. results \in Seq(Rows) /\ unknowns' = unknowns /\ results' = Append(results, row)
    BY <1>3 DEF CloseResource, TypeOK
  <2>2. \A i \in DOMAIN results : i \in DOMAIN results' /\ results'[i] = results[i]
    BY <2>1
  <2> QED BY <1>1, <2>1, <2>2 DEF Accounted
<1>4. CASE ~RecordUnknown /\ ~CloseResource
  <2>1. unknowns' = unknowns /\ results' = results
    BY <1>4 DEF Next, vars, SkipKind, OpenResource, ApplyConditional, ReportMissing,
                RejectConditional, Finish
  <2> QED BY <1>1, <2>1 DEF Accounted
<1> QED BY <1>2, <1>3, <1>4

(* Before the first block nothing can have been dropped ...                  *)
LEMMA DroppedInit == Init => NothingDropped
BY InputsAssumption DEF Init, NothingDropped

(* ... and a step passes a block only with a row or an unknown for it.       *)
LEMMA DroppedStep == TypeOK /\ NothingDropped /\ [Next]_vars => NothingDropped'
<1> SUFFICES ASSUME TypeOK, NothingDropped, [Next]_vars,
                    NEW i \in 1 .. next' - 1, resources'[i].kind \in {"resource", "data"}
             PROVE  Accounted(resources[i])'
  BY DEF NothingDropped
<1>0. next \in Nat
  BY DEF TypeOK
<1>1. resources' = resources /\ cat' = cat
  BY DEF Next, vars, args, SkipKind, RecordUnknown, OpenResource, ApplyConditional,
         ReportMissing, RejectConditional, CloseResource, Finish
<1>2. CASE i \in 1 .. next - 1
  <2>1. Accounted(resources[i])
    BY <1>1, <1>2 DEF NothingDropped
  <2>2. Accounted(resources[i])'
    BY <1>1, <2>1, AccountedStays
  <2> QED BY <2>2
<1>3. CASE i \notin 1 .. next - 1
  <2>1. i = next /\ next' = next + 1 /\ (SkipKind \/ RecordUnknown \/ CloseResource)
    BY <1>0, <1>3 DEF Next, vars, OpenResource, ApplyConditional, ReportMissing,
                RejectConditional, Finish, SkipKind, RecordUnknown, CloseResource
  <2>2. resources'[i] = r
    BY <1>1, <2>1 DEF r
  <2>3. CASE SkipKind
    BY <2>2, <2>3 DEF SkipKind, Mapped
  <2>4. CASE RecordUnknown
    <3>1. ~Found(cat', r) /\ unknowns' = Put(unknowns, unknownKey(r), r.path)
      BY <1>1, <2>4 DEF RecordUnknown
    <3>2. /\ unknownKey(r) \in DOMAIN unknowns' /\ unknowns'[unknownKey(r)] = r.path
          /\ unknownKey(r).type = r.type /\ unknownKey(r).block = r.block
      BY <3>1 DEF Put, unknownKey
    <3> QED BY <2>2, <3>1, <3>2 DEF Accounted, Identity
  <2>5. CASE CloseResource
    <3>1. /\ results \in Seq(Rows) /\ row \in Rows /\ results' = Append(results, row)
          /\ Identity(row) = Identity(r) /\ Found(cat', r)
      BY <1>1, <2>5 DEF CloseResource, TypeOK
    <3>2. Len(results) + 1 \in DOMAIN results' /\ results'[Len(results) + 1] = row
      BY <3>1
    <3> QED BY <2>2, <3>1, <3>2 DEF Accounted
  <2> QED BY <2>1, <2>3, <2>4, <2>5
<1> QED BY <1>2, <1>3

(* For every catalog and configuration, each block passed has its own row   *)
(* or its own unknown, whatever other instances of its module there are.    *)
THEOREM NothingEverDropped == Spec => []NothingDropped
<1>1. TypeOK /\ NothingDropped /\ [Next]_vars => (TypeOK /\ NothingDropped)'
  BY TypeStep, DroppedStep
<1> QED BY TypeInit, DroppedInit, <1>1, PTL DEF Spec

-----------------------------------------------------------------------------
(***************************************************************************)
(* The answer.  The two loops, the running sets and the maps implement the *)
(* promise of RequiredPermissions, which gives the answer in one step and  *)
(* has none of them.  The invariant says, of the blocks and conditionals   *)
(* gone by, what the running sets, the maps and the rows hold: exactly     *)
(* what they give.                                                         *)
(***************************************************************************)

(* What the pass has gone by.  A block is opened when its base permissions  *)
(* have been booked, a conditional of it done when it has had its turn.     *)
EntryOf(i) == lookupEntry(cat, resources[i])
ClauseOf(i, j) == EntryOf(i).conditionals[j]
Verdict(i, j) == matchesConditional(resources[i].attrs, ClauseOf(i, j).when)

IsMapped(i) == resources[i].kind \in {"resource", "data"}
HasEntry(i) == Found(cat, resources[i])

Opened == {i \in DOMAIN resources :
             /\ IsMapped(i) /\ HasEntry(i)
             /\ i < next \/ (i = next /\ pc = "conditional")}
DoneOf(i) == {j \in DOMAIN EntryOf(i).conditionals : i < next \/ j < cond}

(* The permission sets booked for a block.                                  *)
Booked(i) == {EntryOf(i).base}
               \union {ClauseOf(i, j).permissions : j \in {k \in DoneOf(i) : Verdict(i, k).matched}}

StageOf(i, perms) == ApplyStage(perms, resources[i].preventDestroy, excludeDelete)

PlanOf(i)  == UNION {ps.Plan : ps \in Booked(i)}
ApplyOf(i) == UNION {StageOf(i, ps) : ps \in Booked(i)}

(* The running sets hold what has been booked and nothing else.             *)
TotalsExact ==
    /\ plan = UNION {PlanOf(i) : i \in Opened}
    /\ apply = UNION {ApplyOf(i) : i \in Opened}

(* Each attribute missed has its key, and each key stands for one missed.   *)
UnresolvedExact ==
    /\ \A i \in Opened : \A j \in DoneOf(i) : \A a \in Verdict(i, j).missing :
          unresolvedRecordKey(resources[i], a) \in DOMAIN unresolved
    /\ \A k \in DOMAIN unresolved :
          \E i \in Opened : \E j \in DoneOf(i) : \E a \in Verdict(i, j).missing :
             /\ k = unresolvedRecordKey(resources[i], a)
             /\ unresolved[k] = [path |-> resources[i].path,
                                 reason |-> unresolvedReasonFor(resources[i], a)]

(* Each block without an entry has its key, and each key stands for one.    *)
UnknownsExact ==
    /\ \A i \in 1 .. next - 1 : IsMapped(i) /\ ~HasEntry(i) =>
          unknownKey(resources[i]) \in DOMAIN unknowns
    /\ \A k \in DOMAIN unknowns : \E i \in 1 .. next - 1 :
          /\ IsMapped(i) /\ ~HasEntry(i)
          /\ k = unknownKey(resources[i]) /\ unknowns[k] = resources[i].path

(* The rows are those of the blocks opened and closed.                      *)
RowsExact ==
    {Identity(x) : x \in ToSet(results)} = {Identity(resources[i]) : i \in {k \in Opened : k < next}}

(* The answer is given at the end, from what has been accumulated.          *)
AnswerLast ==
    /\ pc # "done" => result = Nothing
    /\ pc = "done" =>
         /\ next > Len(resources)
         /\ result = [PlanPerms |-> plan, ApplyOnlyPerms |-> apply \ plan,
                      TotalApplyPerms |-> plan \union apply,
                      Unknowns |-> UnknownRows, Unresolved |-> UnresolvedRows,
                      Resources |-> results]

PassExact == TotalsExact /\ UnresolvedExact /\ UnknownsExact /\ RowsExact /\ AnswerLast

-----------------------------------------------------------------------------
(* How a step moves on.                                                     *)

(* The indices of the input, and the arguments, which no step changes.       *)
LEMMA Indices ==
    ASSUME TypeOK
    PROVE  /\ Len(resources) \in Nat /\ DOMAIN resources = 1 .. Len(resources) /\ next \in Nat
           /\ \A i \in DOMAIN resources : IsResource(resources[i])
<1>1. /\ resources \in Seq({resources[i] : i \in DOMAIN resources})
      /\ \A i \in DOMAIN resources : IsResource(resources[i])
  BY InputsAssumption DEF TypeOK
<1>2. Len(resources) \in Nat /\ DOMAIN resources = 1 .. Len(resources)
  BY <1>1
<1> QED BY <1>1, <1>2 DEF TypeOK

LEMMA ArgumentsStay ==
    ASSUME [Next]_vars
    PROVE  /\ resources' = resources /\ cat' = cat /\ excludeDelete' = excludeDelete
           /\ \A i : EntryOf(i)' = EntryOf(i) /\ IsMapped(i)' = IsMapped(i)
                       /\ HasEntry(i)' = HasEntry(i)
           /\ \A i, j : ClauseOf(i, j)' = ClauseOf(i, j) /\ Verdict(i, j)' = Verdict(i, j)
           /\ \A i, ps : StageOf(i, ps)' = StageOf(i, ps)
<1>1. resources' = resources /\ cat' = cat /\ excludeDelete' = excludeDelete
  BY DEF Next, vars, args, SkipKind, RecordUnknown, OpenResource, ApplyConditional,
         ReportMissing, RejectConditional, CloseResource, Finish
<1>2. \A i : EntryOf(i)' = EntryOf(i) /\ IsMapped(i)' = IsMapped(i)
               /\ HasEntry(i)' = HasEntry(i)
  BY <1>1 DEF EntryOf, IsMapped, HasEntry
<1>3. \A i, j : ClauseOf(i, j)' = ClauseOf(i, j) /\ Verdict(i, j)' = Verdict(i, j)
  BY <1>1, <1>2 DEF ClauseOf, Verdict
<1>4. \A i, ps : StageOf(i, ps)' = StageOf(i, ps)
  BY <1>1 DEF StageOf
<1> QED BY <1>1, <1>2, <1>3, <1>4

(* The entry of a block opened is well-typed.                                *)
LEMMA OpenedType ==
    ASSUME TypeOK, NEW i \in Opened
    PROVE  /\ IsResource(resources[i]) /\ EntryOf(i) \in ResolvedEntry
           /\ Len(EntryOf(i).conditionals) \in Nat
           /\ DOMAIN EntryOf(i).conditionals = 1 .. Len(EntryOf(i).conditionals)
           /\ \A j \in DOMAIN EntryOf(i).conditionals : ClauseOf(i, j) \in Conditional
<1>1. IsResource(resources[i]) /\ Found(cat, resources[i])
  BY Indices DEF Opened, HasEntry
<1>2. IsCatalog(cat)
  BY <1>1, CatalogsAssumption DEF TypeOK, Found
<1>3. EntryOf(i) \in ResolvedEntry
  BY <1>1, <1>2, LookupType DEF EntryOf
<1>4. EntryOf(i).conditionals \in Seq(Conditional)
  BY <1>3 DEF ResolvedEntry
<1> QED BY <1>1, <1>3, <1>4 DEF ClauseOf

(* Passing a block over, closing it and finishing leave what is opened and   *)
(* done as it was ...                                                        *)
LEMMA NothingOpened ==
    ASSUME TypeOK, SkipKind \/ RecordUnknown \/ CloseResource \/ Finish \/ UNCHANGED vars
    PROVE  Opened' = Opened /\ \A i \in Opened : DoneOf(i)' = DoneOf(i)
<1>1. [Next]_vars
  BY DEF Next
<1> USE Indices, ArgumentsStay, <1>1
<1>2. CASE SkipKind
  BY <1>2 DEF SkipKind, AtResource, Opened, DoneOf, IsMapped, HasEntry, Mapped, r
<1>3. CASE RecordUnknown
  BY <1>3 DEF RecordUnknown, AtResource, Opened, DoneOf, IsMapped, HasEntry, r
<1>4. CASE CloseResource
  <2>1. /\ pc = "conditional" /\ pc' = "resource" /\ next' = next + 1 /\ next <= Len(resources)
        /\ Found(cat, r) /\ Mapped /\ entry = lookupEntry(cat, r) /\ cond \in Nat
        /\ cond > Len(entry.conditionals)
    BY <1>4 DEF CloseResource, TypeOK
  <2>2. Opened' = Opened
    BY <2>1 DEF Opened, IsMapped, HasEntry, Mapped, r
  <2>3. ASSUME NEW i \in Opened PROVE DoneOf(i)' = DoneOf(i)
    <3>1. CASE i < next
      <4>1. i \in Nat /\ next \in Nat /\ i < next'
        BY <2>1, <3>1 DEF Opened
      <4> QED BY <3>1, <4>1 DEF DoneOf
    <3>2. CASE i = next
      <4>1. EntryOf(i) = entry
        BY <2>1, <3>2 DEF EntryOf, r
      <4>2. \A j \in DOMAIN EntryOf(i).conditionals : j < cond
        BY <2>1, <2>3, <4>1, OpenedType
      <4> QED BY <2>1, <3>2, <4>2 DEF DoneOf
    <3> QED BY <3>1, <3>2 DEF Opened
  <2> QED BY <2>2, <2>3
<1>5. CASE Finish
  BY <1>5 DEF Finish, Opened, DoneOf
<1>6. CASE UNCHANGED vars
  BY <1>6 DEF vars, Opened, DoneOf
<1> QED BY <1>2, <1>3, <1>4, <1>5, <1>6

(* ... looking up an entry opens one block, with none of its conditionals    *)
(* done ...                                                                  *)
LEMMA OneOpened ==
    ASSUME TypeOK, OpenResource
    PROVE  /\ Opened' = Opened \union {next} /\ next \notin Opened
           /\ \A i \in Opened : DoneOf(i)' = DoneOf(i)
           /\ DoneOf(next)' = {} /\ next' = next
           /\ resources[next] = r /\ EntryOf(next) = entry' /\ EntryOf(next) \in ResolvedEntry
<1>1. [Next]_vars
  BY DEF Next
<1> USE Indices, ArgumentsStay, <1>1
<1>2. /\ pc = "resource" /\ pc' = "conditional" /\ next' = next /\ cond' = 1
      /\ next <= Len(resources) /\ Found(cat, r) /\ Mapped /\ entry' = lookupEntry(cat, r)
  BY DEF OpenResource, AtResource
<1>3. next \in DOMAIN resources
  BY <1>2, CurrentResource
<1>4. Opened' = Opened \union {next} /\ next \notin Opened
  BY <1>2, <1>3 DEF Opened, IsMapped, HasEntry, Mapped, r
<1>5. \A i \in Opened : DoneOf(i)' = DoneOf(i)
  BY <1>2 DEF Opened, DoneOf
<1>6. EntryOf(next) = entry' /\ resources[next] = r
  BY <1>2 DEF EntryOf, r
<1>7. EntryOf(next) \in ResolvedEntry
  BY <1>2, <1>6, CurrentResource, CatalogsAssumption, LookupType DEF TypeOK, Found
<1>8. DoneOf(next)' = {}
  <2>1. EntryOf(next).conditionals \in Seq(Conditional)
    BY <1>7 DEF ResolvedEntry
  <2> DEFINE L == EntryOf(next).conditionals
  <2>2. \A j \in DOMAIN L : j \in Nat /\ j >= 1
    BY <2>1
  <2> HIDE DEF L
  <2>3. DoneOf(next)' = {j \in DOMAIN L : next < next \/ j < 1}
    BY <1>2 DEF DoneOf, L
  <2> QED BY <2>2, <2>3
<1> QED BY <1>2, <1>4, <1>5, <1>6, <1>7, <1>8

(* ... and a conditional that has had its turn is done.                      *)
LEMMA OneDone ==
    ASSUME TypeOK, ApplyConditional \/ ReportMissing \/ RejectConditional
    PROVE  /\ Opened' = Opened /\ next \in Opened
           /\ \A i \in Opened : i # next => DoneOf(i)' = DoneOf(i)
           /\ DoneOf(next)' = DoneOf(next) \union {cond} /\ next' = next
           /\ resources[next] = r /\ Current = ClauseOf(next, cond)
           /\ Outcome = Verdict(next, cond)
<1>1. [Next]_vars /\ AtConditional
  BY DEF Next, ApplyConditional, ReportMissing, RejectConditional
<1> USE Indices, ArgumentsStay, <1>1
<1>2. /\ pc = "conditional" /\ pc' = pc /\ next' = next /\ cond' = cond + 1
      /\ next <= Len(resources) /\ Found(cat, r) /\ Mapped /\ entry = lookupEntry(cat, r)
      /\ cond \in 1 .. Len(entry.conditionals)
  <2>1. pc = "conditional" /\ cond <= Len(entry.conditionals) /\ Len(entry.conditionals) \in Nat
    BY CurrentConditional
  <2> QED BY <2>1 DEF TypeOK, ApplyConditional, ReportMissing, RejectConditional
<1>3. next \in Opened
  BY <1>2, CurrentResource DEF Opened, IsMapped, HasEntry, Mapped, r
<1>4. Opened' = Opened
  BY <1>2 DEF Opened
<1>5. \A i \in Opened : i # next => DoneOf(i)' = DoneOf(i)
  BY <1>2 DEF Opened, DoneOf
<1>6. /\ resources[next] = r /\ EntryOf(next) = entry
      /\ Current = ClauseOf(next, cond) /\ Outcome = Verdict(next, cond)
  BY <1>2 DEF EntryOf, ClauseOf, Verdict, Current, Outcome, r
<1>7. DoneOf(next)' = DoneOf(next) \union {cond}
  <2> DEFINE D == DOMAIN EntryOf(next).conditionals
  <2>1. D = 1 .. Len(entry.conditionals) /\ Len(entry.conditionals) \in Nat
    BY <1>3, <1>6, OpenedType
  <2> HIDE DEF D
  <2>2. /\ DoneOf(next) = {j \in D : next < next \/ j < cond}
        /\ DoneOf(next)' = {j \in D : next < next \/ j < cond + 1}
    BY <1>2 DEF DoneOf, D
  <2> QED BY <1>2, <2>1, <2>2
<1> QED BY <1>2, <1>3, <1>4, <1>5, <1>6, <1>7

-----------------------------------------------------------------------------
(* The parts of the invariant, each kept by every step.                     *)

(* A step that books nothing leaves what is booked for each block.           *)
LEMMA BookedStays ==
    ASSUME [Next]_vars, NEW i, DoneOf(i)' = DoneOf(i)
    PROVE  Booked(i)' = Booked(i) /\ PlanOf(i)' = PlanOf(i) /\ ApplyOf(i)' = ApplyOf(i)
<1>1. Booked(i)' = Booked(i)
  BY ArgumentsStay DEF Booked
<1> QED BY <1>1, ArgumentsStay DEF PlanOf, ApplyOf

(* A conditional that fires misses nothing.                                  *)
LEMMA FiredMissesNothing ==
    \A attrs, when : matchesConditional(attrs, when).matched => matchesConditional(attrs, when).missing = {}
BY DEF matchesConditional

LEMMA TotalsStep == TypeOK /\ TotalsExact /\ [Next]_vars => TotalsExact'
<1> SUFFICES ASSUME TypeOK, TotalsExact, [Next]_vars PROVE TotalsExact'
  OBVIOUS
<1>1. CASE SkipKind \/ RecordUnknown \/ CloseResource \/ Finish \/ UNCHANGED vars
  <2>1. plan' = plan /\ apply' = apply
    BY <1>1 DEF SkipKind, RecordUnknown, CloseResource, Finish, vars
  <2>2. Opened' = Opened /\ \A i \in Opened : PlanOf(i)' = PlanOf(i) /\ ApplyOf(i)' = ApplyOf(i)
    BY <1>1, NothingOpened, BookedStays
  <2> QED BY <2>1, <2>2 DEF TotalsExact
<1>2. CASE OpenResource
  <2> DEFINE base == EntryOf(next).base
  <2>1. plan' = plan \union base.Plan /\ apply' = apply \union StageOf(next, base)
    BY <1>2, OneOpened DEF OpenResource, applyPermissionSet, StageOf
  <2>2. /\ Opened' = Opened \union {next} /\ next \notin Opened
        /\ \A i \in Opened : PlanOf(i)' = PlanOf(i) /\ ApplyOf(i)' = ApplyOf(i)
    BY <1>2, OneOpened, BookedStays
  <2>3. Booked(next)' = {base}
    BY <1>2, OneOpened, ArgumentsStay DEF Booked
  <2>4. PlanOf(next)' = base.Plan /\ ApplyOf(next)' = StageOf(next, base) /\ next' = next
    BY <1>2, <2>3, OneOpened, ArgumentsStay DEF PlanOf, ApplyOf
  <2> HIDE DEF base
  <2>5. plan' = UNION {PlanOf(i)' : i \in Opened'}
    <3>1. \A p : p \in plan <=> \E i \in Opened : p \in PlanOf(i)
      BY DEF TotalsExact
    <3>2. \A p : p \in plan' <=> \E i \in Opened' : p \in PlanOf(i)'
      BY <3>1, <2>1, <2>2, <2>4
    <3> QED BY <3>2
  <2>6. apply' = UNION {ApplyOf(i)' : i \in Opened'}
    <3>1. \A p : p \in apply <=> \E i \in Opened : p \in ApplyOf(i)
      BY DEF TotalsExact
    <3>2. \A p : p \in apply' <=> \E i \in Opened' : p \in ApplyOf(i)'
      BY <3>1, <2>1, <2>2, <2>4
    <3> QED BY <3>2
  <2> QED BY <2>5, <2>6 DEF TotalsExact
<1>3. CASE ReportMissing \/ RejectConditional
  <2>1. plan' = plan /\ apply' = apply
    BY <1>3 DEF ReportMissing, RejectConditional
  <2>2. ~Verdict(next, cond).matched
    <3>1. CASE ReportMissing
      BY <3>1, OneDone, FiredMissesNothing DEF ReportMissing, Verdict
    <3>2. CASE RejectConditional
      BY <3>2, OneDone DEF RejectConditional
    <3> QED BY <1>3, <3>1, <3>2
  <2>3. Booked(next)' = Booked(next)
    BY <1>3, <2>2, OneDone, ArgumentsStay DEF Booked
  <2>4. PlanOf(next)' = PlanOf(next) /\ ApplyOf(next)' = ApplyOf(next)
    BY <1>3, <2>3, OneDone, ArgumentsStay DEF PlanOf, ApplyOf
  <2>5. Opened' = Opened /\ \A i \in Opened : PlanOf(i)' = PlanOf(i) /\ ApplyOf(i)' = ApplyOf(i)
    BY <1>3, <2>4, OneDone, BookedStays
  <2> QED BY <2>1, <2>5 DEF TotalsExact
<1>4. CASE ApplyConditional
  <2> DEFINE perms == ClauseOf(next, cond).permissions
  <2>1. plan' = plan \union perms.Plan /\ apply' = apply \union StageOf(next, perms)
    BY <1>4, OneDone DEF ApplyConditional, applyPermissionSet, StageOf
  <2>2. Booked(next)' = Booked(next) \union {perms}
    BY <1>4, OneDone, ArgumentsStay DEF Booked, ApplyConditional
  <2>3. /\ PlanOf(next)' = PlanOf(next) \union perms.Plan
        /\ ApplyOf(next)' = ApplyOf(next) \union StageOf(next, perms)
    BY <1>4, <2>2, OneDone, ArgumentsStay DEF PlanOf, ApplyOf
  <2>4. /\ Opened' = Opened /\ next \in Opened /\ next' = next
        /\ \A i \in Opened : i # next => PlanOf(i)' = PlanOf(i) /\ ApplyOf(i)' = ApplyOf(i)
    BY <1>4, OneDone, BookedStays
  <2> HIDE DEF perms
  <2>5. plan' = UNION {PlanOf(i)' : i \in Opened'}
    <3>1. \A p : p \in plan <=> \E i \in Opened : p \in PlanOf(i)
      BY DEF TotalsExact
    <3>2. \A p : p \in plan' <=> \E i \in Opened' : p \in PlanOf(i)'
      BY <3>1, <2>1, <2>3, <2>4
    <3> QED BY <3>2
  <2>6. apply' = UNION {ApplyOf(i)' : i \in Opened'}
    <3>1. \A p : p \in apply <=> \E i \in Opened : p \in ApplyOf(i)
      BY DEF TotalsExact
    <3>2. \A p : p \in apply' <=> \E i \in Opened' : p \in ApplyOf(i)'
      BY <3>1, <2>1, <2>3, <2>4
    <3> QED BY <3>2
  <2> QED BY <2>5, <2>6 DEF TotalsExact
<1> QED BY <1>1, <1>2, <1>3, <1>4 DEF Next

(* A key is written for an attribute missed, and an older one with the same  *)
(* key is overwritten by what it stood for.                                  *)
LEMMA UnresolvedStep == TypeOK /\ UnresolvedExact /\ [Next]_vars => UnresolvedExact'
<1> SUFFICES ASSUME TypeOK, UnresolvedExact, [Next]_vars PROVE UnresolvedExact'
  OBVIOUS
<1> USE ArgumentsStay
<1>1. CASE SkipKind \/ RecordUnknown \/ CloseResource \/ Finish \/ UNCHANGED vars
  <2>1. unresolved' = unresolved
    BY <1>1 DEF SkipKind, RecordUnknown, CloseResource, Finish, vars
  <2> QED BY <1>1, <2>1, NothingOpened DEF UnresolvedExact
<1>2. CASE OpenResource
  <2>1. unresolved' = unresolved
    BY <1>2 DEF OpenResource
  <2> QED BY <1>2, <2>1, OneOpened DEF UnresolvedExact
<1>3. CASE ApplyConditional \/ RejectConditional
  <2>1. unresolved' = unresolved
    BY <1>3 DEF ApplyConditional, RejectConditional
  <2>2. Verdict(next, cond).missing = {}
    <3>1. CASE ApplyConditional
      BY <3>1, OneDone, FiredMissesNothing DEF ApplyConditional, Verdict
    <3>2. CASE RejectConditional
      BY <3>2, OneDone DEF RejectConditional
    <3> QED BY <1>3, <3>1, <3>2
  <2> QED BY <1>3, <2>1, <2>2, OneDone DEF UnresolvedExact
<1>4. CASE ReportMissing
  <2> DEFINE missing == Verdict(next, cond).missing
             keys == {unresolvedRecordKey(r, a) : a \in missing}
             said(k) == [path |-> r.path, reason |-> unresolvedReasonFor(r, k.attr)]
  <2>1. unresolved' = PutAll(unresolved, keys, [k \in keys |-> said(k)])
    BY <1>4, OneDone DEF ReportMissing
  <2>2. \A a : unresolvedRecordKey(r, a).attr = a
    BY DEF unresolvedRecordKey
  <2>3. /\ DOMAIN unresolved' = DOMAIN unresolved \union keys
        /\ \A k \in keys : unresolved'[k] = said(k)
        /\ \A k \in DOMAIN unresolved \ keys : unresolved'[k] = unresolved[k]
    BY <2>1 DEF PutAll
  <2>4. Opened' = Opened /\ \A i \in Opened : DoneOf(i) \subseteq DoneOf(i)'
    BY <1>4, OneDone
  <2>5. ASSUME NEW i \in Opened, NEW j \in DoneOf(i)', NEW a \in Verdict(i, j).missing
        PROVE  unresolvedRecordKey(resources[i], a) \in DOMAIN unresolved'
    <3>1. CASE j \in DoneOf(i)
      BY <2>3, <3>1 DEF UnresolvedExact
    <3>2. CASE j \notin DoneOf(i)
      <4>1. i = next /\ j = cond /\ resources[i] = r
        BY <1>4, <3>2, OneDone
      <4> QED BY <2>3, <4>1
    <3> QED BY <3>1, <3>2
  <2>6. ASSUME NEW k \in DOMAIN unresolved'
        PROVE  \E i \in Opened : \E j \in DoneOf(i)' : \E a \in Verdict(i, j).missing :
                 /\ k = unresolvedRecordKey(resources[i], a)
                 /\ unresolved'[k] = [path |-> resources[i].path,
                                      reason |-> unresolvedReasonFor(resources[i], a)]
    <3>1. CASE k \in keys
      <4>1. PICK a \in missing : k = unresolvedRecordKey(r, a)
        BY <3>1
      <4>2. unresolved'[k] = [path |-> r.path, reason |-> unresolvedReasonFor(r, a)]
        BY <2>2, <2>3, <3>1, <4>1
      <4>3. next \in Opened /\ next' = next /\ cond \in DoneOf(next)' /\ resources[next] = r
        BY <1>4, OneDone
      <4> QED BY <4>1, <4>2, <4>3
    <3>2. CASE k \notin keys
      <4>1. k \in DOMAIN unresolved /\ unresolved'[k] = unresolved[k]
        BY <2>3, <3>2
      <4> QED BY <2>4, <4>1 DEF UnresolvedExact
    <3> QED BY <3>1, <3>2
  <2> QED BY <2>4, <2>5, <2>6 DEF UnresolvedExact
<1> QED BY <1>1, <1>2, <1>3, <1>4 DEF Next

LEMMA UnknownsStep == TypeOK /\ UnknownsExact /\ [Next]_vars => UnknownsExact'
<1> SUFFICES ASSUME TypeOK, UnknownsExact, [Next]_vars PROVE UnknownsExact'
  OBVIOUS
<1> USE ArgumentsStay, Indices
<1>1. CASE RecordUnknown
  <2>1. /\ next' = next + 1 /\ IsMapped(next) /\ ~HasEntry(next)
        /\ unknowns' = Put(unknowns, unknownKey(resources[next]), resources[next].path)
    BY <1>1 DEF RecordUnknown, Mapped, IsMapped, HasEntry, r
  <2>2. 1 .. next' - 1 = (1 .. next - 1) \union {next}
    BY <2>1 DEF TypeOK
  <2> DEFINE key == unknownKey(resources[next])
  <2>3. /\ DOMAIN unknowns' = DOMAIN unknowns \union {key}
        /\ unknowns'[key] = resources[next].path
        /\ \A k \in DOMAIN unknowns \ {key} : unknowns'[k] = unknowns[k]
    BY <2>1 DEF Put
  <2>4. \A i \in 1 .. next' - 1 : IsMapped(i) /\ ~HasEntry(i) =>
            unknownKey(resources[i]) \in DOMAIN unknowns'
    BY <2>2, <2>3 DEF UnknownsExact
  <2>5. ASSUME NEW k \in DOMAIN unknowns'
        PROVE  \E i \in 1 .. next' - 1 :
                 /\ IsMapped(i) /\ ~HasEntry(i)
                 /\ k = unknownKey(resources[i]) /\ unknowns'[k] = resources[i].path
    <3>1. CASE k = key
      BY <2>1, <2>2, <2>3, <3>1
    <3>2. CASE k # key
      BY <2>2, <2>3, <3>2 DEF UnknownsExact
    <3> QED BY <3>1, <3>2
  <2> QED BY <2>4, <2>5 DEF UnknownsExact
<1>2. CASE SkipKind
  <2>1. next' = next + 1 /\ ~IsMapped(next) /\ unknowns' = unknowns
    BY <1>2 DEF SkipKind, Mapped, IsMapped, r
  <2>2. 1 .. next' - 1 = (1 .. next - 1) \union {next}
    BY <2>1 DEF TypeOK
  <2> QED BY <2>1, <2>2 DEF UnknownsExact
<1>3. CASE CloseResource
  <2>1. next' = next + 1 /\ HasEntry(next) /\ unknowns' = unknowns
    BY <1>3 DEF CloseResource, TypeOK, HasEntry, r
  <2>2. 1 .. next' - 1 = (1 .. next - 1) \union {next}
    BY <2>1 DEF TypeOK
  <2> QED BY <2>1, <2>2 DEF UnknownsExact
<1>4. CASE ~(RecordUnknown \/ SkipKind \/ CloseResource)
  <2>1. next' = next /\ unknowns' = unknowns
    BY <1>4 DEF Next, vars, OpenResource, ApplyConditional, ReportMissing, RejectConditional, Finish
  <2> QED BY <2>1 DEF UnknownsExact
<1> QED BY <1>1, <1>2, <1>3, <1>4

LEMMA RowsStep == TypeOK /\ RowsExact /\ [Next]_vars => RowsExact'
<1> SUFFICES ASSUME TypeOK, RowsExact, [Next]_vars PROVE RowsExact'
  OBVIOUS
<1> USE ArgumentsStay, Indices
<1> DEFINE Closed == {k \in Opened : k < next}
<1>1. CASE CloseResource
  <2>1. /\ next' = next + 1 /\ results' = Append(results, row) /\ results \in Seq(Rows)
        /\ row \in Rows /\ Identity(row) = Identity(resources[next])
        /\ next \in Opened
    <3>1. /\ pc = "conditional" /\ next <= Len(resources) /\ Found(cat, r) /\ Mapped
          /\ results \in Seq(Rows) /\ row \in Rows /\ Identity(row) = Identity(r)
      BY <1>1 DEF CloseResource, TypeOK
    <3>2. next \in Opened
      BY <3>1, CurrentResource DEF Opened, IsMapped, HasEntry, Mapped, r
    <3> QED BY <1>1, <3>1, <3>2 DEF CloseResource, r
  <2>2. ToSet(results') = ToSet(results) \union {row}
    BY <2>1, RowsGrow
  <2>3. Opened' = Opened
    BY <1>1, NothingOpened
  <2>4. Closed' = Closed \union {next}
    BY <2>1, <2>3 DEF Opened
  <2> HIDE DEF Closed
  <2>5. {Identity(resources[i]) : i \in Closed \union {next}}
           = {Identity(resources[i]) : i \in Closed} \union {Identity(resources[next])}
    OBVIOUS
  <2>6. {Identity(x) : x \in ToSet(results) \union {row}}
           = {Identity(x) : x \in ToSet(results)} \union {Identity(row)}
    OBVIOUS
  <2>7. {Identity(x) : x \in ToSet(results)} = {Identity(resources[i]) : i \in Closed}
    BY DEF RowsExact, Closed
  <2>8. {Identity(x) : x \in ToSet(results')} = {Identity(resources[i]) : i \in Closed'}
    BY <2>1, <2>2, <2>4, <2>5, <2>6, <2>7
  <2> QED BY <2>8 DEF RowsExact, Closed
<1>2. CASE ~CloseResource
  <2>1. results' = results
    BY <1>2 DEF Next, vars, SkipKind, RecordUnknown, OpenResource, ApplyConditional,
                ReportMissing, RejectConditional, Finish
  <2>2. Closed' = Closed
    <3>1. CASE OpenResource
      BY <3>1, OneOpened DEF OpenResource
    <3>2. CASE ApplyConditional \/ ReportMissing \/ RejectConditional
      BY <3>2, OneDone DEF ApplyConditional, ReportMissing, RejectConditional
    <3>3. CASE Finish \/ UNCHANGED vars
      BY <3>3, NothingOpened DEF Finish, vars
    <3>4. CASE SkipKind \/ RecordUnknown
      <4>1. Opened' = Opened /\ pc = "resource" /\ next' = next + 1
        BY <3>4, NothingOpened DEF SkipKind, RecordUnknown, AtResource
      <4>2. \A i \in Opened : i < next
        BY <4>1 DEF Opened
      <4> QED BY <4>1, <4>2 DEF Opened
    <3> QED BY <1>2, <3>1, <3>2, <3>3, <3>4 DEF Next
  <2> HIDE DEF Closed
  <2>3. {Identity(x) : x \in ToSet(results')} = {Identity(resources[i]) : i \in Closed'}
    BY <2>1, <2>2 DEF RowsExact, Closed, ToSet
  <2> QED BY <2>3 DEF RowsExact, Closed
<1> QED BY <1>1, <1>2

LEMMA AnswerStep == TypeOK /\ AnswerLast /\ [Next]_vars => AnswerLast'
BY DEF AnswerLast, Next, vars, args, SkipKind, RecordUnknown, OpenResource, ApplyConditional,
       ReportMissing, RejectConditional, CloseResource, Finish, UnknownRows, UnresolvedRows,
       AtResource, AtConditional

(* Before the first block nothing has been booked, missed or answered.       *)
LEMMA PassInit == Init => PassExact
<1> SUFFICES ASSUME Init PROVE PassExact
  OBVIOUS
<1>1. Opened = {}
  BY TypeInit, Indices DEF Init, Opened
<1>2. TotalsExact
  BY <1>1 DEF TotalsExact, Init
<1>3. UnresolvedExact /\ UnknownsExact /\ RowsExact /\ AnswerLast
  BY <1>1 DEF UnresolvedExact, UnknownsExact, RowsExact, AnswerLast, Init, ToSet
<1> QED BY <1>2, <1>3 DEF PassExact

LEMMA PassStep == TypeOK /\ PassExact /\ [Next]_vars => PassExact'
BY TotalsStep, UnresolvedStep, UnknownsStep, RowsStep, AnswerStep DEF PassExact

(* For every catalog and configuration, the running sets, the maps and the   *)
(* rows hold exactly what the blocks and conditionals gone by give.          *)
THEOREM PassAlwaysExact == Spec => [](TypeOK /\ PassExact)
<1>1. TypeOK /\ PassExact /\ [Next]_vars => (TypeOK /\ PassExact)'
  BY TypeStep, PassStep
<1> QED BY TypeInit, PassInit, <1>1, PTL DEF Spec

-----------------------------------------------------------------------------
(* What the pass computes of a conditional is what the promise means by it. *)

(* The promise reads the catalog and the blocks as the pass does.            *)
LEMMA SameReading ==
    /\ \A c, x : Required!Found(c, x) <=> Found(c, x)
    /\ \A c, x : Required!lookupEntry(c, x) = lookupEntry(c, x)
    /\ \A v, l : Required!ctyValueEqualsLiteral(v, l) <=> ctyValueEqualsLiteral(v, l)
    /\ \A x : Required!Identity(x) = Identity(x)
    /\ \A x, a : Required!ReasonOf(x, a) = unresolvedReasonFor(x, a)
<1>1. \A c, x : /\ Required!InResources(c, x) <=> InResources(c, x)
                /\ Required!InIAMBindings(c, x) <=> InIAMBindings(c, x)
                /\ Required!InDataSources(c, x) <=> InDataSources(c, x)
  BY DEF Required!InResources, Required!InIAMBindings, Required!InDataSources,
         InResources, InIAMBindings, InDataSources
<1>2. \A conds : /\ Required!projectConditionals(conds) = projectConditionals(conds)
                 /\ Required!projectDataSourceConditionals(conds) = projectDataSourceConditionals(conds)
  BY DEF Required!projectConditionals, projectConditionals, Required!PlanOnly, PlanOnly,
         Required!projectDataSourceConditionals, projectDataSourceConditionals
<1>3. \A c, x : Required!Found(c, x) <=> Found(c, x)
  BY <1>1 DEF Required!Found, Found
<1>4. \A c, x : Required!lookupEntry(c, x) = lookupEntry(c, x)
  BY <1>1, <1>2 DEF Required!lookupEntry, lookupEntry, Required!PlanOnly, PlanOnly
<1>5. \A v, l : Required!ctyValueEqualsLiteral(v, l) <=> ctyValueEqualsLiteral(v, l)
  BY DEF Required!ctyValueEqualsLiteral, ctyValueEqualsLiteral
<1>6. \A x : Required!Identity(x) = Identity(x)
  BY DEF Required!Identity, Identity
<1>7. \A x, a : Required!ReasonOf(x, a) = unresolvedReasonFor(x, a)
  BY DEF Required!ReasonOf, unresolvedReasonFor
<1> QED BY <1>3, <1>4, <1>5, <1>6, <1>7

(* What is not known is what could not be read.                              *)
LEMMA UnreadIsNotKnown ==
    \A x, w : DOMAIN w \ Required!Known(x) = Unread(x.attrs, w)
BY DEF Required!Known, Unread

(* An attribute that was not read may always come out otherwise: so a        *)
(* conditional fires in every completion exactly if the pass matches it.     *)
LEMMA FiresIsMatched ==
    ASSUME NEW x, IsResource(x), NEW c \in Conditional
    PROVE  Required!Fires(x, c) <=> matchesConditional(x.attrs, c.when).matched
<1> DEFINE w == c.when
           K == Required!Known(x)
<1>1. w \in [DOMAIN w -> Literal] /\ DOMAIN w \subseteq Attr
  BY DEF Conditional, When
<1>2. \A a \in K : a \in DOMAIN x.attrs /\ x.attrs[a] \in Value
  BY DEF Required!Known, IsResource, IsMap
<1>3. Unread(x.attrs, w) = DOMAIN w \ K
  BY UnreadIsNotKnown
<1>4. matchesConditional(x.attrs, w).matched <=>
         /\ DOMAIN w \subseteq K
         /\ \A a \in DOMAIN w : ctyValueEqualsLiteral(x.attrs[a], w[a])
  BY <1>3 DEF matchesConditional, Mismatch
<1>5. Required!Fires(x, c) <=>
         \A f \in [DOMAIN w -> Value] :
            (\A a \in DOMAIN w \cap K : f[a] = x.attrs[a])
               => \A a \in DOMAIN w : ctyValueEqualsLiteral(f[a], w[a])
  BY SameReading DEF Required!Fires, Required!Completions, Required!Holds
<1>6. ASSUME DOMAIN w \subseteq K, \A a \in DOMAIN w : ctyValueEqualsLiteral(x.attrs[a], w[a])
      PROVE  Required!Fires(x, c)
  BY <1>5, <1>6
<1>7. ASSUME Required!Fires(x, c)
      PROVE  /\ DOMAIN w \subseteq K
             /\ \A a \in DOMAIN w : ctyValueEqualsLiteral(x.attrs[a], w[a])
  <2> DEFINE other(a) == CHOOSE v \in Value : ~ctyValueEqualsLiteral(v, w[a])
             f == [a \in DOMAIN w |-> IF a \in K THEN x.attrs[a] ELSE other(a)]
  <2>1. \A a \in DOMAIN w : other(a) \in Value /\ ~ctyValueEqualsLiteral(other(a), w[a])
    BY <1>1, ValueAssumption
  <2> HIDE DEF other
  <2>2. f \in [DOMAIN w -> Value] /\ \A a \in DOMAIN w \cap K : f[a] = x.attrs[a]
    BY <1>2, <2>1
  <2>3. \A a \in DOMAIN w : ctyValueEqualsLiteral(f[a], w[a])
    BY <1>5, <1>7, <2>2
  <2>4. DOMAIN w \subseteq K
    BY <2>1, <2>3
  <2> QED BY <2>2, <2>3, <2>4
<1> QED BY <1>4, <1>6, <1>7

(* An open conditional is one that misses something; and one that misses     *)
(* something is open, or asks for what no value equals.                      *)
LEMMA OpenIsMissing ==
    ASSUME NEW x, IsResource(x), NEW c \in Conditional
    PROVE  LET missing == matchesConditional(x.attrs, c.when).missing
           IN  /\ Required!Open(x, c) => missing # {}
               /\ missing # {} =>
                    /\ Required!Open(x, c) \/ Required!HasNestedLiteral(c)
                    /\ missing = DOMAIN c.when \ Required!Known(x)
<1> DEFINE w == c.when
           K == Required!Known(x)
           verdict == matchesConditional(x.attrs, w)
<1>1. w \in [DOMAIN w -> Literal]
  BY DEF Conditional, When
<1>2. \A a \in K : a \in DOMAIN x.attrs /\ x.attrs[a] \in Value
  BY DEF Required!Known, IsResource, IsMap
<1>3. Unread(x.attrs, w) = DOMAIN w \ K
  BY UnreadIsNotKnown
<1>4. Mismatch(x.attrs, w) <=> \E a \in DOMAIN w \cap K : ~ctyValueEqualsLiteral(x.attrs[a], w[a])
  BY <1>3 DEF Mismatch
<1>5. verdict.missing = IF Mismatch(x.attrs, w) THEN {} ELSE DOMAIN w \ K
  BY <1>3 DEF matchesConditional
<1>6. verdict.matched <=> ~Mismatch(x.attrs, w) /\ DOMAIN w \ K = {}
  BY <1>3 DEF matchesConditional
<1>7. Required!Fires(x, c) <=> verdict.matched
  BY FiresIsMatched
<1>8. Required!Open(x, c) <=>
         /\ ~verdict.matched
         /\ \E f \in [DOMAIN w -> Value] :
              /\ \A a \in DOMAIN w \cap K : f[a] = x.attrs[a]
              /\ \A a \in DOMAIN w : ctyValueEqualsLiteral(f[a], w[a])
  BY <1>7, SameReading DEF Required!Open, Required!Completions, Required!Holds
<1>9. ASSUME Required!Open(x, c) PROVE verdict.missing # {}
  BY <1>4, <1>5, <1>6, <1>8, <1>9
<1>10. ASSUME verdict.missing # {}, ~Required!HasNestedLiteral(c) PROVE Required!Open(x, c)
  <2> DEFINE same(a) == CHOOSE v \in Value : ctyValueEqualsLiteral(v, w[a])
             f == [a \in DOMAIN w |-> IF a \in K THEN x.attrs[a] ELSE same(a)]
  <2>1. \A a \in DOMAIN w : same(a) \in Value /\ ctyValueEqualsLiteral(same(a), w[a])
    BY <1>10, SameReading DEF Required!HasNestedLiteral
  <2> HIDE DEF same
  <2>2. f \in [DOMAIN w -> Value] /\ \A a \in DOMAIN w \cap K : f[a] = x.attrs[a]
    BY <1>2, <2>1
  <2>3. \A a \in DOMAIN w : ctyValueEqualsLiteral(f[a], w[a])
    BY <1>4, <1>5, <1>10, <2>1
  <2> QED BY <1>5, <1>6, <1>8, <1>10, <2>2, <2>3
<1>11. verdict.missing # {} => verdict.missing = DOMAIN w \ K
  BY <1>5
<1> HIDE DEF verdict
<1>12. /\ Required!Open(x, c) => verdict.missing # {}
       /\ verdict.missing # {} =>
            /\ Required!Open(x, c) \/ Required!HasNestedLiteral(c)
            /\ verdict.missing = DOMAIN w \ K
  BY <1>9, <1>10, <1>11
<1> QED BY <1>12 DEF verdict

-----------------------------------------------------------------------------
(* The maps and the rows, read at the end.                                  *)

WarningAt(i, a) == [type |-> resources[i].type, block |-> resources[i].block,
                    path |-> resources[i].path, attr |-> a,
                    reason |-> unresolvedReasonFor(resources[i], a)]

(* The rows of the unresolved map are the attributes missed, each under the  *)
(* path of its own block: two instances never share a key, since the         *)
(* encoding of paths is one-to-one and no instance occurs twice.             *)
LEMMA UnresolvedRowsExact ==
    ASSUME TypeOK, UnresolvedExact
    PROVE  \A w : w \in UnresolvedRows <=>
              \E i \in Opened : \E j \in DoneOf(i) : \E a \in Verdict(i, j).missing : w = WarningAt(i, a)
<1> DEFINE rowOf(k) == [type |-> k.type, block |-> k.block, path |-> unresolved[k].path,
                        attr |-> k.attr, reason |-> unresolved[k].reason]
<1>1. \A w : w \in UnresolvedRows <=> \E k \in DOMAIN unresolved : w = rowOf(k)
  BY DEF UnresolvedRows
<1>2. \A i, a : /\ unresolvedRecordKey(resources[i], a).type = resources[i].type
                /\ unresolvedRecordKey(resources[i], a).block = resources[i].block
                /\ unresolvedRecordKey(resources[i], a).attr = a
                /\ unresolvedRecordKey(resources[i], a).pathKey = encodeModulePath(resources[i].path)
  BY DEF unresolvedRecordKey
<1>3. ASSUME NEW k \in DOMAIN unresolved
      PROVE  \E i \in Opened : \E j \in DoneOf(i) : \E a \in Verdict(i, j).missing :
                rowOf(k) = WarningAt(i, a) /\ k = unresolvedRecordKey(resources[i], a)
  <2>1. PICK i \in Opened : \E j \in DoneOf(i) : \E a \in Verdict(i, j).missing :
           /\ k = unresolvedRecordKey(resources[i], a)
           /\ unresolved[k] = [path |-> resources[i].path,
                               reason |-> unresolvedReasonFor(resources[i], a)]
    BY DEF UnresolvedExact
  <2>2. PICK j \in DoneOf(i) : \E a \in Verdict(i, j).missing :
           /\ k = unresolvedRecordKey(resources[i], a)
           /\ unresolved[k] = [path |-> resources[i].path,
                               reason |-> unresolvedReasonFor(resources[i], a)]
    BY <2>1
  <2>3. PICK a \in Verdict(i, j).missing :
           /\ k = unresolvedRecordKey(resources[i], a)
           /\ unresolved[k] = [path |-> resources[i].path,
                               reason |-> unresolvedReasonFor(resources[i], a)]
    BY <2>2
  <2>4. unresolved[k].path = resources[i].path
        /\ unresolved[k].reason = unresolvedReasonFor(resources[i], a)
    BY <2>3
  <2>5. k.type = resources[i].type /\ k.block = resources[i].block /\ k.attr = a
    BY <1>2, <2>3
  <2>6. rowOf(k) = WarningAt(i, a)
    BY <2>4, <2>5 DEF WarningAt
  <2> QED BY <2>3, <2>6
<1>4. ASSUME NEW i \in Opened, NEW j \in DoneOf(i), NEW a \in Verdict(i, j).missing
      PROVE  \E k \in DOMAIN unresolved : WarningAt(i, a) = rowOf(k)
  <2> DEFINE k == unresolvedRecordKey(resources[i], a)
  <2>1. k \in DOMAIN unresolved
    BY DEF UnresolvedExact
  <2>0. PICK i2 \in Opened : \E a2 : rowOf(k) = WarningAt(i2, a2) /\ k = unresolvedRecordKey(resources[i2], a2)
    BY <1>3, <2>1
  <2>2. PICK a2 : rowOf(k) = WarningAt(i2, a2) /\ k = unresolvedRecordKey(resources[i2], a2)
    BY <2>0
  <2>3. /\ a2 = a /\ resources[i2].block = resources[i].block
        /\ encodeModulePath(resources[i2].path) = encodeModulePath(resources[i].path)
    <3>1. k.attr = a /\ k.block = resources[i].block /\ k.pathKey = encodeModulePath(resources[i].path)
      BY <1>2
    <3> HIDE DEF k
    <3>2. /\ k.attr = a2 /\ k.block = resources[i2].block
          /\ k.pathKey = encodeModulePath(resources[i2].path)
      BY <1>2, <2>2
    <3> QED BY <3>1, <3>2
  <2>4. i \in DOMAIN resources /\ i2 \in DOMAIN resources
    BY DEF Opened
  <2>5. resources[i2].path = resources[i].path
    BY <2>3, <2>4, Indices, PathAssumption DEF IsResource
  <2>6. i2 = i
    BY <2>3, <2>4, <2>5, InputsAssumption DEF TypeOK
  <2> QED BY <2>1, <2>2, <2>3, <2>6
<1> QED BY <1>1, <1>3, <1>4

(* The rows of the unknowns map are the blocks passed without an entry.      *)
LEMMA UnknownRowsExact ==
    ASSUME TypeOK, UnknownsExact, next > Len(resources)
    PROVE  \A u : u \in UnknownRows <=>
              \E i \in DOMAIN resources : IsMapped(i) /\ ~HasEntry(i) /\ u = Identity(resources[i])
<1> DEFINE rowOf(k) == [type |-> k.type, block |-> k.block, path |-> unknowns[k]]
<1>1. \A u : u \in UnknownRows <=> \E k \in DOMAIN unknowns : u = rowOf(k)
  BY DEF UnknownRows
<1>2. 1 .. next - 1 = DOMAIN resources
  BY Indices DEF TypeOK
<1>3. \A i : /\ unknownKey(resources[i]).type = resources[i].type
             /\ unknownKey(resources[i]).block = resources[i].block
             /\ unknownKey(resources[i]).pathKey = encodeModulePath(resources[i].path)
  BY DEF unknownKey
<1>4. ASSUME NEW k \in DOMAIN unknowns
      PROVE  \E i \in DOMAIN resources :
                IsMapped(i) /\ ~HasEntry(i) /\ rowOf(k) = Identity(resources[i]) /\ k = unknownKey(resources[i])
  <2>1. PICK i \in DOMAIN resources :
           /\ IsMapped(i) /\ ~HasEntry(i)
           /\ k = unknownKey(resources[i]) /\ unknowns[k] = resources[i].path
    BY <1>2 DEF UnknownsExact
  <2>2. k.type = resources[i].type /\ k.block = resources[i].block
    BY <1>3, <2>1
  <2>3. rowOf(k) = Identity(resources[i])
    BY <2>1, <2>2 DEF Identity
  <2> QED BY <2>1, <2>3
<1>5. ASSUME NEW i \in DOMAIN resources, IsMapped(i), ~HasEntry(i)
      PROVE  \E k \in DOMAIN unknowns : Identity(resources[i]) = rowOf(k)
  <2> DEFINE k == unknownKey(resources[i])
  <2>1. k \in DOMAIN unknowns
    BY <1>2, <1>5 DEF UnknownsExact
  <2>2. PICK i2 \in DOMAIN resources :
           rowOf(k) = Identity(resources[i2]) /\ k = unknownKey(resources[i2])
    BY <1>4, <2>1
  <2>3. resources[i2].path = resources[i].path
    BY <1>3, <2>2, Indices, PathAssumption DEF IsResource
  <2>4. Identity(resources[i2]) = Identity(resources[i])
    BY <1>3, <2>2, <2>3 DEF Identity
  <2> QED BY <2>1, <2>2, <2>4
<1> QED BY <1>1, <1>4, <1>5

(* Past the last block, every block with an entry is opened and each of its  *)
(* conditionals done.                                                        *)
LEMMA AllGone ==
    ASSUME TypeOK, next > Len(resources)
    PROVE  /\ Opened = {i \in DOMAIN resources : IsMapped(i) /\ HasEntry(i)}
           /\ \A i \in Opened : i < next /\ DoneOf(i) = DOMAIN EntryOf(i).conditionals
<1>1. \A i \in DOMAIN resources : i < next
  BY Indices
<1> QED BY <1>1 DEF Opened, DoneOf

-----------------------------------------------------------------------------
(* The answer of the pass, part by part, is the one promised.               *)

LEMMA MappedBlocksAre ==
    ASSUME TypeOK, next > Len(resources)
    PROVE  /\ Required!MappedBlocks = {resources[i] : i \in Opened}
           /\ Required!Blocks \ Required!MappedBlocks
                = {resources[i] : i \in {k \in DOMAIN resources : IsMapped(k) /\ ~HasEntry(k)}}
BY AllGone, SameReading DEF Required!Blocks, Required!MappedBlocks, IsMapped, HasEntry

LEMMA AskedIsBooked ==
    ASSUME TypeOK, next > Len(resources), NEW i \in Opened
    PROVE  Required!Asked(resources[i]) = Booked(i)
<1> DEFINE x == resources[i]
           conds == EntryOf(i).conditionals
<1>1. /\ Required!lookupEntry(cat, x) = EntryOf(i)
      /\ \A j \in DOMAIN conds : conds[j] = ClauseOf(i, j)
      /\ DoneOf(i) = DOMAIN conds
  BY AllGone, SameReading DEF EntryOf, ClauseOf
<1>2. \A j \in DOMAIN conds : Required!Fires(x, ClauseOf(i, j)) <=> Verdict(i, j).matched
  BY OpenedType, FiresIsMatched DEF Verdict
<1>3. Required!ConditionalsOf(x) = {ClauseOf(i, j) : j \in DOMAIN conds}
  BY <1>1 DEF Required!ConditionalsOf
<1> HIDE DEF conds, x
<1>4. \A ps : (\E c \in Required!ConditionalsOf(x) : Required!Fires(x, c) /\ ps = c.permissions)
                <=> \E j \in DOMAIN conds : Verdict(i, j).matched /\ ps = ClauseOf(i, j).permissions
  BY <1>2, <1>3
<1>5. \A ps : ps \in Required!Asked(x) <=>
         \/ ps = EntryOf(i).base
         \/ \E c \in Required!ConditionalsOf(x) : Required!Fires(x, c) /\ ps = c.permissions
  BY <1>1 DEF Required!Asked
<1>6. \A ps : ps \in Booked(i) <=>
         \/ ps = EntryOf(i).base
         \/ \E j \in DOMAIN conds : Verdict(i, j).matched /\ ps = ClauseOf(i, j).permissions
  BY <1>1 DEF Booked
<1> QED BY <1>4, <1>5, <1>6, ZenonT(60) DEF x

(* The running sets are the permissions needed.                              *)
LEMMA TotalsAreNeeded ==
    ASSUME TypeOK, TotalsExact, next > Len(resources)
    PROVE  plan = Required!NeededToPlan /\ apply = Required!NeededToApply
<1>1. \A i \in Opened : \A ps :
         StageOf(i, ps) = ps.Create \union ps.Update
                            \union (IF Required!MayDelete(resources[i]) THEN ps.Delete ELSE {})
  BY DEF StageOf, ApplyStage, Required!MayDelete
<1>2. plan = Required!NeededToPlan
  <2>1. \A p : p \in plan <=> \E i \in Opened : \E ps \in Booked(i) : p \in ps.Plan
    BY DEF TotalsExact, PlanOf
  <2>2. \A p : p \in Required!NeededToPlan <=>
           \E i \in Opened : \E ps \in Required!Asked(resources[i]) : p \in ps.Plan
    BY MappedBlocksAre DEF Required!NeededToPlan
  <2> QED BY <2>1, <2>2, AskedIsBooked
<1>3. apply = Required!NeededToApply
  <2>1. \A p : p \in apply <=> \E i \in Opened : \E ps \in Booked(i) : p \in StageOf(i, ps)
    BY DEF TotalsExact, ApplyOf
  <2>2. \A p : p \in Required!NeededToApply <=>
           \E i \in Opened : \E ps \in Required!Asked(resources[i]) : p \in StageOf(i, ps)
    BY <1>1, MappedBlocksAre DEF Required!NeededToApply
  <2> QED BY <2>1, <2>2, AskedIsBooked
<1> QED BY <1>2, <1>3

(* Every warning the promise demands is given, and none it does not allow.   *)
LEMMA WarningsAllowed ==
    ASSUME TypeOK, UnresolvedExact, next > Len(resources)
    PROVE  Required!MustWarn \subseteq UnresolvedRows /\ UnresolvedRows \subseteq Required!MayWarn
<1>1. \A i \in Opened : \A j \in DoneOf(i) :
         /\ IsResource(resources[i]) /\ ClauseOf(i, j) \in Conditional
         /\ Verdict(i, j) = matchesConditional(resources[i].attrs, ClauseOf(i, j).when)
  BY AllGone, OpenedType DEF Verdict
<1>2. \A i \in Opened : \A c :
         c \in Required!ConditionalsOf(resources[i]) <=> \E j \in DoneOf(i) : c = ClauseOf(i, j)
  BY AllGone, SameReading DEF Required!ConditionalsOf, EntryOf, ClauseOf
<1>3. \A i, c : Required!Warnings(resources[i], c) =
                   {WarningAt(i, a) : a \in DOMAIN c.when \ Required!Known(resources[i])}
  BY SameReading DEF Required!Warnings, WarningAt
<1>4. \A w : w \in Required!MustWarn <=>
         \E i \in Opened : \E j \in DoneOf(i) :
            /\ Required!Open(resources[i], ClauseOf(i, j))
            /\ w \in Required!Warnings(resources[i], ClauseOf(i, j))
  <2>1. \A w : w \in Required!MustWarn <=>
           \E i \in Opened : \E c \in Required!ConditionalsOf(resources[i]) :
              Required!Open(resources[i], c) /\ w \in Required!Warnings(resources[i], c)
    <3> DEFINE of(x) == UNION {Required!Warnings(x, c) :
                                 c \in {d \in Required!ConditionalsOf(x) : Required!Open(x, d)}}
    <3>1. Required!MustWarn = UNION {of(x) : x \in Required!MappedBlocks}
      BY DEF Required!MustWarn
    <3>2. \A x, w : w \in of(x) <=>
             \E c \in Required!ConditionalsOf(x) : Required!Open(x, c) /\ w \in Required!Warnings(x, c)
      OBVIOUS
    <3> HIDE DEF of
    <3>3. \A w : w \in Required!MustWarn <=> \E i \in Opened : w \in of(resources[i])
      BY <3>1, MappedBlocksAre
    <3> QED BY <3>2, <3>3
  <2>2. ASSUME NEW w, NEW i \in Opened
        PROVE  (\E c \in Required!ConditionalsOf(resources[i]) :
                   Required!Open(resources[i], c) /\ w \in Required!Warnings(resources[i], c))
               <=> \E j \in DoneOf(i) :
                     /\ Required!Open(resources[i], ClauseOf(i, j))
                     /\ w \in Required!Warnings(resources[i], ClauseOf(i, j))
    <3> DEFINE demands(c) == Required!Open(resources[i], c) /\ w \in Required!Warnings(resources[i], c)
    <3> HIDE DEF demands
    <3>1. (\E c \in Required!ConditionalsOf(resources[i]) : demands(c))
            <=> \E j \in DoneOf(i) : demands(ClauseOf(i, j))
      BY <1>2
    <3> QED BY <3>1 DEF demands
  <2> QED BY <2>1, <2>2
<1>5. \A w : w \in Required!MayWarn <=>
         \E i \in Opened : \E j \in DoneOf(i) :
            /\ Required!Open(resources[i], ClauseOf(i, j)) \/ Required!HasNestedLiteral(ClauseOf(i, j))
            /\ w \in Required!Warnings(resources[i], ClauseOf(i, j))
  <2>1. \A w : w \in Required!MayWarn <=>
           \/ w \in Required!MustWarn
           \/ \E i \in Opened : \E c \in Required!ConditionalsOf(resources[i]) :
                Required!HasNestedLiteral(c) /\ w \in Required!Warnings(resources[i], c)
    <3> DEFINE of(x) == UNION {Required!Warnings(x, c) :
                                 c \in {d \in Required!ConditionalsOf(x) : Required!HasNestedLiteral(d)}}
    <3>1. Required!MayWarn = Required!MustWarn \union UNION {of(x) : x \in Required!MappedBlocks}
      BY DEF Required!MayWarn
    <3>2. \A x, w : w \in of(x) <=>
             \E c \in Required!ConditionalsOf(x) : Required!HasNestedLiteral(c) /\ w \in Required!Warnings(x, c)
      OBVIOUS
    <3> HIDE DEF of
    <3>3. \A w : w \in UNION {of(x) : x \in Required!MappedBlocks} <=> \E i \in Opened : w \in of(resources[i])
      BY MappedBlocksAre
    <3> QED BY <3>1, <3>2, <3>3
  <2>2. ASSUME NEW w, NEW i \in Opened
        PROVE  (\E c \in Required!ConditionalsOf(resources[i]) :
                   Required!HasNestedLiteral(c) /\ w \in Required!Warnings(resources[i], c))
               <=> \E j \in DoneOf(i) :
                     /\ Required!HasNestedLiteral(ClauseOf(i, j))
                     /\ w \in Required!Warnings(resources[i], ClauseOf(i, j))
    <3> DEFINE allows(c) == Required!HasNestedLiteral(c) /\ w \in Required!Warnings(resources[i], c)
    <3> HIDE DEF allows
    <3>1. (\E c \in Required!ConditionalsOf(resources[i]) : allows(c))
            <=> \E j \in DoneOf(i) : allows(ClauseOf(i, j))
      BY <1>2
    <3> QED BY <3>1 DEF allows
  <2> QED BY <1>4, <2>1, <2>2
<1>6. ASSUME NEW w \in Required!MustWarn PROVE w \in UnresolvedRows
  <2>0. PICK i \in Opened : \E j \in DoneOf(i) :
           /\ Required!Open(resources[i], ClauseOf(i, j))
           /\ w \in Required!Warnings(resources[i], ClauseOf(i, j))
    BY <1>4
  <2>1. PICK j \in DoneOf(i) :
           /\ Required!Open(resources[i], ClauseOf(i, j))
           /\ w \in Required!Warnings(resources[i], ClauseOf(i, j))
    BY <2>0
  <2>2. Verdict(i, j).missing = DOMAIN ClauseOf(i, j).when \ Required!Known(resources[i])
    BY <1>1, <2>1, OpenIsMissing
  <2>3. \E a \in Verdict(i, j).missing : w = WarningAt(i, a)
    <3> DEFINE A == DOMAIN ClauseOf(i, j).when \ Required!Known(resources[i])
    <3>1. w \in {WarningAt(i, a) : a \in A}
      BY <1>3, <2>1
    <3> HIDE DEF A
    <3>2. \E a \in A : w = WarningAt(i, a)
      BY <3>1
    <3> QED BY <2>2, <3>2 DEF A
  <2> QED BY <2>3, UnresolvedRowsExact
<1>7. ASSUME NEW w \in UnresolvedRows PROVE w \in Required!MayWarn
  <2>0. PICK i \in Opened : \E j \in DoneOf(i) : \E a \in Verdict(i, j).missing : w = WarningAt(i, a)
    BY UnresolvedRowsExact
  <2>1. PICK j \in DoneOf(i) : \E a \in Verdict(i, j).missing : w = WarningAt(i, a)
    BY <2>0
  <2>2. /\ Required!Open(resources[i], ClauseOf(i, j)) \/ Required!HasNestedLiteral(ClauseOf(i, j))
        /\ Verdict(i, j).missing = DOMAIN ClauseOf(i, j).when \ Required!Known(resources[i])
    BY <1>1, <2>1, OpenIsMissing
  <2>3. w \in Required!Warnings(resources[i], ClauseOf(i, j))
    BY <1>3, <2>1, <2>2, ZenonT(60)
  <2> QED BY <1>5, <2>2, <2>3
<1> QED BY <1>6, <1>7

(* The rows and the unknowns are the blocks with and without an entry.       *)
LEMMA RowsAreBlocks ==
    ASSUME TypeOK, RowsExact, UnknownsExact, next > Len(resources)
    PROVE  /\ {Identity(x) : x \in ToSet(results)}
                = {Required!Identity(x) : x \in Required!MappedBlocks}
           /\ UnknownRows
                = {Required!Identity(x) : x \in Required!Blocks \ Required!MappedBlocks}
<1>1. {k \in Opened : k < next} = Opened
  BY AllGone
<1>2. {Identity(x) : x \in ToSet(results)} = {Required!Identity(x) : x \in Required!MappedBlocks}
  BY <1>1, MappedBlocksAre, SameReading DEF RowsExact
<1>3. \A u : u \in {Required!Identity(x) : x \in Required!Blocks \ Required!MappedBlocks}
                <=> \E i \in DOMAIN resources : IsMapped(i) /\ ~HasEntry(i) /\ u = Identity(resources[i])
  BY MappedBlocksAre, SameReading
<1> QED BY <1>2, <1>3, UnknownRowsExact

(* What Resolve returns has the type of an answer.                           *)
LEMMA AnswerType ==
    ASSUME TypeOK, UnresolvedExact, UnknownsExact, next > Len(resources)
    PROVE  [PlanPerms |-> plan, ApplyOnlyPerms |-> apply \ plan,
            TotalApplyPerms |-> plan \union apply,
            Unknowns |-> UnknownRows, Unresolved |-> UnresolvedRows,
            Resources |-> results] \in Answers
<1>1. /\ plan \subseteq Perm /\ apply \ plan \subseteq Perm /\ plan \union apply \subseteq Perm
      /\ results \in Seq(Rows)
  BY DEF TypeOK
<1>2. UnknownRows \subseteq [type: Type, block: Block, path: Path]
  BY UnknownRowsExact, Indices DEF Identity, IsResource
<1>3. UnresolvedRows \subseteq [type: Type, block: Block, path: Path, attr: Attr, reason: Reasons]
  <2> SUFFICES ASSUME NEW i \in Opened, NEW j \in DoneOf(i), NEW a \in Verdict(i, j).missing
               PROVE  WarningAt(i, a) \in [type: Type, block: Block, path: Path, attr: Attr, reason: Reasons]
    BY UnresolvedRowsExact
  <2>1. IsResource(resources[i]) /\ ClauseOf(i, j) \in Conditional
    BY OpenedType DEF DoneOf
  <2>2. a \in Attr
    <3>1. a \in DOMAIN ClauseOf(i, j).when
      BY DEF Verdict, matchesConditional, Unread
    <3> QED BY <2>1, <3>1 DEF Conditional, When
  <2>3. unresolvedReasonFor(resources[i], a) \in Reasons
    BY <2>1 DEF IsResource, IsMap, unresolvedReasonFor, Reasons
  <2> QED BY <2>1, <2>2, <2>3 DEF WarningAt, IsResource
<1> QED BY <1>1, <1>2, <1>3 DEF Answers

(* The step that finishes the pass is the one step of the promise ...        *)
LEMMA FinishAnswers ==
    ASSUME TypeOK, PassExact, Finish
    PROVE  Required!Answer
<1> DEFINE answer == [PlanPerms |-> plan, ApplyOnlyPerms |-> apply \ plan,
                      TotalApplyPerms |-> plan \union apply,
                      Unknowns |-> UnknownRows, Unresolved |-> UnresolvedRows,
                      Resources |-> results]
           blocks == {Identity(x) : x \in ToSet(results)}
           noise == UnresolvedRows \ Required!MustWarn
<1>1. next > Len(resources) /\ result = Nothing /\ result' = answer /\ answer # Nothing
  BY AnswerType, NothingAssumption DEF Finish, PassExact, AnswerLast
<1>2. Promised = Nothing
  BY <1>1 DEF Promised
<1>3. Promised' = [PlanPerms |-> plan, ApplyOnlyPerms |-> apply \ plan,
                   TotalApplyPerms |-> plan \union apply,
                   Unknowns |-> UnknownRows, Unresolved |-> UnresolvedRows,
                   Resources |-> blocks]
  <2>1. Promised' = [result' EXCEPT !.Resources = {Identity(x) : x \in ToSet(result'.Resources)}]
    BY <1>1 DEF Promised
  <2> QED BY <1>1, <2>1
<1>4. plan = Required!NeededToPlan /\ apply = Required!NeededToApply
  BY <1>1, TotalsAreNeeded DEF PassExact
<1>5. /\ noise \in SUBSET (Required!MayWarn \ Required!MustWarn)
      /\ UnresolvedRows = Required!MustWarn \union noise
  BY <1>1, WarningsAllowed DEF PassExact
<1>6. /\ blocks = {Required!Identity(x) : x \in Required!MappedBlocks}
      /\ UnknownRows = {Required!Identity(x) : x \in Required!Blocks \ Required!MappedBlocks}
  BY <1>1, RowsAreBlocks DEF PassExact
<1>7. UNCHANGED <<resources, cat, excludeDelete>>
  BY DEF Finish, args
<1> HIDE DEF answer, blocks, noise
<1> QED BY <1>2, <1>3, <1>4, <1>5, <1>6, <1>7 DEF Required!Answer

(* ... and every other step shows nothing of itself.                         *)
LEMMA OtherStepsStutter ==
    ASSUME [Next]_vars, ~Finish
    PROVE  UNCHANGED Required!vars
<1>1. UNCHANGED <<resources, cat, excludeDelete, result>>
  BY DEF Next, vars, args, SkipKind, RecordUnknown, OpenResource, ApplyConditional,
         ReportMissing, RejectConditional, CloseResource
<1> QED BY <1>1 DEF Required!vars, Promised

(* For every catalog and configuration: the pass gives one answer, from what *)
(* it was called with, and it is the one the promise gives in one step.      *)
(* (That it gives one is a liveness property, and left to the runs.)         *)
THEOREM AnswersAsRequired ==
    Spec => Required!Init /\ [][Required!Answer]_(Required!vars)
<1>1. Init => Required!Init
  BY DEF Init, Required!Init, Promised
<1>2. TypeOK /\ PassExact /\ [Next]_vars => [Required!Answer]_(Required!vars)
  BY FinishAnswers, OtherStepsStutter
<1> QED BY <1>1, <1>2, PassAlwaysExact, PTL DEF Spec

-----------------------------------------------------------------------------
(* A clean report.                                                          *)

(* Where nothing is missed, the verdict is that of every completion.         *)
LEMMA SameVerdict ==
    ASSUME NEW x, IsResource(x), NEW c \in Conditional, NEW f \in CompletionsOf(x),
           matchesConditional(x.attrs, c.when).missing = {}
    PROVE  matchesConditional(f, c.when).matched <=> matchesConditional(x.attrs, c.when).matched
<1> DEFINE w == c.when
<1>1. DOMAIN w \subseteq Attr
  BY DEF Conditional, When
<1>2. /\ DOMAIN f = Attr /\ \A a \in Attr : f[a] \in Value
      /\ \A a \in DOMAIN x.attrs : x.attrs[a] # NilVal => f[a] = x.attrs[a]
  BY DEF CompletionsOf
<1>3. Unread(f, w) = {}
  BY <1>1, <1>2, NilAssumption DEF Unread
<1>4. \A a \in DOMAIN w \ Unread(x.attrs, w) : f[a] = x.attrs[a]
  BY <1>2 DEF Unread
<1>5. CASE Mismatch(x.attrs, w)
  BY <1>3, <1>4, <1>5 DEF Mismatch, matchesConditional
<1>6. CASE ~Mismatch(x.attrs, w)
  BY <1>3, <1>4, <1>6 DEF Mismatch, matchesConditional
<1> QED BY <1>5, <1>6

(* Where nothing is missed, a block gives the same however its attributes    *)
(* turn out: what has been booked for it.                                    *)
LEMMA ContributionIsBooked ==
    ASSUME TypeOK, next > Len(resources), NEW i \in Opened,
           \A j \in DoneOf(i) : Verdict(i, j).missing = {},
           NEW f \in CompletionsOf(resources[i])
    PROVE  \A p : p \in Contribution(resources[i], f) <=> p \in PlanOf(i) \union ApplyOf(i)
<1> DEFINE x == resources[i]
           conds == EntryOf(i).conditionals
           fires(j) == matchesConditional(f, ClauseOf(i, j).when).matched
           gives(ps) == ps.Plan \union StageOf(i, ps)
           fired == {conds[j].permissions : j \in {k \in DOMAIN conds : matchesConditional(f, conds[k].when).matched}}
<1>1. DoneOf(i) = DOMAIN conds /\ \A j \in DOMAIN conds : conds[j] = ClauseOf(i, j)
  BY AllGone DEF ClauseOf
<1>2. \A j \in DOMAIN conds : fires(j) <=> Verdict(i, j).matched
  BY <1>1, OpenedType, SameVerdict DEF Verdict
<1>3. fired = {ClauseOf(i, j).permissions : j \in {k \in DoneOf(i) : Verdict(i, k).matched}}
  BY <1>1, <1>2
<1>4. Contribution(x, f) = UNION {gives(ps) : ps \in {EntryOf(i).base} \union fired}
  BY DEF Contribution, EntryOf, StageOf
<1> HIDE DEF fired, x
<1>5. Contribution(x, f) = UNION {gives(ps) : ps \in Booked(i)}
  BY <1>3, <1>4 DEF Booked
<1>6. \A p : p \in Contribution(x, f) <=> \E ps \in Booked(i) : p \in ps.Plan \/ p \in StageOf(i, ps)
  BY <1>5
<1> QED BY <1>6 DEF PlanOf, ApplyOf, x

(* A clean report is exact: whatever an unread attribute turns out to be,    *)
(* the answer stays what every completion of the blocks gives.               *)
LEMMA CleanAtTheEnd == TypeOK /\ PassExact => CleanReportIsExact
<1> DEFINE known == {i \in DOMAIN resources : resources[i].kind \in {"resource", "data"}}
<1> SUFFICES ASSUME TypeOK, PassExact, pc = "done", result.Unknowns = {}, result.Unresolved = {}
             PROVE  /\ \A i \in known : \A f \in CompletionsOf(resources[i]) :
                         Contribution(resources[i], f) \subseteq result.TotalApplyPerms
                    /\ \A p \in result.TotalApplyPerms : \E i \in known :
                         \A f \in CompletionsOf(resources[i]) : p \in Contribution(resources[i], f)
  BY DEF CleanReportIsExact
<1>1. /\ next > Len(resources) /\ UnknownRows = {} /\ UnresolvedRows = {}
      /\ result.TotalApplyPerms = plan \union apply
  BY DEF PassExact, AnswerLast
<1>2. known = Opened
  <2>1. \A i \in known : HasEntry(i)
    BY <1>1, UnknownRowsExact DEF PassExact, IsMapped
  <2> QED BY <1>1, <2>1, AllGone DEF IsMapped
<1>3. \A i \in Opened : \A j \in DoneOf(i) : Verdict(i, j).missing = {}
  BY <1>1, UnresolvedRowsExact DEF PassExact
<1>4. \A i \in Opened : \A f \in CompletionsOf(resources[i]) : \A p :
         p \in Contribution(resources[i], f) <=> p \in PlanOf(i) \union ApplyOf(i)
  BY <1>1, <1>3, ContributionIsBooked
<1>5. \A p : p \in plan \union apply <=> \E i \in Opened : p \in PlanOf(i) \union ApplyOf(i)
  BY DEF PassExact, TotalsExact
<1> HIDE DEF known
<1> QED BY <1>1, <1>2, <1>4, <1>5

(* For every catalog and configuration, a report without unknowns and        *)
(* unresolved attributes is what any completion of the unread ones gives.    *)
THEOREM CleanReportsAreExact == Spec => []CleanReportIsExact
BY CleanAtTheEnd, PassAlwaysExact, PTL

-----------------------------------------------------------------------------
(* The order of rows.                                                       *)

LEMMA LeastIndex ==
    ASSUME NEW n \in Nat, NEW G \in SUBSET (1 .. n), G # {}
    PROVE  \E i \in G : \A j \in G : i <= j
<1>1. IsFiniteSet(1 .. n)
  BY FS_Interval
<1>2. IsFiniteSet(G)
  BY <1>1, FS_Subset
<1> QED BY <1>2, LeastKey

LEMMA PathIs ==
    ASSUME NEW a \in Path
    PROVE  /\ Len(a) \in Nat /\ DOMAIN a = 1 .. Len(a)
           /\ \A i \in DOMAIN a : i \in Nat /\ a[i] \in DOMAIN NameRank /\ NameRank[a[i]] \in Nat
<1>1. a \in Seq(DOMAIN NameRank) /\ NameRank \in [DOMAIN NameRank -> Nat]
  BY RankAssumption
<1> QED BY <1>1

(* Where two paths differ first decides.                                     *)
LEMMA FirstDifference ==
    ASSUME NEW a \in Path, NEW b \in Path, a # b
    PROVE  \E d \in Nat \ {0} :
              /\ d <= Len(a) + 1 /\ d <= Len(b) + 1
              /\ \A j \in 1 .. d - 1 : a[j] = b[j]
              /\ \/ d = Len(a) + 1 /\ d <= Len(b)
                 \/ d = Len(b) + 1 /\ d <= Len(a)
                 \/ d <= Len(a) /\ d <= Len(b) /\ a[d] # b[d]
<1> DEFINE m == IF Len(a) < Len(b) THEN Len(b) ELSE Len(a)
           D == {i \in 1 .. m : i > Len(a) \/ i > Len(b) \/ a[i] # b[i]}
<1>1. /\ Len(a) \in Nat /\ Len(b) \in Nat /\ m \in Nat
      /\ Len(a) <= m /\ Len(b) <= m /\ (m = Len(a) \/ m = Len(b))
  BY PathIs
<1>2. D # {}
  <2>1. a \in Seq(DOMAIN NameRank) /\ b \in Seq(DOMAIN NameRank)
    BY RankAssumption
  <2>2. Len(a) = Len(b) => \E i \in 1 .. Len(a) : a[i] # b[i]
    BY <2>1
  <2>3. Len(a) # Len(b) => m \in D
    BY <1>1
  <2>4. Len(a) = Len(b) => m = Len(a)
    OBVIOUS
  <2> QED BY <2>2, <2>3, <2>4
<1>3. PICK d \in D : \A j \in D : d <= j
  BY <1>1, <1>2, LeastIndex
<1>4. d \in 1 .. m /\ (d > Len(a) \/ d > Len(b) \/ a[d] # b[d])
  BY <1>3
<1>5. \A j \in 1 .. d - 1 : j <= Len(a) /\ j <= Len(b) /\ a[j] = b[j]
  <2> TAKE j \in 1 .. d - 1
  <2>1. j \in 1 .. m /\ j < d
    BY <1>1, <1>4
  <2>2. j \notin D
    BY <1>1, <1>3, <1>4, <2>1
  <2> QED BY <1>1, <2>1, <2>2
<1>6. d = 1 \/ d - 1 \in 1 .. d - 1
  BY <1>4
<1>7. d <= Len(a) + 1 /\ d <= Len(b) + 1
  BY <1>1, <1>4, <1>5, <1>6
<1> HIDE DEF D
<1> QED BY <1>1, <1>4, <1>5, <1>7

(* moduleLess compares any two paths, and is a strict order.                 *)
LEMMA ModuleLessOrders ==
    /\ \A a \in Path : ~moduleLess(a, a)
    /\ \A a, b \in Path : a # b => moduleLess(a, b) \/ moduleLess(b, a)
    /\ \A a, b, c \in Path : moduleLess(a, b) /\ moduleLess(b, c) => moduleLess(a, c)
<1>1. ASSUME NEW a \in Path PROVE ~moduleLess(a, a)
  BY PathIs DEF moduleLess
<1>2. ASSUME NEW a \in Path, NEW b \in Path, a # b PROVE moduleLess(a, b) \/ moduleLess(b, a)
  <2>1. PICK d \in Nat \ {0} :
           /\ d <= Len(a) + 1 /\ d <= Len(b) + 1
           /\ \A j \in 1 .. d - 1 : a[j] = b[j]
           /\ \/ d = Len(a) + 1 /\ d <= Len(b)
              \/ d = Len(b) + 1 /\ d <= Len(a)
              \/ d <= Len(a) /\ d <= Len(b) /\ a[d] # b[d]
    BY <1>2, FirstDifference
  <2>2. /\ DOMAIN a = 1 .. Len(a) /\ DOMAIN b = 1 .. Len(b) /\ Len(a) \in Nat /\ Len(b) \in Nat
    BY PathIs
  <2>3. CASE d = Len(a) + 1 /\ d <= Len(b)
    BY <2>1, <2>2, <2>3 DEF moduleLess
  <2>4. CASE d = Len(b) + 1 /\ d <= Len(a)
    BY <2>1, <2>2, <2>4 DEF moduleLess
  <2>5. CASE d <= Len(a) /\ d <= Len(b) /\ a[d] # b[d]
    <3>1. d \in DOMAIN a /\ d \in DOMAIN b
      BY <2>1, <2>2, <2>5
    <3>2. NameRank[a[d]] < NameRank[b[d]] \/ NameRank[b[d]] < NameRank[a[d]]
      <4>1. NameRank[a[d]] # NameRank[b[d]]
        BY <2>5, <3>1, PathIs, RankAssumption
      <4> QED BY <3>1, <4>1, PathIs
    <3> QED BY <2>1, <2>2, <2>5, <3>1, <3>2 DEF moduleLess
  <2> QED BY <2>1, <2>3, <2>4, <2>5
<1>3. ASSUME NEW a \in Path, NEW b \in Path, NEW c \in Path, moduleLess(a, b), moduleLess(b, c)
      PROVE  moduleLess(a, c)
  <2>1. PICK i \in DOMAIN b : /\ i <= Len(a) + 1 /\ \A j \in 1 .. i - 1 : a[j] = b[j]
                              /\ i <= Len(a) => NameRank[a[i]] < NameRank[b[i]]
    BY <1>3 DEF moduleLess
  <2>2. PICK k \in DOMAIN c : /\ k <= Len(b) + 1 /\ \A j \in 1 .. k - 1 : b[j] = c[j]
                              /\ k <= Len(b) => NameRank[b[k]] < NameRank[c[k]]
    BY <1>3 DEF moduleLess
  <2>3. /\ DOMAIN a = 1 .. Len(a) /\ DOMAIN b = 1 .. Len(b) /\ DOMAIN c = 1 .. Len(c)
        /\ Len(a) \in Nat /\ Len(b) \in Nat /\ Len(c) \in Nat /\ i \in Nat /\ k \in Nat
    BY PathIs
  <2>4. CASE i < k
    <3>1. i \in DOMAIN c /\ b[i] = c[i] /\ \A j \in 1 .. i - 1 : a[j] = c[j]
      BY <2>1, <2>2, <2>3, <2>4
    <3> QED BY <2>1, <3>1 DEF moduleLess
  <2>5. CASE i = k
    <3>1. \A j \in 1 .. i - 1 : a[j] = c[j]
      BY <2>1, <2>2, <2>5
    <3>2. i <= Len(a) => NameRank[a[i]] < NameRank[c[i]]
      <4>1. i <= Len(a) => i \in DOMAIN a
        BY <2>3
      <4> QED BY <2>1, <2>2, <2>3, <2>5, <4>1, PathIs
    <3> QED BY <2>1, <2>2, <2>5, <3>1, <3>2 DEF moduleLess
  <2>6. CASE k < i
    <3>1. k \in 1 .. i - 1 /\ k <= Len(b) /\ a[k] = b[k] /\ \A j \in 1 .. k - 1 : a[j] = c[j]
      BY <2>1, <2>2, <2>3, <2>6
    <3>2. k <= Len(a) + 1 /\ NameRank[a[k]] < NameRank[c[k]]
      BY <2>1, <2>2, <2>3, <2>6, <3>1
    <3> QED BY <3>1, <3>2 DEF moduleLess
  <2> QED BY <2>3, <2>4, <2>5, <2>6
<1> QED BY <1>1, <1>2, <1>3

(* Any rows: one place each.                                                 *)
IsRow(x) == x.block \in Block /\ x.path \in Path

(* For all positions and paths: the comparison of rows is a strict order,    *)
(* and tells apart all rows that differ in block or path.  So sorting by it, *)
(* stable or not, has one outcome on the rows of an answer.                  *)
THEOREM RowLessOrders ==
    ASSUME NEW x, NEW y, NEW z, IsRow(x), IsRow(y), IsRow(z)
    PROVE  /\ ~rowLess(x, x)
           /\ rowLess(x, y) /\ rowLess(y, z) => rowLess(x, z)
           /\ rowLess(x, y) \/ rowLess(y, x) \/ (x.block = y.block /\ x.path = y.path)
<1>1. /\ BlockRank[x.block] \in Nat /\ BlockRank[y.block] \in Nat /\ BlockRank[z.block] \in Nat
      /\ BlockRank[x.block] = BlockRank[y.block] => x.block = y.block
  BY RankAssumption DEF IsRow
<1>2. /\ ~moduleLess(x.path, x.path)
      /\ x.path # y.path => moduleLess(x.path, y.path) \/ moduleLess(y.path, x.path)
      /\ moduleLess(x.path, y.path) /\ moduleLess(y.path, z.path) => moduleLess(x.path, z.path)
  BY ModuleLessOrders DEF IsRow
<1>3. ~rowLess(x, x)
  BY <1>1, <1>2 DEF rowLess
<1>4. rowLess(x, y) /\ rowLess(y, z) => rowLess(x, z)
  BY <1>1, <1>2 DEF rowLess
<1>5. rowLess(x, y) \/ rowLess(y, x) \/ (x.block = y.block /\ x.path = y.path)
  BY <1>1, <1>2 DEF rowLess
<1> QED BY <1>3, <1>4, <1>5

(* What moduleLess says, in the words of RowsOrdered.                        *)
LEMMA ModuleLessIs ==
    ASSUME NEW a \in Path, NEW b \in Path, moduleLess(a, b)
    PROVE  \/ IsStrictPrefix(a, b)
           \/ \E k \in DOMAIN a \intersect DOMAIN b :
                /\ SubSeq(a, 1, k - 1) = SubSeq(b, 1, k - 1)
                /\ NameRank[a[k]] < NameRank[b[k]]
<1>1. PICK i \in DOMAIN b : /\ i <= Len(a) + 1 /\ \A j \in 1 .. i - 1 : a[j] = b[j]
                            /\ i <= Len(a) => NameRank[a[i]] < NameRank[b[i]]
  BY DEF moduleLess
<1>2. /\ DOMAIN a = 1 .. Len(a) /\ DOMAIN b = 1 .. Len(b)
      /\ Len(a) \in Nat /\ Len(b) \in Nat /\ i \in Nat
      /\ a \in Seq(DOMAIN NameRank) /\ b \in Seq(DOMAIN NameRank)
  BY PathIs, RankAssumption
<1>3. SubSeq(a, 1, i - 1) = SubSeq(b, 1, i - 1)
  BY <1>1, <1>2
<1>4. CASE i <= Len(a)
  BY <1>1, <1>2, <1>3, <1>4
<1>5. CASE i = Len(a) + 1
  <2>1. Len(a) <= Len(b) /\ a # b /\ i - 1 = Len(a)
    BY <1>1, <1>2, <1>5
  <2> QED BY <1>3, <2>1 DEF IsStrictPrefix, IsPrefix
<1> QED BY <1>1, <1>2, <1>4, <1>5

-----------------------------------------------------------------------------
(* The conditionals of a row.                                               *)

Clause == [When: When, Plan: SUBSET Perm, ApplyOnly: SUBSET Perm]
Text(c) == serialiseWhen[c.When]

TextsGrow(applied) ==
    \A i, k \in DOMAIN applied : i < k => Text(applied[i]) <= Text(applied[k])

LEMMA AppliedSorted ==
    ASSUME NEW applied \in Seq(Clause)
    PROVE  /\ sortedApplied(applied) \in Seq(Clause) /\ TextsGrow(sortedApplied(applied))
           /\ \A i \in DOMAIN applied : \E k \in DOMAIN sortedApplied(applied) :
                 sortedApplied(applied)[k] = applied[i]
           /\ \A k \in DOMAIN sortedApplied(applied) : \E i \in DOMAIN applied :
                 sortedApplied(applied)[k] = applied[i]
<1> DEFINE n == Len(applied)
           key == [i \in DOMAIN applied |-> Text(applied[i])]
           o == StableOrder(key)
           s == sortedApplied(applied)
<1>1. n \in Nat /\ DOMAIN applied = 1 .. n /\ \A i \in 1 .. n : applied[i] \in Clause
  OBVIOUS
<1>2. \A c \in Clause : Text(c) \in Nat
  BY RankAssumption DEF Clause, Text
<1>3. key \in [1 .. n -> Nat] /\ \A i \in 1 .. n : key[i] = Text(applied[i])
  BY <1>1, <1>2
<1>4. s = [i \in 1 .. n |-> applied[o[i]]]
  BY <1>1 DEF sortedApplied, Text
<1> HIDE DEF n, key, s
<1>5. /\ o \in [1 .. n -> 1 .. n] /\ \A i \in 1 .. n : \E k \in 1 .. n : o[k] = i
      /\ \A i, k \in 1 .. n : i < k => key[o[i]] < key[o[k]] \/ key[o[i]] = key[o[k]]
  <2>1. n \in Nat /\ key \in [1 .. n -> Nat]
    BY <1>1, <1>3
  <2>2. o \in [1 .. n -> 1 .. n]
    BY <2>1, StableOrderSorts, Zenon
  <2>3. \A i \in 1 .. n : \E k \in 1 .. n : o[k] = i
    BY <2>1, StableOrderSorts, Zenon
  <2>4. \A i, k \in 1 .. n : i < k => key[o[i]] < key[o[k]] \/ key[o[i]] = key[o[k]]
    BY <2>1, StableOrderSorts, ZenonT(60)
  <2> QED BY <2>2, <2>3, <2>4
<1> HIDE DEF o
<1>6. DOMAIN s = 1 .. n /\ \A k \in 1 .. n : o[k] \in 1 .. n /\ s[k] = applied[o[k]] /\ s[k] \in Clause
  BY <1>1, <1>4, <1>5
<1>7. s \in Seq(Clause)
  <2> HIDE DEF Clause
  <2>1. s \in [1 .. n -> Clause]
    BY <1>4, <1>6
  <2> QED BY <1>1, <2>1
<1>8. TextsGrow(s)
  <2> SUFFICES ASSUME NEW i \in 1 .. n, NEW k \in 1 .. n, i < k PROVE Text(s[i]) <= Text(s[k])
    BY <1>6 DEF TextsGrow
  <2>1. Text(s[i]) = key[o[i]] /\ Text(s[k]) = key[o[k]] /\ key[o[i]] \in Nat /\ key[o[k]] \in Nat
    BY <1>3, <1>6
  <2>2. key[o[i]] < key[o[k]] \/ key[o[i]] = key[o[k]]
    BY <1>5
  <2> QED BY <2>1, <2>2
<1>9. \A i \in 1 .. n : \E k \in 1 .. n : s[k] = applied[i]
  <2> TAKE i \in 1 .. n
  <2>1. PICK k \in 1 .. n : o[k] = i
    BY <1>5
  <2> QED BY <1>6, <2>1
<1> QED BY <1>1, <1>6, <1>7, <1>8, <1>9 DEF s

(* The first clause to give a permission, where texts grow, has the least    *)
(* text of those that give it.                                               *)
LEMMA FirstTextIs ==
    ASSUME NEW applied \in Seq(Clause), TextsGrow(applied),
           NEW stage, NEW p \in Given(applied, stage)
    PROVE  \E i \in DOMAIN applied :
              /\ p \in applied[i][stage] /\ FirstText(applied, stage, p) = Text(applied[i])
              /\ \A j \in DOMAIN applied : p \in applied[j][stage] => Text(applied[i]) <= Text(applied[j])
<1> DEFINE givers == {i \in DOMAIN applied : p \in applied[i][stage]}
           first == CHOOSE i \in givers : \A j \in givers : i <= j
<1>1. /\ Len(applied) \in Nat /\ DOMAIN applied = 1 .. Len(applied)
      /\ \A i \in DOMAIN applied : applied[i] \in Clause
  OBVIOUS
<1>2. givers \in SUBSET (1 .. Len(applied)) /\ givers # {}
  BY <1>1 DEF Given
<1> HIDE DEF givers
<1>3. \E i \in givers : \A j \in givers : i <= j
  BY <1>1, <1>2, LeastIndex
<1>4. first \in givers /\ \A j \in givers : first <= j
  BY <1>3
<1>5. FirstText(applied, stage, p) = Text(applied[first])
  BY DEF FirstText, Text, givers
<1> HIDE DEF first
<1>6. ASSUME NEW j \in DOMAIN applied, p \in applied[j][stage]
      PROVE  Text(applied[first]) <= Text(applied[j])
  <2>1. j \in givers /\ first <= j
    BY <1>4, <1>6 DEF givers
  <2>2. first \in Nat /\ j \in Nat /\ first \in DOMAIN applied
    BY <1>1, <1>2, <1>4
  <2>3. Text(applied[j]) \in Nat
    BY <1>1, RankAssumption DEF Clause, Text
  <2>4. CASE first < j
    BY <2>2, <2>4 DEF TextsGrow
  <2>5. CASE first = j
    BY <2>3, <2>5
  <2> QED BY <2>1, <2>2, <2>4, <2>5
<1>7. first \in DOMAIN applied /\ p \in applied[first][stage]
  BY <1>4 DEF givers
<1> QED BY <1>5, <1>6, <1>7

(* Sorting its conditionals changes nothing a row gives.                     *)
(* y says what x says, its conditionals in the order of their texts.         *)
SameRow(y, x) ==
    /\ y.type = x.type /\ y.block = x.block /\ y.path = x.path /\ Identity(y) = Identity(x)
    /\ y.BasePlan = x.BasePlan /\ y.BaseApplyOnly = x.BaseApplyOnly
    /\ y.Applied \in Seq(Clause) /\ TextsGrow(y.Applied)
    /\ \A c : (\E k \in DOMAIN y.Applied : y.Applied[k] = c)
                 <=> \E i \in DOMAIN x.Applied : x.Applied[i] = c
    /\ Given(y.Applied, "Plan") = Given(x.Applied, "Plan")
    /\ Given(y.Applied, "ApplyOnly") = Given(x.Applied, "ApplyOnly")
    /\ RowPlan(y) = RowPlan(x) /\ RowApplyOnly(y) = RowApplyOnly(x)

LEMMA RowSorted ==
    ASSUME NEW x \in Rows, NEW y, y = [x EXCEPT !.Applied = sortedApplied(@)]
    PROVE  SameRow(y, x)
<1>1. /\ y.type = x.type /\ y.block = x.block /\ y.path = x.path
      /\ y.BasePlan = x.BasePlan /\ y.BaseApplyOnly = x.BaseApplyOnly
      /\ y.Applied = sortedApplied(x.Applied) /\ x.Applied \in Seq(Clause)
  BY DEF Rows, Clause
<1>2. \A c : (\E k \in DOMAIN y.Applied : y.Applied[k] = c)
               <=> \E i \in DOMAIN x.Applied : x.Applied[i] = c
  <2> DEFINE a == x.Applied
             b == y.Applied
  <2>0. a \in Seq(Clause) /\ b = sortedApplied(a)
    BY <1>1
  <2> HIDE DEF a, b
  <2>1. /\ \A i \in DOMAIN a : \E k \in DOMAIN b : b[k] = a[i]
        /\ \A k \in DOMAIN b : \E i \in DOMAIN a : b[k] = a[i]
    BY <2>0, AppliedSorted
  <2>2. \A c : (\E k \in DOMAIN b : b[k] = c) <=> \E i \in DOMAIN a : a[i] = c
    BY <2>1
  <2> QED BY <2>2 DEF a, b
<1>3. ASSUME NEW stage PROVE Given(y.Applied, stage) = Given(x.Applied, stage)
  <2>1. \A p : p \in Given(y.Applied, stage) <=> \E k \in DOMAIN y.Applied : p \in y.Applied[k][stage]
    BY DEF Given
  <2>2. \A p : p \in Given(x.Applied, stage) <=> \E i \in DOMAIN x.Applied : p \in x.Applied[i][stage]
    BY DEF Given
  <2>3. ASSUME NEW p, NEW k \in DOMAIN y.Applied, p \in y.Applied[k][stage]
        PROVE  p \in Given(x.Applied, stage)
    <3>1. PICK i \in DOMAIN x.Applied : x.Applied[i] = y.Applied[k]
      BY <1>2
    <3> QED BY <2>2, <2>3, <3>1
  <2>4. ASSUME NEW p, NEW i \in DOMAIN x.Applied, p \in x.Applied[i][stage]
        PROVE  p \in Given(y.Applied, stage)
    <3>1. PICK k \in DOMAIN y.Applied : y.Applied[k] = x.Applied[i]
      BY <1>2
    <3> QED BY <2>1, <2>4, <3>1
  <2> QED BY <2>1, <2>2, <2>3, <2>4
<1>4. /\ RowPlan(x) = x.BasePlan \union Given(x.Applied, "Plan")
      /\ RowPlan(y) = y.BasePlan \union Given(y.Applied, "Plan")
      /\ RowApplyOnly(x) = x.BaseApplyOnly \union Given(x.Applied, "ApplyOnly")
      /\ RowApplyOnly(y) = y.BaseApplyOnly \union Given(y.Applied, "ApplyOnly")
  BY DEF RowPlan, RowApplyOnly, Given
<1>5. y.Applied \in Seq(Clause) /\ TextsGrow(y.Applied)
  BY <1>1, AppliedSorted
<1> QED BY <1>1, <1>2, <1>3, <1>4, <1>5 DEF Identity, SameRow

-----------------------------------------------------------------------------
(* The answer the reporters are given.                                      *)

(* No instance has two rows.                                                 *)
RowsDistinct ==
    \A i, j \in DOMAIN results :
        results[i].block = results[j].block /\ results[i].path = results[j].path => i = j

LEMMA DistinctStep == TypeOK /\ RowsExact /\ RowsDistinct /\ [Next]_vars => RowsDistinct'
<1> SUFFICES ASSUME TypeOK, RowsExact, RowsDistinct, [Next]_vars PROVE RowsDistinct'
  OBVIOUS
<1>1. CASE CloseResource
  <2>1. /\ results' = Append(results, row) /\ results \in Seq(Rows)
        /\ Identity(row) = Identity(r) /\ next <= Len(resources)
    BY <1>1 DEF CloseResource, TypeOK
  <2>2. next \in DOMAIN resources /\ r = resources[next]
    BY <2>1, CurrentResource DEF r
  <2>3. /\ Len(results) \in Nat /\ DOMAIN results = 1 .. Len(results)
        /\ DOMAIN results' = 1 .. Len(results) + 1
        /\ \A i \in DOMAIN results : results'[i] = results[i]
        /\ results'[Len(results) + 1] = row
    BY <2>1
  <2>4. row.block = resources[next].block /\ row.path = resources[next].path
    BY <2>1, <2>2 DEF Identity
  <2>5. ASSUME NEW i \in DOMAIN results, results[i].block = row.block, results[i].path = row.path
        PROVE  FALSE
    <3>1. results[i] \in ToSet(results)
      BY DEF ToSet
    <3>2. PICK k \in Opened : k < next /\ Identity(results[i]) = Identity(resources[k])
      BY <3>1 DEF RowsExact
    <3>3. k \in DOMAIN resources /\ results[i].block = resources[k].block /\ results[i].path = resources[k].path
      BY <3>2 DEF Opened, Identity
    <3>4. k = next
      BY <2>2, <2>4, <2>5, <3>3, InputsAssumption DEF TypeOK
    <3>5. next \in Nat
      BY Indices
    <3> QED BY <3>2, <3>4, <3>5
  <2> QED BY <2>3, <2>5 DEF RowsDistinct
<1>2. CASE ~CloseResource
  <2>1. results' = results
    BY <1>2 DEF Next, vars, SkipKind, RecordUnknown, OpenResource, ApplyConditional,
               ReportMissing, RejectConditional, Finish
  <2> QED BY <2>1 DEF RowsDistinct
<1> QED BY <1>1, <1>2

PassInv == TypeOK /\ PassExact /\ AccountBalances /\ RowsDistinct

LEMMA PassInvInit == Init => PassInv
BY TypeInit, PassInit, BalanceInit DEF PassInv, Init, RowsDistinct

LEMMA PassInvStep == PassInv /\ [Next]_vars => PassInv'
BY TypeStep, PassStep, BalanceStep, DistinctStep DEF PassInv, PassExact

(* What the answer is when it is given.                                      *)
LEMMA Answered ==
    ASSUME PassInv, pc = "done"
    PROVE  /\ result.Resources = results /\ results \in Seq(Rows) /\ RowsDistinct
           /\ result.PlanPerms = UNION {RowPlan(results[i]) : i \in DOMAIN results}
           /\ result.TotalApplyPerms
                = UNION {RowPlan(results[i]) \union RowApplyOnly(results[i]) : i \in DOMAIN results}
<1>1. /\ result.Resources = results /\ result.PlanPerms = plan
      /\ result.TotalApplyPerms = plan \union apply
  BY DEF PassInv, PassExact, AnswerLast
<1>2. AllRows = ToSet(results)
  BY DEF AllRows, OpenRow
<1>3. \A x : x \in AllRows <=> \E i \in DOMAIN results : x = results[i]
  BY <1>2 DEF ToSet
<1>4. plan = UNION {RowPlan(results[i]) : i \in DOMAIN results}
  BY <1>3 DEF PassInv, AccountBalances
<1>5. plan \union apply = UNION {RowPlan(results[i]) \union RowApplyOnly(results[i]) : i \in DOMAIN results}
  BY <1>3 DEF PassInv, AccountBalances
<1> QED BY <1>1, <1>4, <1>5 DEF PassInv, TypeOK

-----------------------------------------------------------------------------
(* The rows and the groups.  The groups in the making hold what the rows    *)
(* gone by give, type by type: the permissions of a stage, those some base  *)
(* has, and for each that a conditional gives the first text of the first   *)
(* row with such a conditional.                                             *)

Gone(t) == {i \in 1 .. seen : rows[i].type = t}

OriginsExact(rs, o, stage, I) ==
    /\ DOMAIN o = UNION {Given(rs[i].Applied, stage) : i \in I}
    /\ \A p \in DOMAIN o : \E i \in I :
          /\ p \in Given(rs[i].Applied, stage) /\ o[p] = FirstText(rs[i].Applied, stage, p)
          /\ \A k \in I : k < i => p \notin Given(rs[k].Applied, stage)

GroupExact(rs, g, I) ==
    /\ g.basePlan = UNION {rs[i].BasePlan : i \in I}
    /\ g.baseApplyOnly = UNION {rs[i].BaseApplyOnly : i \in I}
    /\ g.plan = UNION {RowPlan(rs[i]) : i \in I}
    /\ g.applyOnly = UNION {RowApplyOnly(rs[i]) : i \in I}
    /\ OriginsExact(rs, g.condPlanOrigin, "Plan", I)
    /\ OriginsExact(rs, g.condApplyOrigin, "ApplyOnly", I)

RowsAre ==
    rows # Nothing =>
        /\ pc = "done"
        /\ \E p : IsOrder(p, result.Resources) /\ rows = sortedBy(p, result.Resources)
        /\ jsonPerms = [x \in {Identity(y) : y \in ToSet(result.Resources)} |->
                          UNION {unionResourcePerms(y) : y \in {z \in ToSet(rows) : Identity(z) = x}}]

GroupsSoFar ==
    /\ seen \in Nat
    /\ rows = Nothing => seen = 0
    /\ rows # Nothing => seen <= Len(rows)
    /\ \A t : t \in DOMAIN accs <=> Gone(t) # {}
    /\ \A t \in DOMAIN accs : GroupExact(rows, accs[t], Gone(t))

GroupsAre ==
    groups # Nothing =>
        /\ rows # Nothing /\ seen = Len(rows)
        /\ groups = [t \in DOMAIN accs |-> Shown(accs[t])]

ReportInv == RowsAre /\ GroupsSoFar /\ GroupsAre

(* What an order makes of the rows.                                          *)
LEMMA SortedByIs ==
    ASSUME NEW rs \in Seq(Rows), NEW p, IsOrder(p, rs)
    PROVE  /\ sortedBy(p, rs) \in Seq(Rows) /\ DOMAIN sortedBy(p, rs) = DOMAIN rs
           /\ Len(sortedBy(p, rs)) = Len(rs)
           /\ \A i \in DOMAIN rs : /\ p[i] \in DOMAIN rs /\ rs[p[i]] \in Rows
                                   /\ sortedBy(p, rs)[i] = [rs[p[i]] EXCEPT !.Applied = sortedApplied(@)]
           /\ \A i, j \in DOMAIN rs : p[i] = p[j] => i = j
           /\ \A k \in DOMAIN rs : \E i \in DOMAIN rs : p[i] = k
<1> DEFINE s == sortedBy(p, rs)
<1>1. /\ p \in [DOMAIN rs -> DOMAIN rs]
      /\ \A i, j \in DOMAIN rs : p[i] = p[j] => i = j
      /\ \A k \in DOMAIN rs : \E i \in DOMAIN rs : p[i] = k
  BY DEF IsOrder, Bijection, Injection, Surjection, IsInjective
<1>2. Len(rs) \in Nat /\ DOMAIN rs = 1 .. Len(rs) /\ \A i \in DOMAIN rs : rs[i] \in Rows
  OBVIOUS
<1>3. \A i \in DOMAIN rs : p[i] \in DOMAIN rs /\ rs[p[i]] \in Rows
  BY <1>1, <1>2
<1>4. \A i \in DOMAIN rs : s[i] = [rs[p[i]] EXCEPT !.Applied = sortedApplied(@)]
  BY DEF sortedBy
<1>5. \A x \in Rows : [x EXCEPT !.Applied = sortedApplied(@)] \in Rows
  <2> TAKE x \in Rows
  <2>1. x.Applied \in Seq(Clause)
    BY DEF Rows, Clause
  <2>2. sortedApplied(x.Applied) \in Seq(Clause)
    BY <2>1, AppliedSorted
  <2> QED BY <2>2 DEF Rows, Clause
<1>6. s \in Seq(Rows) /\ DOMAIN s = DOMAIN rs /\ Len(s) = Len(rs)
  <2>1. ASSUME NEW i \in DOMAIN rs PROVE s[i] \in Rows
    <3> HIDE DEF s, Rows
    <3>1. PICK x \in Rows : x = rs[p[i]]
      BY <1>3
    <3>2. s[i] = [x EXCEPT !.Applied = sortedApplied(@)]
      BY <1>4, <3>1
    <3> QED BY <1>5, <3>2
  <2>2. DOMAIN s = 1 .. Len(rs) /\ s = [i \in 1 .. Len(rs) |-> s[i]]
    BY <1>2 DEF sortedBy
  <2> HIDE DEF s
  <2>3. s \in [1 .. Len(rs) -> Rows]
    BY <1>2, <2>1, <2>2
  <2> QED BY <1>2, <2>3
<1> QED BY <1>1, <1>3, <1>4, <1>6

(* Going on by one row keeps the origins exact.                              *)
LEMMA OriginsGrow ==
    ASSUME NEW rs, NEW o, NEW stage, NEW n \in Nat, NEW I \in SUBSET (1 .. n),
           OriginsExact(rs, o, stage, I)
    PROVE  OriginsExact(rs, Origins(o, rs[n + 1].Applied, stage), stage, I \union {n + 1})
<1> DEFINE a == rs[n + 1].Applied
           q == Origins(o, a, stage)
           J == I \union {n + 1}
<1>1. \A p : p \in DOMAIN o <=> \E i \in I : p \in Given(rs[i].Applied, stage)
  BY DEF OriginsExact
<1>2. /\ DOMAIN q = DOMAIN o \union Given(a, stage)
      /\ \A p \in DOMAIN q : q[p] = IF p \in DOMAIN o THEN o[p] ELSE FirstText(a, stage, p)
  BY DEF Origins
<1>3. DOMAIN q = UNION {Given(rs[i].Applied, stage) : i \in J}
  <2>1. \A p : p \in DOMAIN q <=> \E i \in J : p \in Given(rs[i].Applied, stage)
    BY <1>1, <1>2
  <2> QED BY <2>1
<1> HIDE DEF q
<1>4. \A k \in I : k \in Nat /\ k < n + 1
  OBVIOUS
<1>5. ASSUME NEW p \in DOMAIN q
      PROVE  \E i \in J : /\ p \in Given(rs[i].Applied, stage) /\ q[p] = FirstText(rs[i].Applied, stage, p)
                          /\ \A k \in J : k < i => p \notin Given(rs[k].Applied, stage)
  <2>1. CASE p \in DOMAIN o
    <3>1. PICK i \in I : /\ p \in Given(rs[i].Applied, stage) /\ o[p] = FirstText(rs[i].Applied, stage, p)
                         /\ \A k \in I : k < i => p \notin Given(rs[k].Applied, stage)
      BY <2>1 DEF OriginsExact
    <3>2. ~(n + 1 < i)
      BY <1>4
    <3> QED BY <1>2, <2>1, <3>1, <3>2
  <2>2. CASE p \notin DOMAIN o
    <3>1. p \in Given(a, stage) /\ q[p] = FirstText(a, stage, p)
      BY <1>2, <2>2
    <3>2. \A k \in I : p \notin Given(rs[k].Applied, stage)
      BY <1>1, <2>2
    <3>3. \A k \in J : k < n + 1 => k \in I
      OBVIOUS
    <3> QED BY <3>1, <3>2, <3>3
  <2> QED BY <2>1, <2>2
<1> QED BY <1>3, <1>5 DEF OriginsExact, q

LEMMA UnionGrows == ASSUME NEW A, NEW c PROVE UNION (A \union {c}) = (UNION A) \union c
<1>1. ASSUME NEW p, p \in UNION (A \union {c}) PROVE p \in (UNION A) \union c
  <2>1. PICK S \in A \union {c} : p \in S
    BY <1>1
  <2> QED BY <2>1
<1>2. ASSUME NEW p, p \in (UNION A) \union c PROVE p \in UNION (A \union {c})
  <2>1. CASE p \in c
    BY <2>1
  <2>2. CASE p \in UNION A
    <3>1. PICK S \in A : p \in S
      BY <2>2
    <3> QED BY <3>1
  <2> QED BY <1>2, <2>1, <2>2
<1> QED BY <1>1, <1>2

LEMMA NewGroupIs == ASSUME NEW rs PROVE GroupExact(rs, NewGroup, {})
BY DEF GroupExact, OriginsExact, NewGroup

LEMMA GroupGrows ==
    ASSUME NEW rs, NEW g, NEW n \in Nat, NEW I \in SUBSET (1 .. n), GroupExact(rs, g, I)
    PROVE  GroupExact(rs, Gathered(g, rs[n + 1]), I \union {n + 1})
<1> DEFINE x == rs[n + 1]
           h == Gathered(g, x)
           J == I \union {n + 1}
<1>1. /\ h.basePlan = g.basePlan \union x.BasePlan
      /\ h.baseApplyOnly = g.baseApplyOnly \union x.BaseApplyOnly
      /\ h.plan = g.plan \union RowPlan(x)
      /\ h.applyOnly = g.applyOnly \union RowApplyOnly(x)
      /\ h.condPlanOrigin = Origins(g.condPlanOrigin, x.Applied, "Plan")
      /\ h.condApplyOrigin = Origins(g.condApplyOrigin, x.Applied, "ApplyOnly")
  BY DEF Gathered
<1> HIDE DEF h
<1>2. /\ h.basePlan = UNION {rs[i].BasePlan : i \in J}
      /\ h.baseApplyOnly = UNION {rs[i].BaseApplyOnly : i \in J}
      /\ h.plan = UNION {RowPlan(rs[i]) : i \in J}
      /\ h.applyOnly = UNION {RowApplyOnly(rs[i]) : i \in J}
  <2> HIDE DEF J
  <2>1. /\ g.basePlan = UNION {rs[i].BasePlan : i \in I}
        /\ g.baseApplyOnly = UNION {rs[i].BaseApplyOnly : i \in I}
        /\ g.plan = UNION {RowPlan(rs[i]) : i \in I}
        /\ g.applyOnly = UNION {RowApplyOnly(rs[i]) : i \in I}
    BY DEF GroupExact
  <2>2. \A A, c : UNION (A \union {c}) = (UNION A) \union c
    BY UnionGrows
  <2>3. {rs[i].BasePlan : i \in J} = {rs[i].BasePlan : i \in I} \union {x.BasePlan}
    BY DEF J
  <2>4. {rs[i].BaseApplyOnly : i \in J} = {rs[i].BaseApplyOnly : i \in I} \union {x.BaseApplyOnly}
    BY DEF J
  <2>5. {RowPlan(rs[i]) : i \in J} = {RowPlan(rs[i]) : i \in I} \union {RowPlan(x)}
    BY DEF J
  <2>6. {RowApplyOnly(rs[i]) : i \in J} = {RowApplyOnly(rs[i]) : i \in I} \union {RowApplyOnly(x)}
    BY DEF J
  <2> HIDE DEF x
  <2>7. /\ h.basePlan = UNION ({rs[i].BasePlan : i \in I} \union {x.BasePlan})
        /\ h.baseApplyOnly = UNION ({rs[i].BaseApplyOnly : i \in I} \union {x.BaseApplyOnly})
        /\ h.plan = UNION ({RowPlan(rs[i]) : i \in I} \union {RowPlan(x)})
        /\ h.applyOnly = UNION ({RowApplyOnly(rs[i]) : i \in I} \union {RowApplyOnly(x)})
    BY <1>1, <2>1, <2>2
  <2> QED BY <2>3, <2>4, <2>5, <2>6, <2>7
<1>3. /\ OriginsExact(rs, h.condPlanOrigin, "Plan", J)
      /\ OriginsExact(rs, h.condApplyOrigin, "ApplyOnly", J)
  <2>1. /\ OriginsExact(rs, g.condPlanOrigin, "Plan", I)
        /\ OriginsExact(rs, g.condApplyOrigin, "ApplyOnly", I)
    BY DEF GroupExact
  <2>2. /\ OriginsExact(rs, Origins(g.condPlanOrigin, x.Applied, "Plan"), "Plan", J)
        /\ OriginsExact(rs, Origins(g.condApplyOrigin, x.Applied, "ApplyOnly"), "ApplyOnly", J)
    BY <2>1, OriginsGrow
  <2> QED BY <1>1, <2>2
<1> QED BY <1>2, <1>3 DEF GroupExact, h

LEMMA ReportNextIs == [ReportNext]_<<vars, rvars>> => [Next]_vars
BY DEF ReportNext, Analyse, Canonicalize, GroupRow, CloseGroups

LEMMA ReportInvInit == ReportInit => ReportInv
BY DEF ReportInit, ReportInv, RowsAre, GroupsSoFar, GroupsAre, Gone

LEMMA DoneStays == pc = "done" => ~Next
BY DEF Next, SkipKind, RecordUnknown, OpenResource, ApplyConditional, ReportMissing,
       RejectConditional, CloseResource, Finish, AtResource, AtConditional

(* The rows, once there, are those of the answer in some order.              *)
LEMMA RowsHaveType ==
    ASSUME PassInv, RowsAre, rows # Nothing
    PROVE  rows \in Seq(Rows) /\ Len(rows) \in Nat /\ DOMAIN rows = 1 .. Len(rows)
<1>1. /\ result.Resources \in Seq(Rows)
      /\ \E p : IsOrder(p, result.Resources) /\ rows = sortedBy(p, result.Resources)
  BY Answered DEF RowsAre
<1>2. rows \in Seq(Rows)
  BY <1>1, SortedByIs
<1> HIDE DEF Rows
<1> QED BY <1>2

LEMMA GroupRowStep == PassInv /\ ReportInv /\ GroupRow => ReportInv'
<1> SUFFICES ASSUME PassInv, ReportInv, GroupRow PROVE ReportInv'
  OBVIOUS
<1> DEFINE x == rows[seen + 1]
           g == GroupOf(x.type)
<1>1. /\ rows # Nothing /\ seen < Len(rows) /\ seen \in Nat /\ Len(rows) \in Nat
      /\ DOMAIN accs' = DOMAIN accs \union {x.type}
      /\ \A t \in DOMAIN accs' : accs'[t] = IF t = x.type THEN Gathered(g, x) ELSE accs[t]
      /\ seen' = seen + 1 /\ rows' = rows /\ groups' = groups /\ jsonPerms' = jsonPerms
      /\ pc' = pc /\ result' = result
  BY RowsHaveType DEF GroupRow, Put, ReportInv, GroupsSoFar, vars
<1>2. \A t : Gone(t)' = IF t = x.type THEN Gone(t) \union {seen + 1} ELSE Gone(t)
  <2> TAKE t
  <2>1. Gone(t)' = {i \in 1 .. seen + 1 : rows[i].type = t}
    BY <1>1 DEF Gone
  <2>2. 1 .. seen + 1 = (1 .. seen) \union {seen + 1}
    BY <1>1
  <2> QED BY <2>1, <2>2 DEF Gone
<1>3. \A t : Gone(t) \in SUBSET (1 .. seen)
  BY DEF Gone
<1>4. GroupExact(rows, g, Gone(x.type))
  <2>1. CASE x.type \in DOMAIN accs
    BY <2>1 DEF GroupOf, ReportInv, GroupsSoFar
  <2>2. CASE x.type \notin DOMAIN accs
    <3>1. Gone(x.type) = {}
      BY <2>2 DEF ReportInv, GroupsSoFar
    <3> QED BY <2>2, <3>1, NewGroupIs DEF GroupOf
  <2> QED BY <2>1, <2>2
<1>5. GroupExact(rows, Gathered(g, x), Gone(x.type) \union {seen + 1})
  <2> HIDE DEF g
  <2> QED BY <1>1, <1>3, <1>4, GroupGrows
<1> HIDE DEF g, x
<1>6. \A t : t \in DOMAIN accs' <=> Gone(t)' # {}
  BY <1>1, <1>2 DEF ReportInv, GroupsSoFar
<1>7. \A t \in DOMAIN accs' : GroupExact(rows, accs'[t], Gone(t)')
  BY <1>1, <1>2, <1>5 DEF ReportInv, GroupsSoFar
<1>8. GroupsSoFar'
  <2>1. \A t \in DOMAIN accs' : GroupExact(rows, accs[t], Gone(t))'
    BY <1>1, <1>7
  <2> QED BY <1>1, <1>6, <2>1 DEF GroupsSoFar
<1>9. groups = Nothing
  BY <1>1 DEF ReportInv, GroupsAre
<1> QED BY <1>1, <1>8, <1>9 DEF ReportInv, RowsAre, GroupsAre

LEMMA ReportInvStep == PassInv /\ ReportInv /\ [ReportNext]_<<vars, rvars>> => ReportInv'
<1> SUFFICES ASSUME PassInv, ReportInv, [ReportNext]_<<vars, rvars>> PROVE ReportInv'
  OBVIOUS
<1>1. CASE Analyse
  <2>1. rows = Nothing /\ groups = Nothing /\ UNCHANGED rvars
    BY <1>1, DoneStays DEF Analyse, ReportInv, RowsAre, GroupsAre
  <2> QED BY <2>1 DEF ReportInv, RowsAre, GroupsSoFar, GroupsAre, Gone, rvars
<1>2. CASE Canonicalize
  <2>1. /\ pc = "done" /\ rows = Nothing /\ seen = 0 /\ groups = Nothing
        /\ UNCHANGED <<vars, seen, accs, groups>>
    BY <1>2 DEF Canonicalize, ReportInv, GroupsSoFar, GroupsAre
  <2>2. PICK p : IsOrder(p, result.Resources) /\ rows' = sortedBy(p, result.Resources)
    BY <1>2 DEF Canonicalize
  <2>3. pc' = pc /\ result' = result /\ seen' = 0 /\ groups' = Nothing /\ accs' = accs
    BY <2>1 DEF vars
  <2>4. RowsAre'
    BY <1>2, <2>1, <2>2, <2>3 DEF RowsAre, Canonicalize
  <2>5. 0 <= Len(rows')
    <3>1. rows' \in Seq(Rows)
      BY <2>1, <2>2, Answered, SortedByIs
    <3> HIDE DEF Rows
    <3> QED BY <3>1
  <2>6. \A t : Gone(t) = {} /\ Gone(t)' = {} /\ t \notin DOMAIN accs
    BY <2>1, <2>3 DEF Gone, ReportInv, GroupsSoFar
  <2> QED BY <2>3, <2>4, <2>5, <2>6 DEF ReportInv, GroupsSoFar, GroupsAre
<1>3. CASE GroupRow
  BY <1>3, GroupRowStep
<1>4. CASE CloseGroups
  <2>1. /\ rows # Nothing /\ seen = Len(rows) /\ groups' = [t \in DOMAIN accs |-> Shown(accs[t])]
        /\ rows' = rows /\ seen' = seen /\ accs' = accs /\ jsonPerms' = jsonPerms
        /\ pc' = pc /\ result' = result
    BY <1>4 DEF CloseGroups, vars
  <2> QED BY <2>1 DEF ReportInv, RowsAre, GroupsSoFar, GroupsAre, Gone
<1>5. CASE UNCHANGED <<vars, rvars>>
  BY <1>5 DEF ReportInv, RowsAre, GroupsSoFar, GroupsAre, Gone, vars, rvars
<1> QED BY <1>1, <1>2, <1>3, <1>4, <1>5 DEF ReportNext

(* What holds of the reports of every answer.                                *)
THEOREM ReportAlwaysExact == ReportSpec => [](PassInv /\ ReportInv)
<1>1. ReportInit => PassInv /\ ReportInv
  BY PassInvInit, ReportInvInit DEF ReportInit
<1>2. PassInv /\ ReportInv /\ [ReportNext]_<<vars, rvars>> => (PassInv /\ ReportInv)'
  BY PassInvStep, ReportInvStep, ReportNextIs
<1> QED BY <1>1, <1>2, PTL DEF ReportSpec

-----------------------------------------------------------------------------
(* What the finished reports say.                                           *)

(* Each row shown is a row of the answer, and each of those is shown once.   *)
LEMMA RowsShown ==
    ASSUME PassInv, RowsAre, rows # Nothing
    PROVE  \E p :
              /\ \A i \in DOMAIN rows : /\ p[i] \in DOMAIN results
                                        /\ results[p[i]] \in Rows /\ SameRow(rows[i], results[p[i]])
              /\ \A k \in DOMAIN results : \E i \in DOMAIN rows : p[i] = k
              /\ \A i, j \in DOMAIN rows : p[i] = p[j] => i = j
              /\ \A i, j \in DOMAIN rows : i < j => ~rowLess(results[p[j]], results[p[i]])
<1>1. result.Resources = results /\ results \in Seq(Rows)
  BY Answered DEF RowsAre
<1>2. PICK p : IsOrder(p, results) /\ rows = sortedBy(p, results)
  BY <1>1 DEF RowsAre
<1>3. /\ DOMAIN rows = DOMAIN results
      /\ \A i \in DOMAIN results : /\ p[i] \in DOMAIN results /\ results[p[i]] \in Rows
                                   /\ rows[i] = [results[p[i]] EXCEPT !.Applied = sortedApplied(@)]
      /\ \A i, j \in DOMAIN results : p[i] = p[j] => i = j
      /\ \A k \in DOMAIN results : \E i \in DOMAIN results : p[i] = k
  <2>1. /\ DOMAIN sortedBy(p, results) = DOMAIN results
        /\ \A i \in DOMAIN results : p[i] \in DOMAIN results /\ results[p[i]] \in Rows
        /\ \A i, j \in DOMAIN results : p[i] = p[j] => i = j
        /\ \A k \in DOMAIN results : \E i \in DOMAIN results : p[i] = k
    <3> HIDE DEF Rows
    <3>1. DOMAIN sortedBy(p, results) = DOMAIN results
      BY <1>1, <1>2, SortedByIs
    <3>2. \A i \in DOMAIN results : p[i] \in DOMAIN results /\ results[p[i]] \in Rows
      BY <1>1, <1>2, SortedByIs
    <3>3. \A i, j \in DOMAIN results : p[i] = p[j] => i = j
      BY <1>1, <1>2, SortedByIs
    <3>4. \A k \in DOMAIN results : \E i \in DOMAIN results : p[i] = k
      BY <1>1, <1>2, SortedByIs
    <3> QED BY <3>1, <3>2, <3>3, <3>4
  <2>2. \A i \in DOMAIN results :
           sortedBy(p, results)[i] = [results[p[i]] EXCEPT !.Applied = sortedApplied(@)]
    BY DEF sortedBy
  <2> HIDE DEF Rows
  <2> QED BY <1>2, <2>1, <2>2
<1>4. \A i \in DOMAIN rows : SameRow(rows[i], results[p[i]])
  BY <1>3, RowSorted
<1>5. \A i, j \in DOMAIN rows : i < j => ~rowLess(results[p[j]], results[p[i]])
  BY <1>2, <1>3 DEF IsOrder
<1> QED BY <1>3, <1>4, <1>5

(* No two rows of the answer tie, so their order is that of their places.    *)
LEMMA OrderedRows == PassInv /\ ReportInv => RowsOrdered
<1> SUFFICES ASSUME PassInv, ReportInv, rows # Nothing,
                    NEW i \in DOMAIN rows, NEW j \in DOMAIN rows, i < j
             PROVE  \/ BlockRank[rows[i].block] < BlockRank[rows[j].block]
                    \/ /\ rows[i].block = rows[j].block
                       /\ \/ IsStrictPrefix(rows[i].path, rows[j].path)
                          \/ \E k \in DOMAIN rows[i].path \intersect DOMAIN rows[j].path :
                               /\ SubSeq(rows[i].path, 1, k - 1) = SubSeq(rows[j].path, 1, k - 1)
                               /\ NameRank[rows[i].path[k]] < NameRank[rows[j].path[k]]
  BY DEF RowsOrdered
<1>1. PICK p :
         /\ \A n \in DOMAIN rows : /\ p[n] \in DOMAIN results
                                   /\ results[p[n]] \in Rows /\ SameRow(rows[n], results[p[n]])
         /\ \A m, n \in DOMAIN rows : p[m] = p[n] => m = n
         /\ \A m, n \in DOMAIN rows : m < n => ~rowLess(results[p[n]], results[p[m]])
  BY RowsShown DEF ReportInv
<1>2. PICK x : x = results[p[i]]
  OBVIOUS
<1>3. PICK y : y = results[p[j]]
  OBVIOUS
<1>4. IsRow(x) /\ IsRow(y) /\ SameRow(rows[i], x) /\ SameRow(rows[j], y) /\ ~rowLess(y, x)
  BY <1>1, <1>2, <1>3 DEF IsRow, Rows
<1>5. i # j
  <2>1. DOMAIN rows \subseteq Nat
    BY RowsHaveType DEF ReportInv
  <2> QED BY <2>1
<1>6. ~(x.block = y.block /\ x.path = y.path)
  BY <1>1, <1>2, <1>3, <1>5 DEF PassInv, RowsDistinct
<1>7. rowLess(x, y)
  BY <1>4, <1>6, RowLessOrders
<1>8. /\ rows[i].block = x.block /\ rows[j].block = y.block
      /\ rows[i].path = x.path /\ rows[j].path = y.path
  BY <1>4 DEF SameRow
<1>9. CASE x.block = y.block /\ moduleLess(x.path, y.path)
  BY <1>4, <1>8, <1>9, ModuleLessIs DEF IsRow
<1> QED BY <1>7, <1>8, <1>9 DEF rowLess

(* For every answer of the resolver: the canonical rows are in strict order  *)
(* of place and module path, whatever order sort.Slice leaves ties in.       *)
THEOREM RowsAlwaysOrdered == ReportSpec => []RowsOrdered
BY ReportAlwaysExact, OrderedRows, PTL

(* The rows a group gathers are those of its type in the answer.             *)
LEMMA GoneAreRows ==
    ASSUME PassInv, ReportInv, Finished, NEW t
    PROVE  /\ \A i \in Gone(t) : \E x \in RowsOf(t) : SameRow(rows[i], x)
           /\ \A x \in RowsOf(t) : \E i \in Gone(t) : SameRow(rows[i], x)
           /\ t \in DOMAIN groups <=> RowsOf(t) # {}
<1>1. rows # Nothing /\ seen = Len(rows) /\ groups = [u \in DOMAIN accs |-> Shown(accs[u])]
  BY DEF Finished, ReportInv, GroupsAre
<1>2. DOMAIN rows = 1 .. seen
  BY <1>1, RowsHaveType DEF ReportInv
<1>3. PICK p :
         /\ \A i \in DOMAIN rows : p[i] \in DOMAIN results /\ SameRow(rows[i], results[p[i]])
         /\ \A k \in DOMAIN results : \E i \in DOMAIN rows : p[i] = k
  BY <1>1, RowsShown DEF ReportInv
<1>4. \A x : x \in RowsOf(t) <=> \E k \in DOMAIN results : x = results[k] /\ x.type = t
  BY <1>1, Answered DEF RowsOf, ToSet, ReportInv, RowsAre
<1>5. ASSUME NEW i \in Gone(t) PROVE \E x \in RowsOf(t) : SameRow(rows[i], x)
  <2>1. i \in DOMAIN rows /\ rows[i].type = t
    BY <1>2 DEF Gone
  <2> QED BY <1>3, <1>4, <2>1 DEF SameRow
<1>6. ASSUME NEW x \in RowsOf(t) PROVE \E i \in Gone(t) : SameRow(rows[i], x)
  <2>1. PICK k \in DOMAIN results : x = results[k] /\ x.type = t
    BY <1>4
  <2>2. PICK i \in DOMAIN rows : p[i] = k
    BY <1>3
  <2>3. SameRow(rows[i], x)
    BY <1>3, <2>1, <2>2
  <2> QED BY <1>2, <2>1, <2>3 DEF Gone, SameRow
<1>7. t \in DOMAIN groups <=> Gone(t) # {}
  BY <1>1 DEF ReportInv, GroupsSoFar
<1> QED BY <1>5, <1>6, <1>7

(* What a finished group holds, in terms of the answer.                      *)
LEMMA GroupIs ==
    ASSUME PassInv, ReportInv, Finished, NEW t \in DOMAIN groups
    PROVE  /\ groups[t] = Shown(accs[t]) /\ GroupExact(rows, accs[t], Gone(t))
           /\ \A q : q \in accs[t].plan <=> \E x \in RowsOf(t) : q \in RowPlan(x)
           /\ \A q : q \in accs[t].applyOnly <=> \E x \in RowsOf(t) : q \in RowApplyOnly(x)
           /\ accs[t].basePlan = UNION {x.BasePlan : x \in RowsOf(t)}
           /\ accs[t].baseApplyOnly = UNION {x.BaseApplyOnly : x \in RowsOf(t)}
           /\ \A q : q \in DOMAIN accs[t].condPlanOrigin <=> \E x \in RowsOf(t) : Gives(x, "Plan", q)
           /\ \A q : q \in DOMAIN accs[t].condApplyOrigin <=> \E x \in RowsOf(t) : Gives(x, "ApplyOnly", q)
<1> DEFINE g == accs[t]
           I == Gone(t)
           X == RowsOf(t)
<1>1. groups[t] = Shown(g) /\ GroupExact(rows, g, I)
  BY DEF Finished, ReportInv, GroupsAre, GroupsSoFar
<1>2. /\ \A i \in I : \E x \in X : SameRow(rows[i], x)
      /\ \A x \in X : \E i \in I : SameRow(rows[i], x)
  BY GoneAreRows
<1>3. /\ g.basePlan = UNION {rows[i].BasePlan : i \in I}
      /\ g.baseApplyOnly = UNION {rows[i].BaseApplyOnly : i \in I}
      /\ g.plan = UNION {RowPlan(rows[i]) : i \in I}
      /\ g.applyOnly = UNION {RowApplyOnly(rows[i]) : i \in I}
      /\ DOMAIN g.condPlanOrigin = UNION {Given(rows[i].Applied, "Plan") : i \in I}
      /\ DOMAIN g.condApplyOrigin = UNION {Given(rows[i].Applied, "ApplyOnly") : i \in I}
  BY <1>1 DEF GroupExact, OriginsExact
<1> HIDE DEF g, I, X
<1>4. \A q : q \in g.plan <=> \E x \in X : q \in RowPlan(x)
  BY <1>2, <1>3 DEF SameRow
<1>5. \A q : q \in g.applyOnly <=> \E x \in X : q \in RowApplyOnly(x)
  BY <1>2, <1>3 DEF SameRow
<1>6. g.basePlan = UNION {x.BasePlan : x \in X}
  <2>1. \A q : q \in g.basePlan <=> \E x \in X : q \in x.BasePlan
    BY <1>2, <1>3 DEF SameRow
  <2>2. \A q : q \in UNION {x.BasePlan : x \in X} <=> \E x \in X : q \in x.BasePlan
    OBVIOUS
  <2> QED BY <1>3, <2>1, <2>2
<1>7. g.baseApplyOnly = UNION {x.BaseApplyOnly : x \in X}
  <2>1. \A q : q \in g.baseApplyOnly <=> \E x \in X : q \in x.BaseApplyOnly
    BY <1>2, <1>3 DEF SameRow
  <2>2. \A q : q \in UNION {x.BaseApplyOnly : x \in X} <=> \E x \in X : q \in x.BaseApplyOnly
    OBVIOUS
  <2> QED BY <1>3, <2>1, <2>2
<1>8. \A q : q \in DOMAIN g.condPlanOrigin <=> \E x \in X : Gives(x, "Plan", q)
  BY <1>2, <1>3 DEF SameRow, Gives
<1>9. \A q : q \in DOMAIN g.condApplyOrigin <=> \E x \in X : Gives(x, "ApplyOnly", q)
  BY <1>2, <1>3 DEF SameRow, Gives
<1> QED BY <1>1, <1>4, <1>5, <1>6, <1>7, <1>8, <1>9 DEF g, I, X

LEMMA ExactAnnotations == PassInv /\ ReportInv => AnnotationsExact
<1> SUFFICES ASSUME PassInv, ReportInv, Finished, NEW t \in DOMAIN groups
             PROVE  /\ DOMAIN groups[t].planOrigin
                         = groups[t].PlanPerms \ UNION {x.BasePlan : x \in RowsOf(t)}
                    /\ DOMAIN groups[t].applyOrigin
                         = groups[t].ApplyOnlyPerms \ UNION {x.BaseApplyOnly : x \in RowsOf(t)}
  BY DEF AnnotationsExact
<1> DEFINE g == accs[t]
           X == RowsOf(t)
<1>1. /\ \A q : q \in g.plan <=> \E x \in X : q \in RowPlan(x)
      /\ \A q : q \in g.applyOnly <=> \E x \in X : q \in RowApplyOnly(x)
      /\ g.basePlan = UNION {x.BasePlan : x \in X}
      /\ g.baseApplyOnly = UNION {x.BaseApplyOnly : x \in X}
      /\ \A q : q \in DOMAIN g.condPlanOrigin <=> \E x \in X : Gives(x, "Plan", q)
      /\ \A q : q \in DOMAIN g.condApplyOrigin <=> \E x \in X : Gives(x, "ApplyOnly", q)
      /\ groups[t] = Shown(g)
  BY GroupIs
<1>2. /\ groups[t].PlanPerms = g.plan /\ groups[t].ApplyOnlyPerms = g.applyOnly
      /\ DOMAIN groups[t].planOrigin = DOMAIN g.condPlanOrigin \ g.basePlan
      /\ DOMAIN groups[t].applyOrigin = DOMAIN g.condApplyOrigin \ g.baseApplyOnly
  BY <1>1 DEF Shown, Annotated
<1> HIDE DEF g, X
<1>3. /\ \A x, q : q \in RowPlan(x) <=> q \in x.BasePlan \/ Gives(x, "Plan", q)
      /\ \A x, q : q \in RowApplyOnly(x) <=> q \in x.BaseApplyOnly \/ Gives(x, "ApplyOnly", q)
  BY DEF RowPlan, RowApplyOnly, Gives, Given
<1>4. \A q : q \in DOMAIN g.condPlanOrigin \ g.basePlan <=> q \in g.plan \ g.basePlan
  BY <1>1, <1>3
<1>5. \A q : q \in DOMAIN g.condApplyOrigin \ g.baseApplyOnly <=> q \in g.applyOnly \ g.baseApplyOnly
  BY <1>1, <1>3
<1> QED BY <1>1, <1>2, <1>4, <1>5 DEF X

(* For every answer: a permission is annotated exactly if no instance of the *)
(* group has it in its base, whichever instance the loop met first.          *)
THEOREM AnnotationsAlwaysExact == ReportSpec => []AnnotationsExact
BY ReportAlwaysExact, ExactAnnotations, PTL

(* The first giver of a group, for each permission that some conditional     *)
(* gives.                                                                    *)
LEMMA FirstGiver ==
    ASSUME PassInv, ReportInv, Finished, NEW t, NEW stage \in {"Plan", "ApplyOnly"},
           NEW o, OriginsExact(rows, o, stage, Gone(t)), NEW q \in DOMAIN o
    PROVE  IsOrigin(o[q], t, stage, q)
<1>1. rows # Nothing /\ seen = Len(rows)
  BY DEF Finished, ReportInv, GroupsAre
<1>2. DOMAIN rows = 1 .. seen /\ seen \in Nat
  BY <1>1, RowsHaveType DEF ReportInv
<1>3. PICK p :
         /\ \A i \in DOMAIN rows : /\ p[i] \in DOMAIN results
                                   /\ results[p[i]] \in Rows /\ SameRow(rows[i], results[p[i]])
         /\ \A k \in DOMAIN results : \E i \in DOMAIN rows : p[i] = k
         /\ \A i, j \in DOMAIN rows : i < j => ~rowLess(results[p[j]], results[p[i]])
  BY <1>1, RowsShown DEF ReportInv
<1>4. PICK i \in Gone(t) :
         /\ q \in Given(rows[i].Applied, stage) /\ o[q] = FirstText(rows[i].Applied, stage, q)
         /\ \A k \in Gone(t) : k < i => q \notin Given(rows[k].Applied, stage)
  BY DEF OriginsExact
<1>5. i \in DOMAIN rows /\ i \in Nat /\ rows[i].type = t
  BY <1>2, <1>4 DEF Gone
<1>6. PICK x : x = results[p[i]]
  OBVIOUS
<1>7. SameRow(rows[i], x) /\ x \in Rows
  BY <1>3, <1>5, <1>6
<1>8. \A y : y \in RowsOf(t) <=> \E k \in DOMAIN results : y = results[k] /\ y.type = t
  BY <1>1, Answered DEF RowsOf, ToSet, ReportInv, RowsAre
<1>9. x \in RowsOf(t)
  BY <1>3, <1>5, <1>6, <1>7, <1>8 DEF SameRow
<1>10. \A y, z : SameRow(y, z) => (Gives(z, stage, q) <=> q \in Given(y.Applied, stage))
  BY DEF SameRow, Gives
<1>11. Gives(x, stage, q)
  BY <1>4, <1>7, <1>10
<1>12. ASSUME NEW y \in RowsOf(t), rowLess(y, x) PROVE ~Gives(y, stage, q)
  <2>1. PICK k \in DOMAIN rows : y = results[p[k]] /\ y.type = t
    BY <1>3, <1>8
  <2>2. SameRow(rows[k], y) /\ k \in Gone(t) /\ k \in Nat /\ y \in Rows
    <3>1. SameRow(rows[k], y) /\ y \in Rows
      BY <1>3, <2>1
    <3>2. k \in 1 .. seen /\ rows[k].type = t
      BY <1>2, <2>1, <3>1 DEF SameRow
    <3> QED BY <1>2, <3>1, <3>2 DEF Gone
  <2>3. ~(i < k)
    BY <1>3, <1>5, <1>6, <1>12, <2>1
  <2>4. i # k
    <3>1. IsRow(x)
      BY <1>7 DEF IsRow, Rows
    <3> QED BY <1>6, <1>12, <2>1, <3>1, RowLessOrders
  <2>5. q \notin Given(rows[k].Applied, stage)
    BY <1>4, <1>5, <2>2, <2>3, <2>4
  <2> QED BY <1>10, <2>2, <2>5
<1>13. \E m \in DOMAIN x.Applied :
          /\ q \in x.Applied[m][stage] /\ o[q] = serialiseWhen[x.Applied[m].When]
          /\ \A j \in DOMAIN x.Applied :
                q \in x.Applied[j][stage] => o[q] <= serialiseWhen[x.Applied[j].When]
  <2> DEFINE a == rows[i].Applied
             b == x.Applied
  <2>1. /\ a \in Seq(Clause) /\ TextsGrow(a)
        /\ \A c : (\E k \in DOMAIN a : a[k] = c) <=> \E n \in DOMAIN b : b[n] = c
    BY <1>7 DEF SameRow
  <2>2. q \in Given(a, stage) /\ o[q] = FirstText(a, stage, q)
    BY <1>4
  <2> HIDE DEF a, b
  <2>3. PICK n \in DOMAIN a :
           /\ q \in a[n][stage] /\ FirstText(a, stage, q) = Text(a[n])
           /\ \A j \in DOMAIN a : q \in a[j][stage] => Text(a[n]) <= Text(a[j])
    BY <2>1, <2>2, FirstTextIs
  <2>4. PICK m \in DOMAIN b : b[m] = a[n]
    BY <2>1
  <2>5. ASSUME NEW j \in DOMAIN b, q \in b[j][stage] PROVE o[q] <= Text(b[j])
    <3>1. PICK k \in DOMAIN a : a[k] = b[j]
      BY <2>1
    <3> QED BY <2>2, <2>3, <2>5, <3>1
  <2>6. q \in b[m][stage] /\ o[q] = Text(b[m])
    BY <2>2, <2>3, <2>4
  <2> QED BY <2>5, <2>6 DEF Text, b
<1> QED BY <1>9, <1>11, <1>12, <1>13 DEF IsOrigin

LEMMA StableOrigins == PassInv /\ ReportInv => OriginsStable
<1> SUFFICES ASSUME PassInv, ReportInv, Finished, NEW t \in DOMAIN groups
             PROVE  /\ \A q \in DOMAIN groups[t].planOrigin :
                          IsOrigin(groups[t].planOrigin[q], t, "Plan", q)
                    /\ \A q \in DOMAIN groups[t].applyOrigin :
                          IsOrigin(groups[t].applyOrigin[q], t, "ApplyOnly", q)
  BY DEF OriginsStable
<1> DEFINE g == accs[t]
<1>1. groups[t] = Shown(g) /\ GroupExact(rows, g, Gone(t))
  BY GroupIs
<1> HIDE DEF g
<1>2. /\ \A q \in DOMAIN groups[t].planOrigin :
            q \in DOMAIN g.condPlanOrigin /\ groups[t].planOrigin[q] = g.condPlanOrigin[q]
      /\ \A q \in DOMAIN groups[t].applyOrigin :
            q \in DOMAIN g.condApplyOrigin /\ groups[t].applyOrigin[q] = g.condApplyOrigin[q]
  BY <1>1 DEF Shown, Annotated
<1>3. /\ OriginsExact(rows, g.condPlanOrigin, "Plan", Gone(t))
      /\ OriginsExact(rows, g.condApplyOrigin, "ApplyOnly", Gone(t))
  BY <1>1 DEF GroupExact
<1>4. ASSUME NEW q \in DOMAIN g.condPlanOrigin PROVE IsOrigin(g.condPlanOrigin[q], t, "Plan", q)
  BY <1>3, FirstGiver
<1>5. ASSUME NEW q \in DOMAIN g.condApplyOrigin PROVE IsOrigin(g.condApplyOrigin[q], t, "ApplyOnly", q)
  BY <1>3, FirstGiver
<1> QED BY <1>2, <1>4, <1>5

(* For every answer: an annotation names the least clause of the first       *)
(* instance that gives the permission, so the order of the resources and of  *)
(* the catalog's conditionals does not show in it.                           *)
THEOREM OriginsAlwaysStable == ReportSpec => []OriginsStable
BY ReportAlwaysExact, StableOrigins, PTL

LEMMA AgreeingFormats == PassInv /\ ReportInv => FormatsAgree
<1> SUFFICES ASSUME PassInv, ReportInv, Finished
             PROVE  /\ UNION {groups[t].PlanPerms : t \in DOMAIN groups} = result.PlanPerms
                    /\ UNION {groups[t].PlanPerms \union groups[t].ApplyOnlyPerms : t \in DOMAIN groups}
                         = result.TotalApplyPerms
                    /\ UNION {jsonPerms[x] : x \in DOMAIN jsonPerms} = result.TotalApplyPerms
  BY DEF FormatsAgree
<1>1. rows # Nothing /\ pc = "done"
  BY DEF Finished, ReportInv, GroupsAre, RowsAre
<1>2. /\ result.Resources = results /\ results \in Seq(Rows)
      /\ result.PlanPerms = UNION {RowPlan(results[i]) : i \in DOMAIN results}
      /\ result.TotalApplyPerms
           = UNION {RowPlan(results[i]) \union RowApplyOnly(results[i]) : i \in DOMAIN results}
  BY <1>1, Answered
<1>3. /\ \A q : q \in result.PlanPerms <=> \E i \in DOMAIN results : q \in RowPlan(results[i])
      /\ \A q : q \in result.TotalApplyPerms
                  <=> \E i \in DOMAIN results : q \in RowPlan(results[i]) \/ q \in RowApplyOnly(results[i])
  BY <1>2
<1>4. \A t, x : x \in RowsOf(t) <=> \E k \in DOMAIN results : x = results[k] /\ x.type = t
  BY <1>2 DEF RowsOf, ToSet
<1>5. \A t : t \in DOMAIN groups <=> RowsOf(t) # {}
  BY GoneAreRows
<1>6. ASSUME NEW t \in DOMAIN groups
      PROVE  /\ \A q : q \in groups[t].PlanPerms <=> \E x \in RowsOf(t) : q \in RowPlan(x)
             /\ \A q : q \in groups[t].ApplyOnlyPerms <=> \E x \in RowsOf(t) : q \in RowApplyOnly(x)
  <2>1. /\ groups[t] = Shown(accs[t])
        /\ \A q : q \in accs[t].plan <=> \E x \in RowsOf(t) : q \in RowPlan(x)
        /\ \A q : q \in accs[t].applyOnly <=> \E x \in RowsOf(t) : q \in RowApplyOnly(x)
    BY GroupIs
  <2>2. groups[t].PlanPerms = accs[t].plan /\ groups[t].ApplyOnlyPerms = accs[t].applyOnly
    BY <2>1 DEF Shown
  <2> QED BY <2>1, <2>2
<1>7. \A k \in DOMAIN results : results[k] \in RowsOf(results[k].type) /\ results[k].type \in DOMAIN groups
  BY <1>4, <1>5
<1>8. UNION {groups[t].PlanPerms : t \in DOMAIN groups} = result.PlanPerms
  <2>1. ASSUME NEW t \in DOMAIN groups, NEW q \in groups[t].PlanPerms PROVE q \in result.PlanPerms
    BY <1>3, <1>4, <1>6
  <2>2. ASSUME NEW q \in result.PlanPerms PROVE \E t \in DOMAIN groups : q \in groups[t].PlanPerms
    BY <1>3, <1>6, <1>7
  <2> QED BY <2>1, <2>2
<1>9. UNION {groups[t].PlanPerms \union groups[t].ApplyOnlyPerms : t \in DOMAIN groups}
        = result.TotalApplyPerms
  <2>1. ASSUME NEW t \in DOMAIN groups, NEW q \in groups[t].PlanPerms \union groups[t].ApplyOnlyPerms
        PROVE  q \in result.TotalApplyPerms
    BY <1>3, <1>4, <1>6
  <2>2. ASSUME NEW q \in result.TotalApplyPerms
        PROVE  \E t \in DOMAIN groups : q \in groups[t].PlanPerms \union groups[t].ApplyOnlyPerms
    BY <1>3, <1>6, <1>7
  <2> QED BY <2>1, <2>2
<1>10. UNION {jsonPerms[x] : x \in DOMAIN jsonPerms} = result.TotalApplyPerms
  <2>1. PICK p :
           /\ \A i \in DOMAIN rows : p[i] \in DOMAIN results /\ SameRow(rows[i], results[p[i]])
           /\ \A k \in DOMAIN results : \E i \in DOMAIN rows : p[i] = k
    BY <1>1, RowsShown DEF ReportInv
  <2>2. /\ jsonPerms = [x \in {Identity(y) : y \in ToSet(results)} |->
                          UNION {unionResourcePerms(y) : y \in {z \in ToSet(rows) : Identity(z) = x}}]
        /\ \A y : y \in ToSet(results) <=> \E k \in DOMAIN results : y = results[k]
        /\ \A y : y \in ToSet(rows) <=> \E i \in DOMAIN rows : y = rows[i]
    BY <1>1, <1>2 DEF ReportInv, RowsAre, ToSet
  <2>3. /\ \A x : x \in DOMAIN jsonPerms <=> \E k \in DOMAIN results : x = Identity(results[k])
        /\ \A x \in DOMAIN jsonPerms : \A q :
              q \in jsonPerms[x] <=> \E i \in DOMAIN rows : Identity(rows[i]) = x /\ q \in unionResourcePerms(rows[i])
    BY <2>2
  <2>4. \A i \in DOMAIN rows :
           /\ unionResourcePerms(rows[i]) = RowPlan(results[p[i]]) \union RowApplyOnly(results[p[i]])
           /\ Identity(rows[i]) = Identity(results[p[i]]) /\ p[i] \in DOMAIN results
    BY <2>1 DEF SameRow, unionResourcePerms
  <2>5. ASSUME NEW x \in DOMAIN jsonPerms, NEW q \in jsonPerms[x] PROVE q \in result.TotalApplyPerms
    BY <1>3, <2>3, <2>4
  <2>6. ASSUME NEW q \in result.TotalApplyPerms PROVE \E x \in DOMAIN jsonPerms : q \in jsonPerms[x]
    <3>1. PICK k \in DOMAIN results : q \in RowPlan(results[k]) \/ q \in RowApplyOnly(results[k])
      BY <1>3
    <3>2. PICK i \in DOMAIN rows : p[i] = k
      BY <2>1
    <3> QED BY <2>3, <2>4, <3>1, <3>2
  <2> QED BY <2>5, <2>6
<1> QED BY <1>8, <1>9, <1>10

(* For every answer: the flat list, the groups and the JSON rows name the    *)
(* same permissions.                                                         *)
THEOREM FormatsAlwaysAgree == ReportSpec => []FormatsAgree
BY ReportAlwaysExact, AgreeingFormats, PTL
=============================================================================
