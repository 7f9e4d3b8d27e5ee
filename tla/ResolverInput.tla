---------------------------- MODULE ResolverInput ----------------------------
(***************************************************************************)
(* The data that internal/resolver works on, shared by the resolver itself *)
(* (Resolver) and by what it promises (RequiredPermissions): the merged    *)
(* permission catalog, the parsed resource blocks, the lookup of one in    *)
(* the other and the comparison of an attribute with a catalog literal.    *)
(*                                                                         *)
(* Abstractions.  Lists of permission strings are sets (the code only ever *)
(* unions, subtracts and sorts them).  A block is one member of Block: it  *)
(* stands for the triple (Name, File, Line).  Lexical order is left out.   *)
(***************************************************************************)
EXTENDS Naturals, Sequences, SequencesExt

CONSTANTS
    Perm,       \* permission strings
    Type,       \* Terraform types
    Block,      \* source positions of blocks: (Name, File, Line)
    Path,       \* module paths: sequences of call names, the root being <<>>
    Attr,       \* attribute names
    Value,      \* values an attribute expression may evaluate to
    Literal,    \* scalars and shapes a catalog author may write under when:
    NilVal,     \* cty.NilVal, "did not resolve"
    NilCatalog, \* the nil *catalog.Catalog
    Inputs,     \* the lists of parsed resources Resolve may be called with
    Catalogs    \* the catalogs Resolve may be called with

NUL == "NUL"
Reasons == {"function_call", "data_source", "missing_variable", "other"}

-----------------------------------------------------------------------------
(* catalog.PermissionSet, catalog.Conditional and the three entry shapes.   *)

PermissionSet == [Plan: SUBSET Perm, Create: SUBSET Perm,
                  Update: SUBSET Perm, Delete: SUBSET Perm]
DataSourcePermissions == [Plan: SUBSET Perm]

(* A Go map from some of S to T.                                            *)
IsMap(m, S, T) == DOMAIN m \subseteq S /\ m \in [DOMAIN m -> T]

(* A when: clause is a non-empty map; the validator rejects an empty one.   *)
When == UNION {[D -> Literal] : D \in SUBSET Attr \ {{}}}

Conditional == [when: When, permissions: PermissionSet]
DataSourceConditional == [when: When, permissions: DataSourcePermissions]

ResourceEntry   == [permissions: PermissionSet, conditionals: Seq(Conditional)]
DataSourceEntry == [permissions: DataSourcePermissions,
                    conditionals: Seq(DataSourceConditional)]

IsCatalog(c) ==
    /\ IsMap(c.Resources, Type, ResourceEntry)
    /\ IsMap(c.DataSources, Type, DataSourceEntry)
    /\ IsMap(c.IAMBindings, Type, ResourceEntry)

(* parser.Resource, as far as the resolver reads it.                        *)
IsResource(r) ==
    /\ r.kind \in STRING /\ r.type \in Type /\ r.block \in Block /\ r.path \in Path
    /\ IsMap(r.attrs, Attr, Value \union {NilVal})
    /\ IsMap(r.reasons, Attr, Reasons)
    /\ r.preventDestroy \in BOOLEAN

Identity(r) == [type |-> r.type, block |-> r.block, path |-> r.path]

(***************************************************************************)
(* encodeModulePath joins the call names with a NUL byte.  A call name is  *)
(* the sequence of its characters, so that a join without a separator      *)
(* would make <<"a">>, <<"b">> and <<"a","b">> one key.                    *)
(***************************************************************************)
encodeModulePath(path) ==
    FoldLeft(LAMBDA acc, name : IF acc = <<>> THEN name ELSE acc \o <<NUL>> \o name,
             <<>>, path)

(* What Resolve may be called with: blocks of one configuration, each       *)
(* (block, path) pair once, since the parser emits an instance once.        *)
ASSUME InputsAssumption ==
    \A rs \in Inputs :
        /\ rs \in Seq({rs[i] : i \in DOMAIN rs})
        /\ \A i \in DOMAIN rs : IsResource(rs[i])
        /\ \A i, j \in DOMAIN rs :
               rs[i].block = rs[j].block /\ rs[i].path = rs[j].path => i = j

ASSUME CatalogsAssumption == \A c \in Catalogs : c = NilCatalog \/ IsCatalog(c)

ASSUME NilAssumption == NilVal \notin Value

(* A NUL byte cannot occur in an HCL identifier, and none is empty: the     *)
(* encoding keeps different module paths different.                         *)
ASSUME PathAssumption ==
    \A p, q \in Path : encodeModulePath(p) = encodeModulePath(q) => p = q

-----------------------------------------------------------------------------
(* resolvedEntry and resolvedConditional: one shape for all three sections. *)
(* The projection of a data source leaves every write stage empty.          *)

ResolvedEntry == [base: PermissionSet, conditionals: Seq(Conditional)]

PlanOnly(perms) == [Plan |-> perms.Plan, Create |-> {}, Update |-> {}, Delete |-> {}]

projectConditionals(conds) ==
    [i \in DOMAIN conds |->
        [when |-> conds[i].when, permissions |-> conds[i].permissions]]

projectDataSourceConditionals(conds) ==
    [i \in DOMAIN conds |->
        [when |-> conds[i].when, permissions |-> PlanOnly(conds[i].permissions)]]

(* Which section answers for r: Resources before IAMBindings for a          *)
(* "resource" block, DataSources alone for a "data" block.                  *)
InResources(cat, r)   == r.kind = "resource" /\ r.type \in DOMAIN cat.Resources
InIAMBindings(cat, r) == r.kind = "resource" /\ r.type \in DOMAIN cat.IAMBindings
InDataSources(cat, r) == r.kind = "data"     /\ r.type \in DOMAIN cat.DataSources

Found(cat, r) ==
    /\ cat # NilCatalog
    /\ InResources(cat, r) \/ InIAMBindings(cat, r) \/ InDataSources(cat, r)

lookupEntry(cat, r) ==
    IF InDataSources(cat, r)
    THEN LET e == cat.DataSources[r.type]
         IN  [base |-> PlanOnly(e.permissions),
              conditionals |-> projectDataSourceConditionals(e.conditionals)]
    ELSE LET e == IF InResources(cat, r) THEN cat.Resources[r.type] ELSE cat.IAMBindings[r.type]
         IN  [base |-> e.permissions, conditionals |-> projectConditionals(e.conditionals)]

(***************************************************************************)
(* Values and literals are records [t, v].  A null value equals only a nil *)
(* literal; otherwise both are bool, string or number, of one type and     *)
(* equal.  The loader may hand over a nested literal: it equals nothing.   *)
(***************************************************************************)
ctyValueEqualsLiteral(actual, expected) ==
    IF actual.t = "null"
    THEN expected.t = "null"
    ELSE /\ expected.t \in {"bool", "string", "number"}
         /\ actual.t = expected.t
         /\ actual.v = expected.v

(* Whatever literal a predicate asks for, an attribute may turn out to be   *)
(* something else: a predicate on an unread attribute never holds for sure. *)
ASSUME ValueAssumption ==
    \A l \in Literal : \E v \in Value : ~ctyValueEqualsLiteral(v, l)
=============================================================================
