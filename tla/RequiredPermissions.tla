------------------------- MODULE RequiredPermissions -------------------------
(***************************************************************************)
(* What the resolver promises, without saying how: the permissions a       *)
(* configuration needs, as the union over its blocks of what the catalog   *)
(* asks for, and a warning wherever the configuration leaves open whether  *)
(* a conditional applies.  There is no order of blocks or conditionals, no *)
(* running set and no map in it.                                           *)
(*                                                                         *)
(* An attribute the parser could not evaluate may turn out to be anything. *)
(* A conditional FIRES when it holds however those attributes turn out,    *)
(* and is OPEN when that depends on how they do.                           *)
(***************************************************************************)
EXTENDS ResolverInput

CONSTANT Nothing

VARIABLES resources, cat, excludeDelete, result

vars == <<resources, cat, excludeDelete, result>>

-----------------------------------------------------------------------------
Known(r) == {a \in DOMAIN r.attrs : r.attrs[a] # NilVal}

(* Every way the attributes of a when: clause may turn out.                 *)
Completions(r, when) ==
    {f \in [DOMAIN when -> Value] : \A a \in DOMAIN when \intersect Known(r) : f[a] = r.attrs[a]}

Holds(f, when) == \A a \in DOMAIN when : ctyValueEqualsLiteral(f[a], when[a])

Fires(r, c) == \A f \in Completions(r, c.when) : Holds(f, c.when)

Open(r, c) ==
    /\ ~Fires(r, c)
    /\ \E f \in Completions(r, c.when) : Holds(f, c.when)

(* A literal that is a list or a map: no value equals it.                   *)
HasNestedLiteral(c) ==
    \E a \in DOMAIN c.when : \A v \in Value : ~ctyValueEqualsLiteral(v, c.when[a])

-----------------------------------------------------------------------------
Blocks == {r \in {resources[i] : i \in DOMAIN resources} : r.kind \in {"resource", "data"}}
MappedBlocks == {r \in Blocks : Found(cat, r)}

ConditionalsOf(r) ==
    LET conds == lookupEntry(cat, r).conditionals IN {conds[i] : i \in DOMAIN conds}

(* The permission sets the catalog asks for because of r.                   *)
Asked(r) == {lookupEntry(cat, r).base} \union {c.permissions : c \in {d \in ConditionalsOf(r) : Fires(r, d)}}

MayDelete(r) == ~r.preventDestroy /\ ~excludeDelete

NeededToPlan == UNION {UNION {ps.Plan : ps \in Asked(r)} : r \in MappedBlocks}
NeededToApply ==
    UNION {UNION {ps.Create \union ps.Update \union (IF MayDelete(r) THEN ps.Delete ELSE {})
                    : ps \in Asked(r)} : r \in MappedBlocks}

ReasonOf(r, a) == IF a \in DOMAIN r.reasons THEN r.reasons[a] ELSE "other"

(* One warning per attribute of the clause that could not be read.          *)
Warnings(r, c) ==
    {[type |-> r.type, block |-> r.block, path |-> r.path, attr |-> a, reason |-> ReasonOf(r, a)] :
        a \in DOMAIN c.when \ Known(r)}

MustWarn ==
    UNION {UNION {Warnings(r, c) : c \in {d \in ConditionalsOf(r) : Open(r, d)}} : r \in MappedBlocks}

MayWarn ==
    MustWarn \union
    UNION {UNION {Warnings(r, c) : c \in {d \in ConditionalsOf(r) : HasNestedLiteral(d)}}
             : r \in MappedBlocks}

-----------------------------------------------------------------------------
Init ==
    /\ resources \in Inputs
    /\ cat \in Catalogs
    /\ excludeDelete \in BOOLEAN
    /\ result = Nothing

(* The answer, in one step.  It may also warn about attributes gated by a   *)
(* literal that no value equals; that is noise, and harmless.               *)
Answer ==
    /\ result = Nothing
    /\ LET planned == NeededToPlan
           applied == NeededToApply
           must    == MustWarn
       IN  \E noise \in SUBSET (MayWarn \ must) :
             result' = [PlanPerms |-> planned,
                        ApplyOnlyPerms |-> applied \ planned,
                        TotalApplyPerms |-> planned \union applied,
                        Unknowns |-> {Identity(r) : r \in Blocks \ MappedBlocks},
                        Unresolved |-> must \union noise,
                        Resources |-> {Identity(r) : r \in MappedBlocks}]
    /\ UNCHANGED <<resources, cat, excludeDelete>>

Spec == Init /\ [][Answer]_vars /\ WF_vars(Answer)
=============================================================================
