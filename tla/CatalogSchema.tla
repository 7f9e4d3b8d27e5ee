---------------------------- MODULE CatalogSchema ----------------------------
(***************************************************************************)
(* What an entry of the catalog holds, what scaffold.go's GenerateStub     *)
(* writes for one, and what the checks of validator.go that look at one    *)
(* entry by itself ask of it.                                              *)
(*                                                                         *)
(* Abstractions.  Strings are TODO, blank or something else.  A date, or a *)
(* version constraint, that has the shape of one is its rank in lexical    *)
(* order.  The fields of verification and permissions are fields of the    *)
(* entry.  An entry that the strict decoder refuses is Malformed.          *)
(***************************************************************************)
EXTENDS Naturals, Sequences, SequencesExt, FiniteSets

CONSTANTS
    Type,           \* Terraform types, numbers: their ranks in lexical order
    Identifier,     \* HCL identifiers, which keys of a when clause should be
    Todo,           \* "TODO"
    Blank,          \* the empty string, or white space
    Malformed       \* an entry with a field it may not have

ASSUME TypeAssumption == Type \subseteq Nat
ASSUME WordsAssumption == Blank # Todo /\ {Todo, Blank} \intersect (Nat \union Identifier) = {}

(* The sections in the order mergeFile and validate go through them.        *)
Sections == <<"resources", "data_sources", "iam_bindings">>
Section == ToSet(Sections)

Stages(s) == IF s = "data_sources" THEN {"plan"} ELSE {"plan", "create", "update", "delete"}
Verification == {"method", "source_urls", "verified_at", "verified_provider_version"}
Fields(s) ==
    Verification \union {"tested_against_provider"} \union Stages(s)
      \union (IF s = "iam_bindings" THEN {"parent_resource"} ELSE {})

(* Fields whose value is a sequence of strings.                             *)
Lists == {"source_urls", "plan", "create", "update", "delete"}

IsEntry(s, e) ==
    e # Malformed =>
        /\ DOMAIN e = Fields(s) \union {"conditionals"}
        /\ \A f \in Lists \intersect Fields(s) : e[f] \in Seq(ToSet(e[f]))
        /\ \A c \in ToSet(e.conditionals) : DOMAIN c = {"when", "permissions"} /\ DOMAIN c.permissions = Stages(s)

(* stubEntry and dataSourceStub: TODO in every field.                       *)
GenerateStub(s) ==
    [f \in Fields(s) \union {"conditionals"} |->
        IF f = "conditionals" THEN <<>> ELSE IF f \in Lists THEN <<Todo>> ELSE Todo]

-----------------------------------------------------------------------------
Methods == {"empirical", "docs+source"}

(* Of these fields only the method and the date are looked into.            *)
validateVerification(e) ==
    /\ e.method \in Methods
    /\ e.source_urls # <<>> /\ Blank \notin ToSet(e.source_urls)
    /\ e.verified_at \in Nat
    /\ e.verified_provider_version # Blank

(* Every clause of it has the shape of one.                                 *)
validateTestedAgainstProvider(e) == e.tested_against_provider \in Nat

(* No permission of any stage is blank.                                     *)
validatePermissionSet(p, s) == \A stage \in Stages(s) : Blank \notin ToSet(p[stage])

hclMetaArgs == {"count", "for_each", "depends_on", "provider", "lifecycle", "provisioner"}

validateWhen(when) == when # {} /\ when \subseteq Identifier \ hclMetaArgs

(* A conditional adds something.                                            *)
validateConditional(c, s) ==
    /\ validateWhen(c.when)
    /\ validatePermissionSet(c.permissions, s)
    /\ \E stage \in Stages(s) : c.permissions[stage] # <<>>

(* validateResourceEntry, validateDataSourceEntry and what of               *)
(* validateIAMBindingEntry does not look at other entries.                  *)
SoundAlone(s, e) ==
    /\ validateVerification(e)
    /\ validateTestedAgainstProvider(e)
    /\ e.plan # <<>> /\ validatePermissionSet(e, s)
    /\ \A c \in ToSet(e.conditionals) : validateConditional(c, s)
=============================================================================
