------------------------------ MODULE MCLocals ------------------------------
(***************************************************************************)
(* Locals for TLC.  Two locals and a variable in every state, with         *)
(* mentions that are not needs; every graph of three locals, self-loops    *)
(* and dangling names included; every graph of four that cannot be         *)
(* resolved, with at most two edges out of a local.                        *)
(***************************************************************************)
EXTENDS Locals

MCLocal == 1 .. 5       \* 5 is mentioned but never declared
MCVar == {"v"}

Given(needs, mentions, needed) == [needs |-> needs, mentions |-> mentions, vars |-> needed]
Module(locals, variables, overrides) ==
    [locals |-> locals, variables |-> variables, overrides |-> overrides]

Unbound == "v" :> "none"
Variables == {<<>>} \union {"v" :> d : d \in Default}

TwoLocals ==
    {Module(ls, vs, os) :
        ls \in [1 .. 2 -> {e \in [needs: SUBSET (1 .. 2), mentions: SUBSET (1 .. 2), vars: SUBSET MCVar] :
                            e.needs \subseteq e.mentions}],
        vs \in Variables, os \in SUBSET MCVar}

ThreeLocals ==
    {Module(ls, Unbound, {}) :
        ls \in [1 .. 3 -> {Given(S, S, {}) : S \in SUBSET (1 .. 3)}
                             \union {Given(S, S, MCVar) : S \in {T \in SUBSET (1 .. 3) : Cardinality(T) <= 1}}
                             \union {Given({5}, {5}, {})}]}

FourLocals ==
    {Module(ls, Unbound, {}) :
        ls \in {f \in [1 .. 4 -> {Given(S, S, MCVar) : S \in {T \in SUBSET (1 .. 4) : Cardinality(T) <= 2}}] :
                  \A n \in 1 .. 4 : n \notin f[n].mentions}}

MCModules == TwoLocals \union ThreeLocals \union FourLocals
=============================================================================
