------------------------------ MODULE MCDrift ------------------------------
(***************************************************************************)
(* Drift for TLC: components 0 and 1, one clause on every version of up to *)
(* three segments, and two clauses on every version of up to two.          *)
(***************************************************************************)
EXTENDS Drift

Digit == [digits: 0 .. Base - 1, rest: {""}]
Kinds == Digit \union
    {[digits |-> 1, rest |-> "-rc"], [digits |-> None, rest |-> ""], [digits |-> None, rest |-> "x"]}

Versions(n) == {v \in UNION {[1 .. k -> Kinds] : k \in 1 .. n} : Accepted(v)}
Clauses(n) == [op: Op, version: Versions(n)]

MCReferences ==
    [1 .. 3 -> Digit] \union [1 .. 1 -> Digit]
    \union {<<[digits |-> 1, rest |-> ""], [digits |-> 0, rest |-> "-rc"]>>,
            <<[digits |-> 1, rest |-> ""], [digits |-> None, rest |-> ""]>>}

MCConstraints ==
    {<<c>> : c \in Clauses(3)}
    \union {<<c, d>> : c \in Clauses(2), d \in [op: {">=", "<", "=", "!="}, version: Versions(2)]}
=============================================================================
