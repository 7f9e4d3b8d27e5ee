-------------------------------- MODULE Drift --------------------------------
(***************************************************************************)
(* internal/catalog/stats.go: whether an entry's tested_against_provider   *)
(* excludes the reference version.  satisfiesConstraint goes through the   *)
(* clauses of the constraint and stops at the first that settles it, and   *)
(* computeDrifting reports the entry if the constraint parsed and the      *)
(* version does not satisfy it.                                            *)
(*                                                                         *)
(* Abstractions.  A version is the sequence of what stands between its     *)
(* dots: digits (None if there are none, or more than an int holds) and    *)
(* what follows them, nothing, the wildcard "x" or a pre-release suffix.   *)
(* Components are below Base, and Width of them tell any two versions      *)
(* apart.  A missing operator is "=".                                      *)
(***************************************************************************)
EXTENDS Integers, Sequences, SequencesExt

CONSTANTS
    References,     \* versions to compare with
    Constraints,    \* sequences of clauses [op, version], as the validator accepts them
    None, Base, Width,
    NoVerdict

Op == {">=", "<=", "!=", "~>", ">", "<", "="}
Segment == [digits: (0 .. Base - 1) \union {None}, rest: {"", "x", "-rc"}]

(* testedAgainstProviderConstraintPattern: a digit, then anything.          *)
Accepted(version) == version # <<>> /\ version[1].digits # None

ASSUME DriftAssumption ==
    /\ Base \in Nat \ {0, 1} /\ Width \in Nat /\ None \notin 0 .. Base - 1
    /\ References \subseteq Seq(Segment)
    /\ Constraints \subseteq Seq([op : Op, version : Seq(Segment)])
    /\ \A r \in References : Len(r) <= Width
    /\ \A c \in Constraints : \A k \in DOMAIN c :
         Accepted(c[k].version) /\ Len(c[k].version) <= Width
    /\ NoVerdict \notin BOOLEAN \union [ok : BOOLEAN, parsed : BOOLEAN]

VARIABLES
    reference,      \* the reference version
    constraint,     \* tested_against_provider
    clause,         \* the clause at hand
    verdict,        \* what satisfiesConstraint returned: [ok, parsed], or NoVerdict
    drifting        \* the entry is in the report, or NoVerdict

dvars == <<reference, constraint, clause, verdict, drifting>>

-----------------------------------------------------------------------------
Least(a, b) == IF a < b THEN a ELSE b
IsWild(segment) == segment = [digits |-> None, rest |-> "x"]

(* A trailing wildcard is cut off, then everything from the first character *)
(* that is neither a digit nor a dot.                                       *)
parseVersion(s) ==
    LET prefix == Len(s) > 1 /\ IsWild(Last(s))
        rest   == IF prefix THEN Front(s) ELSE s
        stops  == {k \in DOMAIN rest : rest[k].rest # ""} \union {Len(rest)}
        core   == SubSeq(rest, 1, CHOOSE k \in stops : \A j \in stops : k <= j)
        comps  == [k \in DOMAIN core |-> core[k].digits]
    IN  [ok |-> comps # <<>> /\ None \notin ToSet(comps), comps |-> comps, prefix |-> prefix]

(* Mutant: a prefix longer than the version matches.                        *)
versionHasPrefix_Short(version, prefix) ==
    \A k \in 1 .. Least(Len(version), Len(prefix)) : version[k] = prefix[k]

(* Missing components are zero.                                             *)
At(v, k) == IF k \in DOMAIN v THEN v[k] ELSE 0

versionHasPrefix(version, prefix) == \A k \in DOMAIN prefix : At(version, k) = prefix[k]

(* Mutant: a version is below every longer one that extends it.             *)
compareVersions_Length(a, b) ==
    LET differ == {k \in 1 .. Least(Len(a), Len(b)) : a[k] # b[k]}
    IN  IF differ = {} THEN Len(a) - Len(b)
        ELSE LET k == CHOOSE k \in differ : \A j \in differ : k <= j IN a[k] - b[k]

(* Negative, zero or positive: the first component that differs decides.    *)
compareVersions(a, b) ==
    LET differ == {k \in 1 .. Len(a) + Len(b) : At(a, k) # At(b, k)}
    IN  IF differ = {} THEN 0
        ELSE LET k == CHOOSE k \in differ : \A j \in differ : k <= j IN At(a, k) - At(b, k)

(* What the switch on the operator lets through.                            *)
Holds(op, ref, given) ==
    LET cmp == compareVersions(ref, given.comps)
        equal == IF given.prefix THEN versionHasPrefix(ref, given.comps) ELSE cmp = 0
    IN  /\ op = "="  => equal
        /\ op = "!=" => ~equal
        /\ op \in {">=", "~>"} => cmp >= 0
        /\ op = "<=" => cmp <= 0
        /\ op = ">"  => cmp > 0
        /\ op = "<"  => cmp < 0

DriftInit ==
    /\ reference \in References
    /\ constraint \in Constraints
    /\ clause = 1
    /\ verdict = NoVerdict /\ drifting = NoVerdict

Parsed == parseVersion(reference)
Clause == parseVersion(constraint[clause].version)
AtClause == verdict = NoVerdict /\ Parsed.ok /\ clause <= Len(constraint)

Verdict(ok, parsed) ==
    /\ verdict' = [ok |-> ok, parsed |-> parsed]
    /\ UNCHANGED <<reference, constraint, clause, drifting>>

BadReference == verdict = NoVerdict /\ ~Parsed.ok /\ Verdict(FALSE, FALSE)
BadClause == AtClause /\ ~Clause.ok /\ Verdict(FALSE, FALSE)
ClauseFails ==
    /\ AtClause
    /\ Clause.ok /\ ~Holds(constraint[clause].op, Parsed.comps, Clause)
    /\ Verdict(FALSE, TRUE)

ClauseHolds ==
    /\ AtClause
    /\ Clause.ok /\ Holds(constraint[clause].op, Parsed.comps, Clause)
    /\ clause' = clause + 1
    /\ UNCHANGED <<reference, constraint, verdict, drifting>>

AllHold == verdict = NoVerdict /\ Parsed.ok /\ clause > Len(constraint) /\ Verdict(TRUE, TRUE)

(* computeDrifting on the entry.                                            *)
Report ==
    /\ verdict # NoVerdict /\ drifting = NoVerdict
    /\ drifting' = (verdict.parsed /\ ~verdict.ok)
    /\ UNCHANGED <<reference, constraint, clause, verdict>>

DriftNext == BadReference \/ BadClause \/ ClauseFails \/ ClauseHolds \/ AllHold \/ Report

DriftSpec == DriftInit /\ [][DriftNext]_dvars /\ WF_dvars(DriftNext)

-----------------------------------------------------------------------------
(* What a constraint means.  Versions are numbers in base Base of Width     *)
(* digits, and a version or a wildcard is an interval of them.              *)
Weight[k \in 0 .. Width] == IF k = Width THEN 1 ELSE Base * Weight[k + 1]
Number(v) == FoldLeft(+, 0, [k \in DOMAIN v |-> v[k] * Weight[k]])

Low(v)  == Number(v.comps)
High(v) == Low(v) + (IF v.prefix THEN Weight[Len(v.comps)] ELSE 1) - 1

(* ~> lets the last component given grow, and no other.                     *)
Ceiling(v) ==
    IF Len(v.comps) = 1 THEN Base * Weight[1]
    ELSE Number(Front(v.comps)) + Weight[Len(v.comps) - 1] - 1

Means(op, n, v) ==
    /\ op = "="  => Low(v) <= n /\ n <= High(v)
    /\ op = "!=" => n < Low(v) \/ n > High(v)
    /\ op = ">=" => n >= Low(v)
    /\ op = ">"  => n > High(v)
    /\ op = "<"  => n < Low(v)
    /\ op = "<=" => n <= High(v)
    /\ op = "~>" => Low(v) <= n /\ n <= Ceiling(v)

Read(k) == parseVersion(constraint[k].version)
Readable == Parsed.ok /\ \A k \in DOMAIN constraint : Read(k).ok
Satisfied == \A k \in DOMAIN constraint : Means(constraint[k].op, Number(Parsed.comps), Read(k))

(* Clauses that are read as less than they mean, on purpose.                *)
Lenient(k) == constraint[k].op = "~>" \/ (constraint[k].op = ">" /\ Read(k).prefix)
Strict(k) == constraint[k].op = "<=" /\ Read(k).prefix

(***************************************************************************)
(* An entry in the drift report really excludes the reference version, by  *)
(* a clause that can be read, if no clause is a wildcard under "<=": 6 and *)
(* 6.0 and 6.0.0 are one version, and a prefix is a whole range.           *)
(***************************************************************************)
Excludes(k) == Read(k).ok /\ ~Means(constraint[k].op, Number(Parsed.comps), Read(k))

DriftIsReal ==
    drifting = TRUE /\ (\A k \in DOMAIN constraint : ~Strict(k))
        => Parsed.ok /\ \E k \in DOMAIN constraint : Excludes(k)

(***************************************************************************)
(* And an entry that excludes it is in the report, whichever clause does,  *)
(* but for the bounds that stats.go says it leaves out.                    *)
(***************************************************************************)
DriftIsFound ==
    drifting = FALSE /\ Readable /\ (\A k \in DOMAIN constraint : ~Lenient(k)) => Satisfied

=============================================================================
