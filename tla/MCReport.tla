------------------------------ MODULE MCReport ------------------------------
(***************************************************************************)
(* Resolver and Report for TLC.  Lists of up to two blocks have every      *)
(* catalog section, both delete gates and attributes with every outcome of *)
(* a predicate; lists of three have groups of several instances whose      *)
(* bases and conditionals overlap, in the orders the module loader gives.  *)
(***************************************************************************)
EXTENDS Report

Bool(b) == [t |-> "bool", v |-> b]
Text(s) == [t |-> "string", v |-> s]
Null    == [t |-> "null", v |-> "nil"]
List    == [t |-> "list", v |-> "elements"]

MCPerm == {"get", "list", "write", "del"}
MCType == {"bucket", "member", "ghost"}
(* z, y, m: root files; d: a data source; k: a kind the parser does not     *)
(* emit; a, g: files of a shared module whose directory sorts before the    *)
(* root's files.                                                            *)
MCBlock == {"z", "y", "m", "d", "k", "a", "g"}
MCBlockRank == [a |-> 1, g |-> 2, d |-> 3, k |-> 4, m |-> 5, y |-> 6, z |-> 7]
MCPath == {<<>>, <<<<"m">>, <<"m">>>>, <<<<"m">>, <<"n">>>>, <<<<"m", "n">>>>}
MCNameRank == <<"m">> :> 1 @@ <<"m", "n">> :> 2 @@ <<"n">> :> 3
MCAttr == {"enc", "ver"}
MCValue == {Bool(TRUE), Text("true"), Null, List}
MCLiteral == {Bool(TRUE), Text("true"), Null, List}

(* true written as a boolean and as a string reads the same; enc comes      *)
(* before ver, and a clause before those that go on.                        *)
TextOf(literal) == CASE literal = List -> 1 [] literal = Null -> 2 [] OTHER -> 3
MCSerialise ==
    [w \in When |-> (IF "enc" \in DOMAIN w THEN 10 * TextOf(w["enc"]) ELSE 100)
                      + (IF "ver" \in DOMAIN w THEN TextOf(w["ver"]) ELSE 0)]

Perms(p, c, u, d) == [Plan |-> p, Create |-> c, Update |-> u, Delete |-> d]
If(when, perms) == [when |-> when, permissions |-> perms]
DataIf(when, p) == [when |-> when, permissions |-> [Plan |-> p]]

(* Conditionals in an order that is not that of their texts, giving again   *)
(* what the base has at another stage.                                      *)
Bucket == [permissions |-> Perms({"get"}, {"write"}, {}, {"del"}),
           conditionals |-> <<If([enc |-> Bool(TRUE)], Perms({"write"}, {}, {"get", "list"}, {})),
                              If([enc |-> Bool(TRUE), ver |-> Text("true")], Perms({"list"}, {}, {}, {"write"})),
                              If([enc |-> Text("true")], Perms({}, {"list"}, {}, {"get"}))>>]
Bare   == [permissions |-> Perms({"get"}, {}, {}, {}),
           conditionals |-> <<If([ver |-> Text("true")], Perms({}, {"write"}, {}, {})),
                              If([ver |-> Bool(TRUE)], Perms({"list"}, {"write"}, {}, {})),
                              If([enc |-> Bool(TRUE)], Perms({"list"}, {"write"}, {}, {}))>>]
(* write is a delete permission of member only: the gates decide it.        *)
Member == [permissions |-> Perms({"list"}, {}, {}, {"write"}),
           conditionals |-> <<If([ver |-> Null], Perms({"write"}, {}, {"del"}, {})),
                              If([enc |-> Bool(TRUE), ver |-> List], Perms({"get"}, {}, {}, {}))>>]
BucketData == [permissions |-> [Plan |-> {"list"}],
               conditionals |-> <<DataIf([enc |-> Text("true")], {"write"})>>]

(* A usual catalog, one with a type in two sections, one that maps nothing. *)
Usual   == [Resources |-> [bucket |-> Bucket], DataSources |-> [bucket |-> BucketData],
            IAMBindings |-> [member |-> Member]]
Overlap == [Resources |-> [bucket |-> Bare, member |-> Bucket], DataSources |-> <<>>,
            IAMBindings |-> [member |-> Member]]
MCCatalogs == {Usual, Overlap, NilCatalog}

(* enc and ver each matching, mismatching, unresolved or not written.       *)
Attrs ==
    {as \in UNION {[D -> MCValue \union {NilVal}] : D \in SUBSET MCAttr} :
        /\ "enc" \in DOMAIN as => as["enc"] \in {Bool(TRUE), Text("true"), NilVal}
        /\ "ver" \in DOMAIN as => as["ver"] \in {Bool(TRUE), Text("true"), NilVal}}
ReasonsFor(as) ==
    [a \in {x \in DOMAIN as : as[x] = NilVal} |-> IF a = "enc" THEN "function_call" ELSE "missing_variable"]

Instance(kind, type, block, path, as, pd) ==
    [kind |-> kind, type |-> type, block |-> block, path |-> path,
     attrs |-> as, reasons |-> ReasonsFor(as), preventDestroy |-> pd]

Both == [enc |-> Bool(TRUE), ver |-> Bool(TRUE)]
Written == {<<>>, [ver |-> Text("true")], [enc |-> Text("true")], Both}
Shared(types, as) ==
    {Instance("resource", t, IF t = "bucket" THEN "a" ELSE "g", p, as, FALSE) :
        t \in types, p \in MCPath \ {<<>>}}

Few ==
    {Instance("resource", "bucket", "y", <<>>, as, FALSE) : as \in Attrs}
      \union {Instance("resource", "bucket", "y", <<>>, as, TRUE) :
                as \in [MCAttr -> {Bool(TRUE), Text("true")}]}
      \union {Instance("resource", "member", "m", <<>>, as, pd) :
                as \in [{"ver"} -> {Null, List, NilVal}], pd \in BOOLEAN}
      \union {Instance("data", "bucket", "d", <<>>, as, FALSE) :
                as \in [{"enc"} -> {Text("true"), Bool(TRUE), NilVal}]}
      \union Shared({"bucket"}, [enc |-> Bool(TRUE)]) \union Shared({"bucket"}, [enc |-> NilVal])
      \union Shared({"ghost"}, <<>>)
      \union {Instance("module", "bucket", "k", <<>>, <<>>, FALSE)}

Many ==
    {Instance("resource", "bucket", b, <<>>, as, FALSE) : b \in {"y", "z"}, as \in Written}
      \union {Instance("data", "bucket", "d", <<>>, [enc |-> Text("true")], FALSE)}
      \union Shared({"bucket"}, <<>>) \union Shared({"bucket"}, Both) \union Shared({"ghost"}, <<>>)

(* The root's blocks by place, then the module calls in any order, depth    *)
(* first, each with its own blocks by place.                                *)
Upto(p, n) == SubSeq(p, 1, IF n < Len(p) THEN n ELSE Len(p))

InLoaderOrder(rs) ==
    \A i, j \in DOMAIN rs : i < j =>
        /\ rs[j].path = <<>> => rs[i].path = <<>>
        /\ rs[i].path = rs[j].path => BlockRank[rs[i].block] < BlockRank[rs[j].block]
        /\ \A n \in 1 .. 2 :
             Upto(rs[i].path, n) = Upto(rs[j].path, n)
                => \A k \in i .. j : Upto(rs[k].path, n) = Upto(rs[i].path, n)

MCInputs ==
    {rs \in UNION {[1 .. n -> Few] : n \in 0 .. 2} \union [1 .. 3 -> Many] : InLoaderOrder(rs)}
=============================================================================
