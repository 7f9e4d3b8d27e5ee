----------------------------- MODULE MCPipeline -----------------------------
(***************************************************************************)
(* Pipeline for TLC: a root with blocks whose attributes and counts are    *)
(* every kind of expression, and roots that call a module, which calls     *)
(* another, with every kind of argument, for variables with and without a  *)
(* default.  A world fixes the root's variable and what lies outside.      *)
(***************************************************************************)
EXTENDS Pipeline

Bool(b) == [t |-> "bool", v |-> b]
Number(n) == [t |-> "number", v |-> n]
Object(n) == [t |-> "object", v |-> n]
Null == [t |-> "null", v |-> "nil"]
Lit(value) == [op |-> "lit", value |-> value]
Ref(op, name) == [op |-> op, name |-> name]
If(c, t, e) == [op |-> "if", cond |-> c, then |-> t, else |-> e]

MCRoot == <<"/">>
A == <<"/", "a">>
B == <<"/", "b">>
MCDir == {MCRoot, A, B}
MCName == {1, 2}
MCSpelling == <<<<97>>, <<97, 45, 98>>>>      \* "a" and "a-b"
MCJoin(dir, source) == (IF source[1] = "../" THEN MCRoot ELSE dir) \o Tail(source)
MCOverride == {<<>>} \union {[enabled |-> v] : v \in {Bool(TRUE), Bool(FALSE), Null}}

MCWorlds ==
    {[var |-> [flag |-> Bool(f)], data |-> [d |-> Bool(o)],
      resource |-> [r |-> Bool(o)], call |-> [f |-> Bool(o)]] : f \in BOOLEAN, o \in BOOLEAN}

True == Lit(Bool(TRUE))
False == Lit(Bool(FALSE))
Flag == Ref("var", "flag")
On == Ref("var", "on")
Enabled == Ref("var", "enabled")
Opaque == Ref("data", "d")

(* What an expression of the root may be, by how far it can be read.        *)
Switches == {True, False, Flag, On, Ref("local", "l"), Ref("local", "far"), Opaque,
             Ref("resource", "r"), Ref("call", "f"), If(On, True, Opaque), If(Flag, True, False), If(Opaque, True, On)}

Count(c) == If(c, Lit(Number(1)), Lit(Number(0)))
Each(c) == If(c, Lit(Object(1)), Lit(Object(0)))
Conditions == {On, Flag, Opaque, Ref("local", "l"), False}
Metas ==
    {<<>>} \union {[count |-> Count(c)] : c \in Conditions} \union {[for_each |-> Each(c)] : c \in Conditions}
      \union {[count |-> Lit(Number(n))] : n \in -1 .. 2} \union {[count |-> Lit(Object(1))]}

Resource(kind, type, pos, attrs, lifecycle) ==
    [kind |-> kind, type |-> type, name |-> 0, pos |-> pos, attrs |-> attrs, lifecycle |-> lifecycle]
Call(name, pos, source, attrs) ==
    [kind |-> "module", type |-> "", name |-> name, pos |-> pos, lifecycle |-> <<>>,
     attrs |-> attrs @@ [source |-> Lit([t |-> "string", v |-> source])]]

Declares(name, expr) == [name |-> name, expr |-> expr]
Tree(variables, locals, blocks) ==
    [listed |-> TRUE,
     entries |-> <<[name |-> <<"main", ".tf">>, mode |-> "file", valid |-> TRUE,
                    variables |-> variables, locals |-> locals, blocks |-> blocks]>>]

RootOf(blocks) ==
    Tree(<<Declares("flag", None), Declares("on", True)>>,
         <<Declares("far", Ref("local", "l")), Declares("l", If(Flag, True, On))>>, blocks)
Empty == Tree(<<>>, <<>>, <<>>)

(* One block of the root, of each kind and type.                            *)
Single ==
    {RootOf(<<Resource("resource", "bucket", 1, [enc |-> e] @@ m, <<>>)>>) : e \in Switches, m \in Metas}
      \union {RootOf(<<Resource(kind, type, 1, [enc |-> True, source |-> e], lc)>>) :
                kind \in {"resource", "data"}, type \in {"bucket", "member", "ghost"}, e \in {Flag, Lit(Null), True},
                lc \in {<<>>, <<True>>, <<False>>, <<Flag>>, <<None>>}}

(* The root calls A, perhaps counted, and A calls B with what it was given. *)
Child(default, passed) ==
    Tree(<<Declares("enabled", default)>>, <<Declares("l", Enabled)>>,
         <<Resource("resource", "bucket", 11, [enc |-> Ref("local", "l")], <<True>>),
           Resource("resource", "member", 12, [count |-> Count(Enabled)], <<>>),
           Call(2, 13, <<"../", "b">>, [enabled |-> passed])>>)
Grandchild(default) ==
    Tree(<<Declares("enabled", default)>>, <<>>,
         <<Resource("resource", "bucket", 21, [enc |-> Enabled, source |-> Enabled, count |-> Count(Enabled)], <<>>),
           Resource("data", "bucket", 22, [enc |-> Enabled], <<>>)>>)

RootCalls(arg, meta) ==
    {<<Call(1, 2, <<"./", "a">>, [enabled |-> arg] @@ meta)>>,
     <<Call(1, 2, <<"./", "a">>, meta), Call(2, 3, <<"./", "b">>, [enabled |-> arg])>>}

MCConfigs ==
    {(MCRoot :> r @@ A :> Empty @@ B :> Empty) : r \in Single}
    \union {(MCRoot :> RootOf(calls) @@ A :> Child(a, passed) @@ B :> Grandchild(b)) :
              calls \in UNION {RootCalls(arg, meta) : arg \in {True, False, Flag, On, Opaque, If(Opaque, True, On), Lit(Null)},
                                               meta \in {<<>>, [count |-> Count(Flag)]}},
              a \in {None, False}, b \in {None, False, True}, passed \in {Enabled, Opaque, Ref("local", "l"), False}}
    \union {(MCRoot :> RootOf(<<Call(1, 2, <<"./", "a">>, <<>>)>>) @@ A :> Calling @@ B :> Grandchild(None)) :
              Calling \in {Tree(<<>>, <<>>, <<Resource("resource", "ghost", 11, <<>>, <<>>), Call(2, 12, <<"../", "a">>, <<>>)>>),
                          Tree(<<>>, <<>>, <<Call(2, 12, <<"registry">>, <<>>)>>),
                          Tree(<<>>, <<>>, <<Call(2, 12, <<"../", "b">>, [source |-> Ref("local", "l")])>>)}}
    \union {(MCRoot :> [Empty EXCEPT !.listed = FALSE] @@ A :> Empty @@ B :> Empty)}

-----------------------------------------------------------------------------
MCPerm == {"get", "list", "write", "del"}
MCType == {"bucket", "member", "ghost"}
MCBlock == {1, 11, 12, 21, 22}
MCPath == {<<>>}
MCAttr == {"enc", "source"}
MCValue == {Bool(TRUE), Bool(FALSE), Null}
MCLiteral == {Bool(TRUE), Bool(FALSE), Null}

Perms(p, c, d) == [Plan |-> p, Create |-> c, Update |-> {}, Delete |-> d]
Cond(when, perms) == [when |-> when, permissions |-> perms]
Bucket == [permissions |-> Perms({"get"}, {}, {"del"}),
           conditionals |-> <<Cond([enc |-> Bool(TRUE)], Perms({}, {"write"}, {})),
                              Cond([enc |-> Bool(FALSE), source |-> Bool(TRUE)], Perms({"list"}, {}, {}))>>]
Member == [permissions |-> Perms({"list"}, {"write"}, {}),
           conditionals |-> <<Cond([source |-> Null], Perms({"get"}, {}, {}))>>]
BucketData == [permissions |-> [Plan |-> {"list"}],
               conditionals |-> <<[when |-> [enc |-> Bool(TRUE)], permissions |-> [Plan |-> {"del"}]]>>]

MCCatalogs == {[Resources |-> [bucket |-> Bucket], DataSources |-> [bucket |-> BucketData],
                IAMBindings |-> [member |-> Member]]}
=============================================================================
