--------------------------- MODULE PipelineProofs ---------------------------
(***************************************************************************)
(* The two properties of the composition, for every tree, catalog and      *)
(* world: what is missing is announced, what is reported is needed.        *)
(*                                                                         *)
(* First the loader.  As long as no default stands in for an argument that *)
(* could not be read, the context the tool reads a directory in is within  *)
(* the true one (ContextsAgree), so what it reads is so.  Walks of the     *)
(* loader and modules of a world then go together (ModulesAre), and with   *)
(* LoaderInv rows and instances do (InstancesHaveRows, RowsHaveInstances). *)
(* Then the resolver, by an invariant of the pass over these rows          *)
(* (PassInv), for which a key in the map of unknowns has to say which path *)
(* it is of (EncodedTells).                                                *)
(***************************************************************************)
EXTENDS Pipeline, ModuleLoaderProofs

-----------------------------------------------------------------------------
(* Contexts.  One that knows more gives what the other gives, and more.     *)
Within(a, b) ==
    \A op \in DOMAIN a : /\ op \in DOMAIN b
                         /\ \A n \in DOMAIN a[op] : n \in DOMAIN b[op] /\ a[op][n] = b[op][n]

LEMMA AtomsAgree ==
    ASSUME NEW a, NEW b, Within(a, b), NEW e, AtomValue(e, a) # NilVal
    PROVE  AtomValue(e, b) = AtomValue(e, a)
BY DEF Within, AtomValue, InScope

(* What is read in the smaller context is read alike in the larger one.     *)
LEMMA ExpressionsAgree ==
    ASSUME NEW a, NEW b, Within(a, b), NEW e, resolveExpr(e, a) # NilVal
    PROVE  resolveExpr(e, b) = resolveExpr(e, a)
<1>1. CASE e.op # "if"
  BY <1>1, AtomsAgree DEF resolveExpr
<1>2. CASE e.op = "if"
  <2> DEFINE u == AtomValue(e.cond, a)
             v == AtomValue(e.cond, b)
  <2>1. AsCondition(u) # NilVal
    BY <1>2 DEF resolveExpr
  <2> HIDE DEF u
  <2>2. u # NilVal
    BY <2>1 DEF AsCondition
  <2>3. v = u
    BY <2>2, AtomsAgree DEF u
  <2> HIDE DEF v
  <2> DEFINE t == IF AsCondition(u) THEN e.then ELSE e.else
  <2>4. resolveExpr(e, a) = AtomValue(t, a) /\ resolveExpr(e, b) = AtomValue(t, b)
    BY <1>2, <2>1, <2>3 DEF resolveExpr, u, v
  <2> HIDE DEF t
  <2> QED BY <2>4, AtomsAgree
<1> QED BY <1>1, <1>2

(* What is known of a map.                                                   *)
LEMMA KnownIs ==
    ASSUME NEW m
    PROVE  \A k : /\ k \in DOMAIN Known(m) <=> k \in DOMAIN m /\ m[k] # NilVal
                  /\ k \in DOMAIN Known(m) => Known(m)[k] = m[k]
BY DEF Known

LocalsIn(decls, ctx) == [n \in DOMAIN decls |-> resolveExpr(decls[n], ctx)]

(* What one pass over the locals does to a context.                         *)
LEMMA PassIs ==
    ASSUME NEW decls, NEW ctx, "local" \in DOMAIN ctx
    PROVE  /\ DOMAIN Pass(decls, ctx) = DOMAIN ctx
           /\ Pass(decls, ctx)["local"] = Known(LocalsIn(decls, ctx))
           /\ \A op \in DOMAIN ctx : op # "local" => Pass(decls, ctx)[op] = ctx[op]
<1> DEFINE m == Known(LocalsIn(decls, ctx))
<1>1. Pass(decls, ctx) = [ctx EXCEPT !["local"] = m]
  BY DEF Pass, LocalsIn
<1> HIDE DEF m
<1>2. [ctx EXCEPT !["local"] = m] = [op \in DOMAIN ctx |-> IF op = "local" THEN m ELSE ctx[op]]
  OBVIOUS
<1> QED BY <1>1, <1>2 DEF m

(* A pass keeps one context within another, ...                             *)
LEMMA PassAgrees ==
    ASSUME NEW decls, NEW a, NEW b, Within(a, b), "local" \in DOMAIN a
    PROVE  Within(Pass(decls, a), Pass(decls, b))
<1>0. "local" \in DOMAIN b
  BY DEF Within
<1> SUFFICES ASSUME NEW op \in DOMAIN Pass(decls, a), NEW n \in DOMAIN Pass(decls, a)[op]
             PROVE  /\ op \in DOMAIN Pass(decls, b) /\ n \in DOMAIN Pass(decls, b)[op]
                    /\ Pass(decls, a)[op][n] = Pass(decls, b)[op][n]
  <2>1. DOMAIN Pass(decls, a) \subseteq DOMAIN Pass(decls, b)
    BY <1>0, PassIs DEF Within
  <2> QED BY <2>1 DEF Within
<1>1. CASE op # "local"
  BY <1>0, <1>1, PassIs DEF Within
<1>2. CASE op = "local"
  <2> DEFINE m == LocalsIn(decls, a)
             l == LocalsIn(decls, b)
  <2>0. /\ DOMAIN m = DOMAIN decls /\ \A k \in DOMAIN decls : m[k] = resolveExpr(decls[k], a)
        /\ DOMAIN l = DOMAIN decls /\ \A k \in DOMAIN decls : l[k] = resolveExpr(decls[k], b)
        /\ Pass(decls, a)[op] = Known(m) /\ Pass(decls, b)[op] = Known(l)
    BY <1>0, <1>2, PassIs DEF LocalsIn
  <2> HIDE DEF m, l
  <2>1. /\ n \in DOMAIN decls /\ resolveExpr(decls[n], a) # NilVal
        /\ Pass(decls, a)[op][n] = resolveExpr(decls[n], a)
    BY <2>0, KnownIs
  <2>2. resolveExpr(decls[n], b) = resolveExpr(decls[n], a)
    BY <2>1, ExpressionsAgree
  <2>3. n \in DOMAIN Pass(decls, b)[op] /\ Pass(decls, b)[op][n] = resolveExpr(decls[n], b)
    BY <2>0, <2>1, <2>2, KnownIs
  <2>4. op \in DOMAIN Pass(decls, b)
    BY <1>0, <1>2, PassIs
  <2> QED BY <2>1, <2>2, <2>3, <2>4
<1> QED BY <1>1, <1>2

(* The passes, one after the other, give a context for each number of them. *)
PassStep(decls, ctx, i) == Pass(decls, ctx)

ArePasses(decls, start, k, h) == h[0] = start /\ \A i \in 1 .. k : h[i] = Pass(decls, h[i - 1])

PassedSoFar(p, k, ctx) == \E h : ArePasses(p.decls, p.start, k, h) /\ ctx = h[k]

Passing == INSTANCE FoldProofs WITH FoldStep <- PassStep, FoldHolds <- PassedSoFar

AllPasses(decls, start) ==
    FoldLeft(LAMBDA ctx, i : Pass(decls, ctx), start, [i \in 1 .. Cardinality(DOMAIN decls) |-> i])

(* ... the passes are iterated as often as there are locals, ...            *)
LEMMA PassesMade ==
    ASSUME NEW decls, Cardinality(DOMAIN decls) \in Nat, NEW start
    PROVE  \E h : /\ ArePasses(decls, start, Cardinality(DOMAIN decls), h)
                  /\ AllPasses(decls, start) = h[Cardinality(DOMAIN decls)]
<1> DEFINE n == Cardinality(DOMAIN decls)
           seq == [i \in 1 .. n |-> i]
           p == [decls |-> decls, start |-> start]
<1>1. AllPasses(decls, start) = Passing!Folded(decls, start, seq)
  <2>1. AllPasses(decls, start) = FoldLeft(LAMBDA ctx, i : PassStep(decls, ctx, i), start, seq)
    BY DEF AllPasses, PassStep
  <2>2. Passing!Folded(decls, start, seq) = FoldLeft(LAMBDA ctx, i : PassStep(decls, ctx, i), start, seq)
    BY DEF Passing!Folded, Passing!Greatest, FoldLeft, MapThenFoldSet, Max
  <2> QED BY <2>1, <2>2
<1>2. p.decls = decls /\ p.start = start /\ DOMAIN seq = 1 .. n
  OBVIOUS
<1> HIDE DEF p, n, seq
<1>3. PassedSoFar(p, 0, start)
  <2> DEFINE h == [i \in {0} |-> start]
  <2>1. h[0] = start
    OBVIOUS
  <2> HIDE DEF h
  <2> QED BY <1>2, <2>1 DEF PassedSoFar, ArePasses
<1>4. \A k \in 1 .. n : \A a : PassedSoFar(p, k - 1, a) => PassedSoFar(p, k, PassStep(decls, a, seq[k]))
  <2> SUFFICES ASSUME NEW k \in 1 .. n, NEW a, PassedSoFar(p, k - 1, a)
               PROVE  PassedSoFar(p, k, Pass(decls, a))
    BY DEF PassStep
  <2>1. PICK h : ArePasses(decls, start, k - 1, h) /\ a = h[k - 1]
    BY <1>2 DEF PassedSoFar
  <2> DEFINE g == [i \in 0 .. k |-> IF i = k THEN Pass(decls, a) ELSE h[i]]
  <2>2. k \in Nat /\ k >= 1
    BY DEF n
  <2>3. g[k] = Pass(decls, a) /\ \A i \in 0 .. k - 1 : g[i] = h[i]
    BY <2>2
  <2> HIDE DEF g
  <2>4. g[0] = start
    BY <2>1, <2>2, <2>3 DEF ArePasses
  <2>5. ASSUME NEW i \in 1 .. k PROVE g[i] = Pass(decls, g[i - 1])
    <3>1. i - 1 \in 0 .. k - 1 /\ (i = k \/ i \in 1 .. k - 1)
      BY <2>2
    <3>2. i \in 1 .. k - 1 => i \in 0 .. k - 1
      BY <2>2
    <3> QED BY <2>1, <2>3, <3>1, <3>2 DEF ArePasses
  <2> QED BY <1>2, <2>3, <2>4, <2>5 DEF PassedSoFar, ArePasses
<1>5. PassedSoFar(p, n, Passing!Folded(decls, start, seq))
  <2>1. n \in Nat
    BY DEF n
  <2> QED BY <1>2, <1>3, <1>4, <2>1, Passing!FoldInduction
<1> QED BY <1>1, <1>2, <1>5 DEF PassedSoFar, n

(* As many passes from a context that knows more know more.                 *)
PairWithin(p, k, h) == Within(p[k], h[k]) /\ "local" \in DOMAIN p[k]

Pairing == INSTANCE FoldProofs WITH FoldStep <- PassStep, FoldHolds <- PairWithin

(* ... and so do all of them.                                               *)
LEMMA PassesAgree ==
    ASSUME NEW decls, Cardinality(DOMAIN decls) \in Nat, NEW a, NEW b, Within(a, b), "local" \in DOMAIN a
    PROVE  Within(AllPasses(decls, a), AllPasses(decls, b))
<1> DEFINE n == Cardinality(DOMAIN decls)
<1>1. PICK g : ArePasses(decls, a, n, g) /\ AllPasses(decls, a) = g[n]
  BY PassesMade
<1>2. PICK h : ArePasses(decls, b, n, h) /\ AllPasses(decls, b) = h[n]
  BY PassesMade
<1>3. n \in Nat
  OBVIOUS
<1> HIDE DEF n
<1>4. PairWithin(g, 0, h)
  BY <1>1, <1>2 DEF PairWithin, ArePasses
<1>5. \A k \in 1 .. n : PairWithin(g, k - 1, h) => PairWithin(g, k, h)
  BY <1>1, <1>2, PassAgrees, PassIs DEF PairWithin, ArePasses
<1>6. \A k \in 0 .. n : PairWithin(g, k, h)
  BY <1>3, <1>4, <1>5, Pairing!Induction
<1>7. PairWithin(g, n, h)
  BY <1>3, <1>6
<1> QED BY <1>1, <1>2, <1>7 DEF PairWithin

-----------------------------------------------------------------------------
(* The arguments the tool has for a directory against those it really gets: *)
(* what it has is right, and no default stands in for one it has not.       *)
ArgsAgree(d, o, given) ==
    \A n \in DOMAIN Variables(d) :
        /\ n \in DOMAIN o => n \in DOMAIN given /\ given[n] = o[n]
        /\ n \notin DOMAIN o /\ n \in DOMAIN given => resolveExpr(Variables(d)[n], NoContext) = NilVal

TrueVariables(d, given) ==
    [n \in DOMAIN Variables(d) |-> IF n \in DOMAIN given THEN given[n] ELSE resolveExpr(Variables(d)[n], NoContext)]

Start(d, o) == [var |-> varValues(Variables(d), o), local |-> <<>>]

TrueStart(d, given, w) ==
    [var |-> Known(TrueVariables(d, given)), local |-> <<>>,
     data |-> w.data, resource |-> w.resource, call |-> w.call]

(* So whatever the tool reads in the directory is so.                       *)
LEMMA ContextsAgree ==
    ASSUME NEW d, Cardinality(DOMAIN LocalDecls(d)) \in Nat, NEW o, NEW given, NEW w, ArgsAgree(d, o, given)
    PROVE  Within(buildEvalContext(d, o), TrueContext(d, given, w))
<1>1. /\ buildEvalContext(d, o) = AllPasses(LocalDecls(d), Start(d, o))
      /\ TrueContext(d, given, w) = AllPasses(LocalDecls(d), TrueStart(d, given, w))
  BY DEF buildEvalContext, TrueContext, AllPasses, Start, TrueStart, TrueVariables
<1>2. Within(Start(d, o), TrueStart(d, given, w))
  <2> DEFINE a == varValues(Variables(d), o)
             b == Known(TrueVariables(d, given))
             m == [n \in DOMAIN Variables(d) |->
                     IF n \in DOMAIN o THEN o[n] ELSE resolveExpr(Variables(d)[n], NoContext)]
  <2>1. a = Known(m) /\ DOMAIN m = DOMAIN Variables(d)
    BY DEF varValues
  <2> HIDE DEF a
  <2>2. ASSUME NEW n \in DOMAIN a PROVE n \in DOMAIN b /\ a[n] = b[n]
    <3>1. n \in DOMAIN Variables(d) /\ m[n] # NilVal /\ a[n] = m[n]
      <4> HIDE DEF m
      <4> QED BY <2>1, <2>2, KnownIs
    <3> DEFINE l == TrueVariables(d, given)
    <3>2. l[n] = m[n] /\ n \in DOMAIN l
      BY <3>1 DEF ArgsAgree, TrueVariables
    <3> HIDE DEF l
    <3>3. n \in DOMAIN Known(l) /\ Known(l)[n] = l[n]
      BY <3>1, <3>2, KnownIs
    <3> QED BY <3>1, <3>2, <3>3 DEF l
  <2> HIDE DEF b, m
  <2>3. /\ DOMAIN Start(d, o) = {"var", "local"} /\ {"var", "local"} \subseteq DOMAIN TrueStart(d, given, w)
        /\ Start(d, o)["var"] = a /\ Start(d, o)["local"] = <<>>
        /\ TrueStart(d, given, w)["var"] = b /\ TrueStart(d, given, w)["local"] = <<>>
    BY DEF Start, TrueStart, a, b
  <2> QED BY <2>2, <2>3 DEF Within
<1>3. "local" \in DOMAIN Start(d, o)
  BY DEF Start
<1> QED BY <1>1, <1>2, <1>3, PassesAgree

-----------------------------------------------------------------------------
(* What count and for_each say, and how often that is a guess.              *)
LEMMA MetaIs ==
    ASSUME NEW b, NEW ctx
    PROVE  LET meta == evalMetaArgs(b, ctx)
               count == evalCount(b.attrs["count"], ctx)
               each == evalForEach(b.attrs["for_each"], ctx)
           IN  /\ meta.keep <=> /\ "count" \in DOMAIN b.attrs => count.keep
                                /\ "for_each" \in DOMAIN b.attrs => each.keep
               /\ meta.warnings \in Nat
               /\ meta.warnings = 0 => /\ "count" \in DOMAIN b.attrs => ~count.warn
                                       /\ "for_each" \in DOMAIN b.attrs => ~each.warn
               /\ meta.preventDestroy = (b.lifecycle # <<>> /\ literalPreventDestroy(Last(b.lifecycle)))
<1> DEFINE given == {"count", "for_each"} \intersect DOMAIN b.attrs
           says == [m \in given |-> IF m = "count" THEN evalCount(b.attrs[m], ctx)
                                      ELSE evalForEach(b.attrs[m], ctx)]
           W == {m \in given : says[m].warn}
           meta == evalMetaArgs(b, ctx)
<1>1. /\ meta.keep = \A m \in given : says[m].keep
      /\ meta.warnings = Cardinality(W)
      /\ meta.preventDestroy = (b.lifecycle # <<>> /\ literalPreventDestroy(Last(b.lifecycle)))
  BY DEF evalMetaArgs
<1>2. W \in SUBSET {"count", "for_each"}
  OBVIOUS
<1>3. IsFiniteSet({"count", "for_each"})
  <2>1. IsFiniteSet({"count"}) /\ {"count", "for_each"} = {"count"} \union {"for_each"}
    BY FS_Singleton
  <2> QED BY <2>1, FS_AddElement
<1>4. /\ "count" \in DOMAIN b.attrs => "count" \in given /\ says["count"] = evalCount(b.attrs["count"], ctx)
      /\ "for_each" \in DOMAIN b.attrs =>
           "for_each" \in given /\ says["for_each"] = evalForEach(b.attrs["for_each"], ctx)
      /\ \A m \in given : m \in DOMAIN b.attrs /\ (m = "count" \/ m = "for_each")
  OBVIOUS
<1>5. \A m \in given : says[m].warn => m \in W
  OBVIOUS
<1> HIDE DEF W, says, given, meta
<1>6. IsFiniteSet(W) /\ Cardinality(W) \in Nat /\ (Cardinality(W) = 0 => W = {})
  BY <1>2, <1>3, FS_Subset, FS_CardinalityType, FS_EmptySet
<1>7. meta.keep <=> /\ "count" \in DOMAIN b.attrs => evalCount(b.attrs["count"], ctx).keep
                    /\ "for_each" \in DOMAIN b.attrs => evalForEach(b.attrs["for_each"], ctx).keep
  BY <1>1, <1>4
<1>8. meta.warnings = 0 => /\ "count" \in DOMAIN b.attrs => ~evalCount(b.attrs["count"], ctx).warn
                           /\ "for_each" \in DOMAIN b.attrs => ~evalForEach(b.attrs["for_each"], ctx).warn
  BY <1>1, <1>4, <1>5, <1>6
<1> QED BY <1>1, <1>6, <1>7, <1>8 DEF meta

(* Every block of a directory is among its rows or its calls, unless its    *)
(* meta-arguments drop it, and every guess about one is among the warnings. *)
MetaOf(p, i) == evalMetaArgs(p.blocks[i], p.ctx)

KeptSoFar(p, k, cfg) ==
    /\ cfg = [resources |-> cfg.resources, modules |-> cfg.modules, diags |-> cfg.diags]
    /\ IsList(cfg.resources) /\ IsList(cfg.modules) /\ IsList(cfg.diags)
    /\ \A x : x \in ToSet(cfg.modules) <=> \E i \in 1 .. k : IsCall(p, i) /\ x = CallOf(p, i)
    /\ \A x : x \in ToSet(cfg.resources) <=>
                \E i \in 1 .. k : ~IsCall(p, i) /\ MetaOf(p, i).keep /\ x = RowOf(p, i)
    /\ \A i \in 1 .. k : ~IsCall(p, i) /\ MetaOf(p, i).warnings # 0 =>
         \E g \in ToSet(cfg.diags) : g.kind = "unresolved" /\ g.pos = p.blocks[i].pos

Keeping == INSTANCE FoldProofs WITH FoldStep <- ParseStep, FoldHolds <- KeptSoFar

Repeats(s, n, g) == s = [i \in 1 .. n |-> g]

(* A block that counts twice is listed twice, and is still one block.       *)
LEMMA RepeatedList ==
    ASSUME NEW n \in Nat, NEW g, NEW s, Repeats(s, n, g)
    PROVE  IsList(s) /\ \A x : x \in ToSet(s) <=> n # 0 /\ x = g
<1>0. s = [i \in 1 .. n |-> g]
  BY DEF Repeats
<1>1. IsList(s) /\ Len(s) = n
  <2>1. s = [i \in 1 .. n |-> s[i]]
    BY <1>0
  <2> QED BY <2>1, MadeList
<1>2. DOMAIN s = 1 .. n /\ \A i \in 1 .. n : s[i] = g
  BY <1>0
<1>3. \A x : x \in ToSet(s) <=> \E i \in DOMAIN s : s[i] = x
  BY <1>1, ListIs
<1>4. n # 0 => 1 \in 1 .. n
  OBVIOUS
<1>5. n = 0 => 1 .. n = {}
  OBVIOUS
<1> QED BY <1>1, <1>2, <1>3, <1>4, <1>5

(* A parsed directory with other calls, or other rows, and other warnings.  *)
AsParsed(r, m, d) == [resources |-> r, modules |-> m, diags |-> d]

WithModules(cfg, x, d) == [[cfg EXCEPT !.modules = x] EXCEPT !.diags = d]
WithResources(cfg, x, d) == [[cfg EXCEPT !.resources = x] EXCEPT !.diags = d]

(* What a record is after one of its fields has changed.                    *)
LEMMA Updated ==
    ASSUME NEW r, NEW m, NEW e, NEW x, NEW d
    PROVE  /\ WithModules(AsParsed(r, m, e), x, d) = AsParsed(r, x, d)
           /\ WithResources(AsParsed(r, m, e), x, d) = AsParsed(x, m, d)
<1>1. [AsParsed(r, m, e) EXCEPT !.modules = x] = AsParsed(r, x, e)
  BY DEF AsParsed
<1>2. [AsParsed(r, m, e) EXCEPT !.resources = x] = AsParsed(x, m, e)
  BY DEF AsParsed
<1>3. \A a, b : [AsParsed(a, b, e) EXCEPT !.diags = d] = AsParsed(a, b, d)
  BY DEF AsParsed
<1> QED BY <1>1, <1>2, <1>3 DEF WithModules, WithResources

(* One more block of a directory.                                           *)
LEMMA KeptMore ==
    ASSUME NEW p, NEW n \in Nat, NEW k \in 1 .. n, NEW cfg, KeptSoFar(p, k - 1, cfg)
    PROVE  KeptSoFar(p, k, ParseStep(p, cfg, p.blocks[k]))
<1> DEFINE b == p.blocks[k]
           new == ParseStep(p, cfg, b)
<1>1. k \in 1 .. k /\ \A i : i \in 1 .. k <=> i \in 1 .. k - 1 \/ i = k
  OBVIOUS
<1>2. /\ cfg = [resources |-> cfg.resources, modules |-> cfg.modules, diags |-> cfg.diags]
      /\ IsList(cfg.resources) /\ IsList(cfg.modules) /\ IsList(cfg.diags)
  BY DEF KeptSoFar
<1>3. CASE IsCall(p, k)
  <2> DEFINE call == CallOf(p, k)
             g == Diag("non-local", b.pos, <<>>)
             m == IF call.local THEN 0 ELSE 1
             more == [i \in 1 .. m |-> g]
             diags == cfg.diags \o more
             calls == Append(cfg.modules, call)
  <2>1. new = [resources |-> cfg.resources, modules |-> calls, diags |-> diags]
    <3>1. new = AddModule(cfg, b, call)
      BY <1>3 DEF ParseStep, IsCall, CallOf
    <3>2. AddModule(cfg, b, call) = WithModules(cfg, calls, diags)
      <4>1. AddModule(cfg, b, call) = WithDiags([cfg EXCEPT !.modules = calls], m, g)
        BY DEF AddModule
      <4>2. [cfg EXCEPT !.modules = calls].diags = cfg.diags
        <5> HIDE DEF calls
        <5> QED BY <1>2
      <4> QED BY <4>1, <4>2 DEF WithDiags, WithModules
    <3> HIDE DEF new, more, calls, diags
    <3>3. WithModules(cfg, calls, diags) = AsParsed(cfg.resources, calls, diags)
      <4>1. cfg = AsParsed(cfg.resources, cfg.modules, cfg.diags)
        BY <1>2 DEF AsParsed
      <4> QED BY <4>1, Updated
    <3> QED BY <3>1, <3>2, <3>3 DEF AsParsed
  <2>2. m \in Nat
    OBVIOUS
  <2> HIDE DEF m, g, new, call
  <2>3. IsList(more)
    <3>1. Repeats(more, m, g)
      BY DEF Repeats
    <3> HIDE DEF more
    <3> QED BY <2>2, <3>1, RepeatedList
  <2> HIDE DEF more
  <2>4. IsList(diags) /\ \A x : x \in ToSet(cfg.diags) => x \in ToSet(diags)
    BY <1>2, <2>3, JoinedLists
  <2>5. IsList(calls) /\ ToSet(calls) = ToSet(cfg.modules) \union {call}
    BY <1>2, LongerList
  <2> HIDE DEF diags, calls
  <2>6. new.resources = cfg.resources /\ new.modules = calls /\ new.diags = diags
    BY <2>1
  <2>7. \A x : x \in ToSet(new.modules) <=> \E i \in 1 .. k : IsCall(p, i) /\ x = CallOf(p, i)
    BY <1>1, <1>3, <2>5, <2>6 DEF KeptSoFar, call
  <2>8. \A x : x \in ToSet(new.resources) <=>
                 \E i \in 1 .. k : ~IsCall(p, i) /\ MetaOf(p, i).keep /\ x = RowOf(p, i)
    BY <1>1, <1>3, <2>6 DEF KeptSoFar
  <2>9. \A i \in 1 .. k : ~IsCall(p, i) /\ MetaOf(p, i).warnings # 0 =>
           \E f \in ToSet(new.diags) : f.kind = "unresolved" /\ f.pos = p.blocks[i].pos
    BY <1>1, <1>3, <2>4, <2>6 DEF KeptSoFar
  <2>10. KeptSoFar(p, k, new)
    BY <1>2, <2>1, <2>4, <2>5, <2>6, <2>7, <2>8, <2>9 DEF KeptSoFar
  <2> QED BY <2>10 DEF new
<1>4. CASE ~IsCall(p, k)
  <2> DEFINE meta == MetaOf(p, k)
             g == Diag("unresolved", b.pos, <<>>)
             m == meta.warnings
             more == [i \in 1 .. m |-> g]
             diags == cfg.diags \o more
             item == RowOf(p, k)
             rows == IF meta.keep THEN Append(cfg.resources, item) ELSE cfg.resources
  <2>1. new = [resources |-> rows, modules |-> cfg.modules, diags |-> diags]
    <3>1. new = AddBlock(cfg, b, extractAttrs(b, p.ctx), meta)
      BY <1>4 DEF ParseStep, IsCall, MetaOf
    <3>2. AddBlock(cfg, b, extractAttrs(b, p.ctx), meta) = WithResources(cfg, rows, diags)
      <4>1. AsResource(b, extractAttrs(b, p.ctx), meta) = item
        BY DEF RowOf, MetaOf
      <4>2. AddBlock(cfg, b, extractAttrs(b, p.ctx), meta) = WithDiags([cfg EXCEPT !.resources = rows], m, g)
        BY <4>1 DEF AddBlock
      <4>3. [cfg EXCEPT !.resources = rows].diags = cfg.diags
        <5> HIDE DEF rows
        <5> QED BY <1>2
      <4> QED BY <4>2, <4>3 DEF WithDiags, WithResources
    <3> HIDE DEF new, more, rows, diags
    <3>3. WithResources(cfg, rows, diags) = AsParsed(rows, cfg.modules, diags)
      <4>1. cfg = AsParsed(cfg.resources, cfg.modules, cfg.diags)
        BY <1>2 DEF AsParsed
      <4> QED BY <4>1, Updated
    <3> QED BY <3>1, <3>2, <3>3 DEF AsParsed
  <2>2. m \in Nat
    BY MetaIs DEF MetaOf
  <2>3. g.kind = "unresolved" /\ g.pos = b.pos
    BY DEF Diag
  <2> HIDE DEF m, g, new, item
  <2>4. IsList(more) /\ \A x : x \in ToSet(more) <=> m # 0 /\ x = g
    <3>1. Repeats(more, m, g)
      BY DEF Repeats
    <3> HIDE DEF more
    <3> QED BY <2>2, <3>1, RepeatedList
  <2> HIDE DEF more
  <2>5. IsList(diags) /\ \A x : x \in ToSet(diags) <=> x \in ToSet(cfg.diags) \/ x \in ToSet(more)
    BY <1>2, <2>4, JoinedLists
  <2>6. /\ IsList(rows)
        /\ \A x : x \in ToSet(rows) <=> x \in ToSet(cfg.resources) \/ (meta.keep /\ x = item)
    <3>1. CASE meta.keep
      BY <1>2, <3>1, LongerList
    <3>2. CASE ~meta.keep
      BY <1>2, <3>2
    <3> QED BY <3>1, <3>2
  <2> HIDE DEF diags, rows
  <2>7. new.resources = rows /\ new.modules = cfg.modules /\ new.diags = diags
    BY <2>1
  <2>8. \A x : x \in ToSet(new.modules) <=> \E i \in 1 .. k : IsCall(p, i) /\ x = CallOf(p, i)
    BY <1>1, <1>4, <2>7 DEF KeptSoFar
  <2>9. \A x : x \in ToSet(new.resources) <=>
                 \E i \in 1 .. k : ~IsCall(p, i) /\ MetaOf(p, i).keep /\ x = RowOf(p, i)
    BY <1>1, <1>4, <2>6, <2>7 DEF KeptSoFar, item
  <2>10. ASSUME NEW i \in 1 .. k, ~IsCall(p, i), MetaOf(p, i).warnings # 0
         PROVE  \E f \in ToSet(new.diags) : f.kind = "unresolved" /\ f.pos = p.blocks[i].pos
    <3>1. CASE i = k
      <4>1. g \in ToSet(new.diags)
        BY <2>4, <2>5, <2>7, <2>10, <3>1 DEF m
      <4> QED BY <2>3, <3>1, <4>1
    <3>2. CASE i \in 1 .. k - 1
      BY <2>5, <2>7, <2>10, <3>2 DEF KeptSoFar
    <3> QED BY <1>1, <3>1, <3>2
  <2>11. KeptSoFar(p, k, new)
    BY <1>2, <2>1, <2>5, <2>6, <2>7, <2>8, <2>9, <2>10 DEF KeptSoFar
  <2> QED BY <2>11 DEF new
<1> QED BY <1>3, <1>4

(* What parseConfig keeps, for each directory and its arguments.            *)
LEMMA KeptIs ==
    ASSUME NEW c \in Configs, NEW d \in Dir, NEW o \in Override
    PROVE  KeptSoFar(Given(c, d, o), Len(Blocks(c[d])), parsed[c[d]][o])
<1> DEFINE B == Blocks(c[d])
           n == Len(B)
           p == Given(c, d, o)
           none == [resources |-> <<>>, modules |-> <<>>, diags |-> <<>>]
<1>1. DOMAIN B = 1 .. n /\ n \in Nat
  BY ParsedIs
<1>2. parsed[c[d]][o] = parseConfig(c[d], o)
  <2>1. c[d] \in Directories
    BY DEF Directories
  <2> QED BY <2>1 DEF parsed
<1>3. p.blocks = B /\ p.ctx = buildEvalContext(c[d], o)
  BY DEF Given
<1>4. parseConfig(c[d], o) = Keeping!Folded(p, none, B)
  <2>1. parseConfig(c[d], o) = FoldLeft(LAMBDA a, x : ParseStep(p, a, x), none, B)
    BY <1>3 DEF parseConfig, ParseStep
  <2>2. Keeping!Folded(p, none, B) = FoldLeft(LAMBDA a, x : ParseStep(p, a, x), none, B)
    BY DEF Keeping!Folded, Keeping!Greatest, FoldLeft, MapThenFoldSet, Max
  <2> QED BY <2>1, <2>2
<1>5. KeptSoFar(p, 0, none)
  <2>1. IsList(<<>>) /\ ToSet(<<>>) = {} /\ 1 .. 0 = {}
    BY DEF IsList, ToSet
  <2> HIDE DEF p
  <2> QED BY <2>1 DEF KeptSoFar
<1>6. \A k \in 1 .. n : \A a : KeptSoFar(p, k - 1, a) => KeptSoFar(p, k, ParseStep(p, a, B[k]))
  <2> HIDE DEF p, n, B
  <2> QED BY <1>1, <1>3, KeptMore
<1>7. KeptSoFar(p, n, Keeping!Folded(p, none, B))
  <2> HIDE DEF p, n, B, none
  <2> QED BY <1>1, <1>5, <1>6, Keeping!FoldInduction
<1> QED BY <1>2, <1>4, <1>7

-----------------------------------------------------------------------------
(* A block against its meta-arguments and attributes in a world, if the     *)
(* tool's context a knows nothing that the true one t does not give.        *)
LEMMA InstancesKept ==
    ASSUME NEW b, NEW a, NEW t, Within(a, t)
    PROVE  /\ HasInstances(b, t) => evalMetaArgs(b, a).keep
           /\ evalMetaArgs(b, a).keep /\ evalMetaArgs(b, a).warnings = 0 => HasInstances(b, t)
<1> DEFINE meta == evalMetaArgs(b, a)
           count == evalCount(b.attrs["count"], a)
           each == evalForEach(b.attrs["for_each"], a)
<1>1. /\ meta.keep <=> /\ "count" \in DOMAIN b.attrs => count.keep
                       /\ "for_each" \in DOMAIN b.attrs => each.keep
      /\ meta.warnings = 0 => /\ "count" \in DOMAIN b.attrs => ~count.warn
                              /\ "for_each" \in DOMAIN b.attrs => ~each.warn
  BY MetaIs
<1>2. \A e : resolveExpr(e, a) # NilVal => resolveExpr(e, t) = resolveExpr(e, a)
  BY ExpressionsAgree
<1>3. /\ resolveExpr(b.attrs["count"], t).v > 0 => count.keep
      /\ count.keep /\ ~count.warn => resolveExpr(b.attrs["count"], t).v > 0
  <2> DEFINE v == resolveExpr(b.attrs["count"], a)
             read == v # NilVal /\ v.t = "number"
  <2>1. (count.keep <=> (read => v.v > 0)) /\ (count.warn <=> ~read)
    BY DEF evalCount
  <2> HIDE DEF count
  <2> QED BY <1>2, <2>1
<1>4. /\ resolveExpr(b.attrs["for_each"], t).v # 0 => each.keep
      /\ each.keep /\ ~each.warn => resolveExpr(b.attrs["for_each"], t).v # 0
  <2> DEFINE v == resolveExpr(b.attrs["for_each"], a)
             read == v # NilVal /\ v.t \in Collections
  <2>1. (each.keep <=> (read => v.v # 0)) /\ (each.warn <=> ~read)
    BY DEF evalForEach, isEmptyForEach
  <2> HIDE DEF each
  <2> QED BY <1>2, <2>1
<1> HIDE DEF meta, count, each
<1> QED BY <1>1, <1>3, <1>4 DEF HasInstances, meta

(* An attribute that was read has the value it really has.                  *)
LEMMA AttrsAgree ==
    ASSUME NEW b, b.kind # "module", NEW a, NEW t, Within(a, t)
    PROVE  LET read == extractAttrs(b, a).attrs
               true == TrueAttrs(b, t)
           IN  /\ DOMAIN read = DOMAIN true
               /\ \A n \in DOMAIN read : read[n] # NilVal => true[n] = read[n]
<1> DEFINE read == extractAttrs(b, a).attrs
           true == TrueAttrs(b, t)
<1>1. DOMAIN read = DOMAIN b.attrs \ metaArgs /\ \A n \in DOMAIN read : read[n] = resolveExpr(b.attrs[n], a)
  BY DEF extractAttrs
<1>2. DOMAIN true = DOMAIN b.attrs \ metaArgs /\ \A n \in DOMAIN true : true[n] = resolveExpr(b.attrs[n], t)
  BY DEF TrueAttrs
<1> HIDE DEF read, true
<1>3. \A n \in DOMAIN read : read[n] # NilVal => true[n] = read[n]
  BY <1>1, <1>2, ExpressionsAgree
<1> QED BY <1>1, <1>2, <1>3 DEF read, true

(* A call with its source written out: where it leads, and its arguments.   *)
Sourced(b) == b.kind = "module" /\ HasSource(b) /\ b.attrs["source"].value # NilVal

IsMade(call, args, b, a, t) ==
    /\ call.source = SourceOf(b) /\ call.local = IsLocal(SourceOf(b))
    /\ call.name = b.name /\ call.pos = b.pos
    /\ DOMAIN call.args = DOMAIN args
    /\ \A n \in DOMAIN args : call.args[n] = resolveExpr(b.attrs[n], a) /\ args[n] = resolveExpr(b.attrs[n], t)

(* A call as the tool extracts it, and as it really is.                     *)
LEMMA CallMade ==
    ASSUME NEW b, Sourced(b), NEW a, NEW t
    PROVE  IsMade(extractModule(b, a), TrueAttrs(b, t), b, a, t)
<1> DEFINE call == extractModule(b, a)
           args == TrueAttrs(b, t)
           attrs == extractAttrs(b, a).attrs
<1>1. DOMAIN attrs = DOMAIN b.attrs \ metaArgs /\ \A n \in DOMAIN attrs : attrs[n] = resolveExpr(b.attrs[n], a)
  BY DEF extractAttrs
<1>2. /\ DOMAIN args = (DOMAIN b.attrs \ metaArgs) \ {"source"}
      /\ \A n \in DOMAIN args : args[n] = resolveExpr(b.attrs[n], t)
  BY DEF TrueAttrs, Sourced
<1>3. "source" \in DOMAIN attrs /\ attrs["source"] = b.attrs["source"].value
  <2>1. "source" \notin metaArgs
    BY DEF metaArgs
  <2>2. resolveExpr(b.attrs["source"], a) = b.attrs["source"].value
    BY DEF Sourced, HasSource, resolveExpr, AtomValue
  <2> HIDE DEF attrs
  <2> QED BY <1>1, <2>1, <2>2 DEF Sourced, HasSource
<1> DEFINE given == "source" \in DOMAIN attrs /\ attrs["source"] # NilVal /\ attrs["source"].t = "string"
           source == IF given THEN attrs["source"].v ELSE <<>>
<1> DEFINE made ==
             [name |-> b.name, pos |-> b.pos, source |-> source, local |-> IsLocal(source),
              args |-> [n \in DOMAIN attrs \ {"source"} |-> attrs[n]]]
<1>4. call = made
  BY DEF extractModule
<1> HIDE DEF attrs
<1>5. source = SourceOf(b)
  BY <1>3 DEF Sourced, HasSource, SourceOf
<1> HIDE DEF source
<1>6. /\ call.source = source /\ call.local = IsLocal(source) /\ call.name = b.name /\ call.pos = b.pos
      /\ call.args = [n \in DOMAIN attrs \ {"source"} |-> attrs[n]]
  <2>1. /\ made.source = source /\ made.local = IsLocal(source) /\ made.name = b.name /\ made.pos = b.pos
        /\ made.args = [n \in DOMAIN attrs \ {"source"} |-> attrs[n]]
    OBVIOUS
  <2> HIDE DEF made
  <2> QED BY <1>4, <2>1
<1> HIDE DEF made
<1>7. DOMAIN call.args = DOMAIN args /\ \A n \in DOMAIN args : call.args[n] = resolveExpr(b.attrs[n], a)
  BY <1>1, <1>2, <1>6
<1> HIDE DEF call, args
<1>8. IsMade(call, args, b, a, t)
  BY <1>2, <1>5, <1>6, <1>7 DEF IsMade
<1> QED BY <1>8 DEF call, args

-----------------------------------------------------------------------------
(* Paths and the calls along them.                                          *)
RootEnd == End(Root, NoArgs)

LEMMA PathGrows ==
    ASSUME NEW path, IsList(path), NEW n
    PROVE  /\ IsList(Append(path, n)) /\ Len(path) \in Nat /\ DOMAIN path = 1 .. Len(path)
           /\ Len(Append(path, n)) = Len(path) + 1 /\ DOMAIN Append(path, n) = 1 .. Len(path) + 1
           /\ \A i \in 1 .. Len(path) : Append(path, n)[i] = path[i]
           /\ Append(path, n)[Len(path) + 1] = n
           /\ path = [i \in 1 .. Len(path) |-> path[i]]
           /\ path \in Seq(Name) /\ n \in Name => Append(path, n) \in Seq(Name)
<1>1. IsList(Append(path, n)) /\ Len(Append(path, n)) = Len(path) + 1
  BY LongerList
<1>2. path \in Seq(Name) /\ n \in Name => Append(path, n) \in Seq(Name)
  OBVIOUS
<1> QED BY <1>1, <1>2, LongerList, ListIs DEF IsList

(* A path is a list of names.                                               *)
LEMMA PathListed == \A path \in Seq(Name) : IsList(path)
BY TypedList

(* A walk goes on by one step, and one that is not over at once has a last. *)
LEMMA WalkGoesOn ==
    ASSUME NEW c, NEW x, NEW path \in Seq(Name), NEW n \in Name, NEW z
    PROVE  LeadsTo(c, x, Append(path, n), z) <=> \E y : LeadsTo(c, x, path, y) /\ StepsTo(c, y, n, z)
<1> DEFINE k == Len(path)
           q == Append(path, n)
<1>1. /\ Len(q) = k + 1 /\ k \in Nat /\ \A i \in 1 .. k : q[i] = path[i]
      /\ q[k + 1] = n
  BY PathGrows, PathListed
<1> HIDE DEF q, k
<1>2. ASSUME NEW y, LeadsTo(c, x, path, y), StepsTo(c, y, n, z) PROVE LeadsTo(c, x, q, z)
  <2>1. PICK w : IsWalk(c, x, path, k, w) /\ w[k] = y
    BY <1>2 DEF LeadsTo, k
  <2> DEFINE v == [i \in 0 .. k + 1 |-> IF i = k + 1 THEN z ELSE w[i]]
  <2>2. v[k + 1] = z /\ \A i \in 0 .. k : v[i] = w[i]
    BY <1>1
  <2> HIDE DEF v
  <2>3. v[0] = x
    BY <1>1, <2>1, <2>2 DEF IsWalk
  <2>4. ASSUME NEW i \in 1 .. k + 1 PROVE StepsTo(c, v[i - 1], q[i], v[i])
    <3>1. CASE i = k + 1
      <4>1. k \in 0 .. k /\ i - 1 = k
        BY <1>1, <3>1
      <4> QED BY <1>1, <1>2, <2>1, <2>2, <3>1, <4>1
    <3>2. CASE i \in 1 .. k
      <4>1. i - 1 \in 0 .. k /\ i \in 0 .. k
        BY <1>1, <3>2
      <4>2. StepsTo(c, w[i - 1], path[i], w[i])
        BY <2>1, <3>2 DEF IsWalk
      <4> QED BY <1>1, <2>2, <3>2, <4>1, <4>2
    <3> QED BY <1>1, <3>1, <3>2
  <2> QED BY <1>1, <2>2, <2>3, <2>4 DEF LeadsTo, IsWalk
<1>3. ASSUME LeadsTo(c, x, q, z) PROVE \E y : LeadsTo(c, x, path, y) /\ StepsTo(c, y, n, z)
  <2>1. PICK w : IsWalk(c, x, q, k + 1, w) /\ w[k + 1] = z
    BY <1>1, <1>3 DEF LeadsTo
  <2>2. \A i \in 1 .. k : StepsTo(c, w[i - 1], path[i], w[i])
    BY <1>1, <2>1 DEF IsWalk
  <2>3. LeadsTo(c, x, path, w[k])
    BY <2>1, <2>2 DEF LeadsTo, IsWalk, k
  <2>4. StepsTo(c, w[k], n, z)
    <3>1. k + 1 \in 1 .. k + 1 /\ (k + 1) - 1 = k
      BY <1>1
    <3> QED BY <1>1, <2>1, <3>1 DEF IsWalk
  <2> QED BY <2>3, <2>4
<1> QED BY <1>2, <1>3 DEF q

(* The names before the k-th of a path that Resolver reads.                 *)
NamesBefore(p, k) == [i \in 1 .. k - 1 |-> p[i][1]]

(* The calls along a path that ReportedIsNeeded looks at.                   *)
LEMMA AlongIs ==
    ASSUME NEW p, NEW s
    PROVE  s \in CallsAlong(p) <=>
             \E k \in DOMAIN p : \E x \in Follow(Root, NoArgs, NamesBefore(p, k)) : s \in CallsAt(x, p[k])
<1> DEFINE X(k) == Follow(Root, NoArgs, NamesBefore(p, k))
           A(k) == UNION {CallsAt(x, p[k]) : x \in X(k)}
<1>1. CallsAlong(p) = UNION {A(k) : k \in DOMAIN p}
  BY DEF CallsAlong, NamesBefore
<1>2. \A k : s \in A(k) <=> \E x \in X(k) : s \in CallsAt(x, p[k])
  <2> HIDE DEF X
  <2> QED OBVIOUS
<1> HIDE DEF A
<1>3. s \in CallsAlong(p) <=> \E k \in DOMAIN p : s \in A(k)
  BY <1>1
<1> HIDE DEF X
<1>4. s \in CallsAlong(p) <=> \E k \in DOMAIN p : \E x \in X(k) : s \in CallsAt(x, p[k])
  BY <1>2, <1>3
<1> QED BY <1>4 DEF X

(* A longer path has the segments of the shorter one, and its own.          *)
LEMMA SegmentsGrow ==
    ASSUME NEW path, IsList(path), NEW n
    PROVE  LET p == Segments(path)
               q == Segments(Append(path, n))
               l == Len(path)
           IN  /\ l \in Nat /\ DOMAIN p = 1 .. l /\ DOMAIN q = 1 .. l + 1
               /\ \A k \in 1 .. l : q[k] = p[k] /\ NamesBefore(q, k) = NamesBefore(p, k)
               /\ q[l + 1] = <<n>> /\ NamesBefore(q, l + 1) = path
<1> DEFINE q == Append(path, n)
           l == Len(path)
<1>1. /\ l \in Nat /\ DOMAIN path = 1 .. l /\ DOMAIN q = 1 .. l + 1 /\ \A i \in 1 .. l : q[i] = path[i]
      /\ q[l + 1] = n /\ path = [i \in 1 .. l |-> path[i]]
  BY PathGrows
<1> HIDE DEF q, l
<1>2. DOMAIN Segments(path) = 1 .. l /\ \A i \in 1 .. l : Segments(path)[i] = <<path[i]>>
  BY <1>1 DEF Segments
<1>3. DOMAIN Segments(q) = 1 .. l + 1 /\ \A i \in 1 .. l + 1 : Segments(q)[i] = <<q[i]>>
  BY <1>1 DEF Segments
<1>4. ASSUME NEW k \in 1 .. l PROVE Segments(q)[k] = Segments(path)[k]
  <2>1. k \in 1 .. l + 1
    BY <1>1
  <2> QED BY <1>1, <1>2, <1>3, <2>1
<1>5. ASSUME NEW k \in 1 .. l PROVE NamesBefore(Segments(q), k) = NamesBefore(Segments(path), k)
  <2>1. \A i \in 1 .. k - 1 : i \in 1 .. l
    BY <1>1
  <2>2. \A i \in 1 .. k - 1 : Segments(q)[i][1] = Segments(path)[i][1]
    BY <1>4, <2>1
  <2> QED BY <2>2 DEF NamesBefore
<1>6. l + 1 \in 1 .. l + 1 /\ (l + 1) - 1 = l /\ \A i \in 1 .. l : i \in 1 .. l + 1
  BY <1>1
<1>7. NamesBefore(Segments(q), l + 1) = path
  <2>1. \A i \in 1 .. l : Segments(q)[i][1] = path[i]
    BY <1>1, <1>3, <1>6
  <2>2. NamesBefore(Segments(q), l + 1) = [i \in 1 .. l |-> Segments(q)[i][1]]
    BY <1>6 DEF NamesBefore
  <2> QED BY <1>1, <2>1, <2>2
<1>8. Segments(q)[l + 1] = <<n>>
  BY <1>1, <1>3, <1>6
<1> QED BY <1>1, <1>2, <1>3, <1>4, <1>5, <1>7, <1>8 DEF q, l

(* What lies along a path lies along its extensions, and so does the call   *)
(* that extends it.                                                         *)
LEMMA AlongGrows ==
    ASSUME NEW path, IsList(path), NEW n, NEW q, q = Segments(Append(path, n))
    PROVE  /\ \A s \in CallsAlong(Segments(path)) : s \in CallsAlong(q)
           /\ path \in Seq(Name) =>
                \A y : LeadsTo(config, RootEnd, path, y) =>
                  \A call \in CallsOf(config, y) : call.local /\ call.name = n =>
                    [call |-> call, child |-> config[Join(y.dir, call.source)]] \in CallsAlong(q)
<1> DEFINE p == Segments(path)
           l == Len(path)
<1>1. /\ l \in Nat /\ DOMAIN p = 1 .. l /\ DOMAIN q = 1 .. l + 1
      /\ \A k \in 1 .. l : q[k] = p[k] /\ NamesBefore(q, k) = NamesBefore(p, k)
      /\ q[l + 1] = <<n>> /\ NamesBefore(q, l + 1) = path
  BY SegmentsGrow
<1> HIDE DEF p, l
<1>2. (\A k \in 1 .. l : k \in 1 .. l + 1) /\ l + 1 \in 1 .. l + 1
  BY <1>1
<1>3. \A s \in CallsAlong(p) : s \in CallsAlong(q)
  BY <1>1, <1>2, AlongIs
<1>4. ASSUME path \in Seq(Name), NEW y, LeadsTo(config, RootEnd, path, y),
             NEW call \in CallsOf(config, y), call.local, call.name = n
      PROVE  [call |-> call, child |-> config[Join(y.dir, call.source)]] \in CallsAlong(q)
  <2> DEFINE s == [call |-> call, child |-> config[Join(y.dir, call.source)]]
  <2>1. PICK x \in Follow(Root, NoArgs, path) : x.dir = y.dir /\ x.overrides = y.overrides
    BY <1>4, FollowLeads DEF RootEnd
  <2>2. call \in LocalCalls(x.dir, x.overrides) /\ <<call.name>> = q[l + 1]
    <3>1. call \in CallsOf(config, x)
      BY <2>1 DEF CallsOf
    <3> QED BY <1>1, <1>4, <3>1, TreeIs
  <2>3. s \in CallsAt(x, q[l + 1])
    BY <2>1, <2>2 DEF CallsAt
  <2> HIDE DEF s
  <2> QED BY <1>1, <1>2, <2>1, <2>3, AlongIs DEF s
<1> QED BY <1>3, <1>4 DEF p

(* A directory has finitely many locals.                                    *)
LEMMA FewLocals == \A c \in Configs, d \in Dir : Cardinality(DOMAIN LocalDecls(c[d])) \in Nat
BY TreesAssumption, FS_CardinalityType

(* The context the tool reads a directory in.                               *)
ReadIn(y) == buildEvalContext(config[y.dir], y.overrides)

CallIn(y, b) == extractModule(b, ReadIn(y))

(* A module block is among the calls, and any other among the rows unless   *)
(* its meta-arguments drop it; a guess about it is warned of.               *)
LEMMA BlocksAre ==
    ASSUME config \in Configs, NEW y \in Ends
    PROVE  /\ \A b \in ToSet(Blocks(config[y.dir])) :
                /\ b.pos \in Nat /\ b.kind \in {"resource", "data", "module"}
                /\ b.kind = "module" => b.name \in Name /\ CallIn(y, b) \in CallsOf(config, y)
                /\ b.kind # "module" /\ evalMetaArgs(b, ReadIn(y)).keep =>
                     AsResource(b, extractAttrs(b, ReadIn(y)), evalMetaArgs(b, ReadIn(y))) \in RowsOf(config, y)
           /\ \A call \in CallsOf(config, y) :
                \E b \in ToSet(Blocks(config[y.dir])) : b.kind = "module" /\ call = CallIn(y, b)
           /\ \A x \in RowsOf(config, y) :
                \E b \in ToSet(Blocks(config[y.dir])) :
                  LET meta == evalMetaArgs(b, ReadIn(y))
                  IN  /\ b.kind # "module" /\ meta.keep /\ x = AsResource(b, extractAttrs(b, ReadIn(y)), meta)
                      /\ meta.warnings # 0 =>
                           \E g \in ToSet(parsed[config[y.dir]][y.overrides].diags) : g.kind = "unresolved" /\ g.pos = b.pos
<1> DEFINE d == y.dir
           o == y.overrides
           B == Blocks(config[d])
           n == Len(B)
           p == Given(config, d, o)
           own == parsed[config[d]][o]
<1>1. d \in Dir /\ o \in Override
  BY DEF Ends
<1>2. /\ DOMAIN B = 1 .. n /\ n \in Nat
      /\ \A i \in DOMAIN B : /\ B[i].pos \in Nat /\ B[i].kind \in {"resource", "data", "module"}
                             /\ B[i].kind = "module" => B[i].name \in Name
  BY <1>1, ParsedIs
<1>3. KeptSoFar(p, n, own)
  BY <1>1, KeptIs
<1>4. p.blocks = B /\ p.ctx = ReadIn(y)
  BY DEF Given, ReadIn
<1>5. CallsOf(config, y) = ToSet(own.modules) /\ RowsOf(config, y) = ToSet(own.resources)
  BY DEF CallsOf, RowsOf
<1> HIDE DEF own, B, n, p
<1>6. \A b : b \in ToSet(B) <=> \E i \in 1 .. n : B[i] = b
  BY <1>2 DEF ToSet
<1> DEFINE RowIn(b) == AsResource(b, extractAttrs(b, ReadIn(y)), evalMetaArgs(b, ReadIn(y)))
<1>7. \A i \in 1 .. n : /\ IsCall(p, i) <=> B[i].kind = "module"
                        /\ CallOf(p, i) = CallIn(y, B[i]) /\ RowOf(p, i) = RowIn(B[i])
                        /\ MetaOf(p, i) = evalMetaArgs(B[i], ReadIn(y)) /\ p.blocks[i] = B[i]
  BY <1>4 DEF IsCall, CallOf, RowOf, MetaOf, CallIn
<1> HIDE DEF RowIn
<1>8. /\ \A x : x \in ToSet(own.modules) <=> \E i \in 1 .. n : IsCall(p, i) /\ x = CallOf(p, i)
      /\ \A x : x \in ToSet(own.resources) <=>
                  \E i \in 1 .. n : ~IsCall(p, i) /\ MetaOf(p, i).keep /\ x = RowOf(p, i)
      /\ \A i \in 1 .. n : ~IsCall(p, i) /\ MetaOf(p, i).warnings # 0 =>
           \E g \in ToSet(own.diags) : g.kind = "unresolved" /\ g.pos = p.blocks[i].pos
  BY <1>3 DEF KeptSoFar
<1>9. ASSUME NEW b \in ToSet(B)
      PROVE  /\ b.pos \in Nat /\ b.kind \in {"resource", "data", "module"}
             /\ b.kind = "module" => b.name \in Name /\ CallIn(y, b) \in ToSet(own.modules)
             /\ b.kind # "module" /\ evalMetaArgs(b, ReadIn(y)).keep => RowIn(b) \in ToSet(own.resources)
  <2>1. PICK i \in 1 .. n : B[i] = b
    BY <1>6
  <2> QED BY <1>2, <1>7, <1>8, <2>1
<1>10. \A call \in ToSet(own.modules) : \E b \in ToSet(B) : b.kind = "module" /\ call = CallIn(y, b)
  BY <1>6, <1>7, <1>8
<1>11. ASSUME NEW x \in ToSet(own.resources)
       PROVE  \E b \in ToSet(B) :
                /\ b.kind # "module" /\ evalMetaArgs(b, ReadIn(y)).keep /\ x = RowIn(b)
                /\ evalMetaArgs(b, ReadIn(y)).warnings # 0 =>
                     \E g \in ToSet(own.diags) : g.kind = "unresolved" /\ g.pos = b.pos
  <2>1. PICK i \in 1 .. n : ~IsCall(p, i) /\ MetaOf(p, i).keep /\ x = RowOf(p, i)
    BY <1>8
  <2>2. B[i] \in ToSet(B)
    BY <1>6
  <2> QED BY <1>7, <1>8, <2>1, <2>2
<1>12. \A b \in ToSet(B) :
         /\ b.pos \in Nat /\ b.kind \in {"resource", "data", "module"}
         /\ b.kind = "module" => b.name \in Name /\ CallIn(y, b) \in CallsOf(config, y)
         /\ b.kind # "module" /\ evalMetaArgs(b, ReadIn(y)).keep =>
              AsResource(b, extractAttrs(b, ReadIn(y)), evalMetaArgs(b, ReadIn(y))) \in RowsOf(config, y)
  BY <1>5, <1>9 DEF RowIn
<1>13. \A call \in CallsOf(config, y) : \E b \in ToSet(B) : b.kind = "module" /\ call = CallIn(y, b)
  BY <1>5, <1>10
<1>14. \A x \in RowsOf(config, y) :
         \E b \in ToSet(B) :
           /\ b.kind # "module" /\ evalMetaArgs(b, ReadIn(y)).keep
           /\ x = AsResource(b, extractAttrs(b, ReadIn(y)), evalMetaArgs(b, ReadIn(y)))
           /\ evalMetaArgs(b, ReadIn(y)).warnings # 0 =>
                \E g \in ToSet(own.diags) : g.kind = "unresolved" /\ g.pos = b.pos
  BY <1>5, <1>11 DEF RowIn
<1> QED BY <1>12, <1>13, <1>14, Zenon DEF B, own, d, o

(* A call that is made goes on a walk, and either the callee's context is   *)
(* again one that knows nothing untrue, or the tool falls back on a default *)
(* for an argument it could not read.                                       *)
LEMMA CallGoesOn ==
    ASSUME config \in Configs, NEW path \in Seq(Name), NEW y \in Ends, LeadsTo(config, RootEnd, path, y),
           NEW t, Within(ReadIn(y), t), NEW w,
           NEW b \in ToSet(Blocks(config[y.dir])), Sourced(b),
           IsLocal(SourceOf(b)), LoadsIn(config, Join(y.dir, SourceOf(b)))
    PROVE  LET z == Callee(y.dir, CallIn(y, b))
           IN  /\ z \in Ends /\ z.dir = Join(y.dir, SourceOf(b)) /\ b.name \in Name
               /\ StepsTo(config, y, b.name, z)
               /\ \/ FellBack(Segments(Append(path, b.name)))
                  \/ Within(ReadIn(z), TrueContext(config[z.dir], TrueAttrs(b, t), w))
<1> DEFINE call == CallIn(y, b)
           z == Callee(y.dir, call)
           given == TrueAttrs(b, t)
           e == config[Join(y.dir, call.source)]
           o == literalOverrides(call)
           s == [call |-> call, child |-> e]
<1>1. /\ call.source = SourceOf(b) /\ call.local = IsLocal(SourceOf(b))
      /\ call.name = b.name /\ call.pos = b.pos
      /\ DOMAIN call.args = DOMAIN given
      /\ \A n \in DOMAIN given : call.args[n] = resolveExpr(b.attrs[n], ReadIn(y)) /\ given[n] = resolveExpr(b.attrs[n], t)
  <2>1. IsMade(call, given, b, ReadIn(y), t)
    BY CallMade DEF CallIn
  <2> HIDE DEF call, given
  <2> QED BY <2>1 DEF IsMade
<1>2. b.name \in Name /\ call \in CallsOf(config, y)
  BY BlocksAre DEF Sourced
<1>3. z = End(Join(y.dir, call.source), o) /\ z.dir = Join(y.dir, call.source) /\ z.overrides = o
  BY DEF Callee, End
<1>4. o = Known(call.args)
  BY DEF literalOverrides
<1> HIDE DEF call, given, o
<1>5. z \in Ends /\ StepsTo(config, y, call.name, z)
  BY <1>1, <1>2, StepIn
<1>6. s.call = call /\ s.child = e
  OBVIOUS
<1>7. s \in CallsAlong(Segments(Append(path, b.name)))
  BY <1>1, <1>2, AlongGrows, PathListed
<1>8. ReadIn(z) = buildEvalContext(e, o) /\ config[z.dir] = e
  BY <1>3 DEF ReadIn
<1> HIDE DEF z, s
<1>9. ASSUME ~FellBack(Segments(Append(path, b.name))) PROVE ArgsAgree(e, o, given)
  <2>1. ASSUME NEW a \in DOMAIN call.args, call.args[a] = NilVal PROVE a \notin DOMAIN varValues(Variables(e), NoArgs)
    BY <1>6, <1>7, <1>9, <2>1 DEF FellBack
  <2> SUFFICES ASSUME NEW n \in DOMAIN Variables(e)
               PROVE  /\ n \in DOMAIN o => n \in DOMAIN given /\ given[n] = o[n]
                      /\ n \notin DOMAIN o /\ n \in DOMAIN given => resolveExpr(Variables(e)[n], NoContext) = NilVal
    BY DEF ArgsAgree
  <2>2. ASSUME n \in DOMAIN o PROVE n \in DOMAIN given /\ given[n] = o[n]
    <3>1. n \in DOMAIN call.args /\ call.args[n] # NilVal /\ o[n] = call.args[n]
      BY <1>4, <2>2, KnownIs
    <3> QED BY <1>1, <3>1, ExpressionsAgree
  <2>3. ASSUME n \notin DOMAIN o, n \in DOMAIN given PROVE resolveExpr(Variables(e)[n], NoContext) = NilVal
    <3>1. n \in DOMAIN call.args /\ call.args[n] = NilVal
      BY <1>1, <1>4, <2>3, KnownIs
    <3>2. n \notin DOMAIN varValues(Variables(e), NoArgs)
      BY <2>1, <3>1
    <3> DEFINE m == [k \in DOMAIN Variables(e) |->
                       IF k \in DOMAIN NoArgs THEN NoArgs[k] ELSE resolveExpr(Variables(e)[k], NoContext)]
    <3>3. varValues(Variables(e), NoArgs) = Known(m)
      BY DEF varValues
    <3>4. n \in DOMAIN m /\ m[n] = resolveExpr(Variables(e)[n], NoContext)
      BY DEF NoArgs
    <3> HIDE DEF m
    <3> QED BY <3>2, <3>3, <3>4, KnownIs
  <2> QED BY <2>2, <2>3
<1>10. Cardinality(DOMAIN LocalDecls(e)) \in Nat
  BY <1>5, <1>8, FewLocals DEF Ends
<1> HIDE DEF e
<1>11. ArgsAgree(e, o, given) => Within(buildEvalContext(e, o), TrueContext(e, given, w))
  BY <1>10, ContextsAgree
<1> QED BY <1>1, <1>2, <1>3, <1>5, <1>8, <1>9, <1>11 DEF z, call, given

-----------------------------------------------------------------------------
(* What the tool reads against what there is in a world: each of Terraform's *)
(* modules is where a walk along its path leads, and read without error, or  *)
(* the tool has fallen back on a default on the way; and each walk leads to  *)
(* such a module, but for calls that may have no instances.                  *)
ReadAs(y, m) == y.dir = m.dir /\ Within(ReadIn(y), m.ctx)

Reads(m) ==
    /\ IsList(m.path)
    /\ \/ FellBack(Segments(m.path))
       \/ m.path \in Seq(Name) /\ \E y \in Ends : LeadsTo(config, RootEnd, m.path, y) /\ ReadAs(y, m)

Meets(X, path, y) ==
    \/ FellBack(Segments(path)) \/ Repeated(Segments(path))
    \/ \E m \in X : m.path = path /\ ReadAs(y, m)

AllAccepted(X) == \A m \in X : Accepts(config[m.dir], m.ctx)

Explored(w, k, X) ==
    AllAccepted(X) =>
        /\ \A m \in X : Reads(m)
        /\ \A path \in Seq(Name) : Len(path) <= k =>
             \A y : LeadsTo(config, RootEnd, path, y) => Meets(X, path, y)

ModuleStep(w, X, i) == X \union UNION {Called(config, x, w) : x \in X}

Exploring == INSTANCE FoldProofs WITH FoldStep <- ModuleStep, FoldHolds <- Explored

MakesCall(b, t) == b.kind = "module" /\ HasSource(b) /\ IsLocal(SourceOf(b)) /\ HasInstances(b, t)

CalledBy(x, b, w) == ModuleAt(config, Join(x.dir, SourceOf(b)), Append(x.path, b.name), TrueAttrs(b, x.ctx), w)

(* The modules that a module calls in a world.                              *)
LEMMA CalledIs ==
    ASSUME NEW x, NEW w, NEW m
    PROVE  m \in Called(config, x, w) <=>
             \E b \in ToSet(Blocks(config[x.dir])) : MakesCall(b, x.ctx) /\ m = CalledBy(x, b, w)
BY DEF Called, MakesCall, CalledBy

LEMMA CalledByIs ==
    ASSUME NEW x, NEW b, NEW w
    PROVE  LET m == CalledBy(x, b, w)
           IN  /\ m.dir = Join(x.dir, SourceOf(b)) /\ m.path = Append(x.path, b.name)
               /\ m.ctx = TrueContext(config[m.dir], TrueAttrs(b, x.ctx), w)
BY DEF CalledBy, ModuleAt

(* A module that is accepted writes out the sources of its calls.           *)
LEMMA SourceGiven ==
    ASSUME NEW d, NEW t, Accepts(d, t), NEW b \in ToSet(Blocks(d)), b.kind = "module"
    PROVE  Sourced(b)
<1>1. HasSource(b) /\ resolveExpr(b.attrs["source"], t) # NilVal
  BY DEF Accepts, HasSource
<1>2. resolveExpr(b.attrs["source"], t) = b.attrs["source"].value
  BY <1>1 DEF HasSource, resolveExpr, AtomValue
<1> QED BY <1>1, <1>2 DEF Sourced

(* A module that is accepted calls modules that are read in turn.           *)
LEMMA ModuleGoesOn ==
    ASSUME config \in Configs, NEW w, NEW x, Reads(x), Accepts(config[x.dir], x.ctx),
           NEW m \in Called(config, x, w), Accepts(config[m.dir], m.ctx)
    PROVE  Reads(m)
<1>1. PICK b \in ToSet(Blocks(config[x.dir])) : MakesCall(b, x.ctx) /\ m = CalledBy(x, b, w)
  BY CalledIs
<1>2. /\ m.dir = Join(x.dir, SourceOf(b)) /\ m.path = Append(x.path, b.name)
      /\ m.ctx = TrueContext(config[m.dir], TrueAttrs(b, x.ctx), w)
  BY <1>1, CalledByIs
<1>3. IsList(x.path) /\ IsList(m.path)
  BY <1>2, PathGrows DEF Reads
<1>4. Sourced(b) /\ IsLocal(SourceOf(b))
  BY <1>1, SourceGiven DEF MakesCall
<1>5. LoadsIn(config, m.dir)
  BY DEF Accepts, LoadsIn
<1>6. CASE FellBack(Segments(x.path))
  <2>1. \A s \in CallsAlong(Segments(x.path)) : s \in CallsAlong(Segments(m.path))
    BY <1>2, <1>3, AlongGrows
  <2>2. FellBack(Segments(m.path))
    BY <1>6, <2>1 DEF FellBack
  <2> QED BY <1>3, <2>2 DEF Reads
<1>7. ASSUME x.path \in Seq(Name), NEW y \in Ends, LeadsTo(config, RootEnd, x.path, y), ReadAs(y, x)
      PROVE  Reads(m)
  <2>0. y.dir = x.dir /\ Within(ReadIn(y), x.ctx)
    BY <1>7 DEF ReadAs
  <2>1. LoadsIn(config, Join(y.dir, SourceOf(b))) /\ b \in ToSet(Blocks(config[y.dir]))
    BY <1>2, <1>5, <2>0
  <2> DEFINE z == Callee(y.dir, CallIn(y, b))
  <2>2. /\ z \in Ends /\ z.dir = Join(y.dir, SourceOf(b)) /\ b.name \in Name
        /\ StepsTo(config, y, b.name, z)
        /\ \/ FellBack(Segments(Append(x.path, b.name)))
           \/ Within(ReadIn(z), TrueContext(config[z.dir], TrueAttrs(b, x.ctx), w))
    BY <1>4, <1>7, <2>0, <2>1, CallGoesOn
  <2> HIDE DEF z
  <2>3. m.path \in Seq(Name)
    BY <1>2, <1>3, <1>7, <2>2, PathGrows
  <2>4. LeadsTo(config, RootEnd, m.path, z)
    BY <1>2, <1>7, <2>2, WalkGoesOn
  <2>5. z.dir = m.dir
    BY <1>2, <2>0, <2>2
  <2> QED BY <1>2, <1>3, <2>2, <2>3, <2>4, <2>5 DEF Reads, ReadAs
<1> QED BY <1>6, <1>7 DEF Reads

LEMMA WalkMeets ==
    ASSUME config \in Configs, NEW w, NEW q \in Seq(Name), NEW n \in Name, NEW path, path = Append(q, n),
           NEW X, AllAccepted(X),
           NEW y \in Ends, LeadsTo(config, RootEnd, q, y), Meets(X, q, y),
           NEW z, StepsTo(config, y, n, z)
    PROVE  Meets(ModuleStep(w, X, 0), path, z)
<1>1. IsList(q)
  BY PathListed
<1>2. \A s \in CallsAlong(Segments(q)) : s \in CallsAlong(Segments(path))
  BY <1>1, AlongGrows
<1>3. FellBack(Segments(q)) => FellBack(Segments(path))
  BY <1>2 DEF FellBack
<1>4. Repeated(Segments(q)) => Repeated(Segments(path))
  BY <1>2 DEF Repeated
<1>5. ASSUME NEW m \in X, m.path = q, ReadAs(y, m), ~FellBack(Segments(path)), ~Repeated(Segments(path))
      PROVE  \E e \in ModuleStep(w, X, 0) : e.path = path /\ ReadAs(z, e)
  <2>0. y.dir = m.dir /\ Within(ReadIn(y), m.ctx) /\ y.dir \in Dir
    BY <1>5 DEF ReadAs, Ends
  <2>1. PICK call \in CallsOf(config, y) : /\ call.local /\ call.name = n
                                           /\ LoadsIn(config, Join(y.dir, call.source)) /\ z = Callee(y.dir, call)
    BY DEF StepsTo
  <2>2. PICK b \in ToSet(Blocks(config[y.dir])) : b.kind = "module" /\ call = CallIn(y, b)
    BY BlocksAre
  <2>3. Sourced(b)
    BY <1>5, <2>0, <2>2, SourceGiven DEF AllAccepted
  <2>4. call.source = SourceOf(b) /\ call.local = IsLocal(SourceOf(b)) /\ call.name = b.name /\ call.pos = b.pos
    <3>1. IsMade(extractModule(b, ReadIn(y)), TrueAttrs(b, m.ctx), b, ReadIn(y), m.ctx)
      BY <2>3, CallMade
    <3> QED BY <2>2, <3>1 DEF IsMade, CallIn
  <2>5. HasInstances(b, m.ctx)
    <3> DEFINE s == [call |-> call, child |-> config[Join(y.dir, call.source)]]
    <3>1. s \in CallsAlong(Segments(path)) /\ s.call = call
      BY <1>1, <2>1, AlongGrows
    <3> HIDE DEF s
    <3>2. {"count", "for_each"} \intersect DOMAIN b.attrs = {}
      BY <1>5, <2>0, <2>4, <3>1 DEF Repeated
    <3> QED BY <3>2 DEF HasInstances
  <2> DEFINE e == CalledBy(m, b, w)
  <2>6. /\ e.dir = Join(m.dir, SourceOf(b)) /\ e.path = Append(m.path, b.name)
        /\ e.ctx = TrueContext(config[e.dir], TrueAttrs(b, m.ctx), w)
    BY CalledByIs
  <2>7. e \in Called(config, m, w)
    <3>1. MakesCall(b, m.ctx)
      BY <2>1, <2>3, <2>4, <2>5 DEF MakesCall, Sourced
    <3> QED BY <2>0, <3>1, CalledIs
  <2> HIDE DEF e
  <2>8. e \in ModuleStep(w, X, 0)
    BY <1>5, <2>7 DEF ModuleStep
  <2>9. /\ z.dir = Join(y.dir, SourceOf(b))
        /\ Within(ReadIn(z), TrueContext(config[z.dir], TrueAttrs(b, m.ctx), w))
    <3>1. b.name = n /\ IsLocal(SourceOf(b)) /\ LoadsIn(config, Join(y.dir, SourceOf(b))) /\ z = Callee(y.dir, CallIn(y, b))
      BY <2>1, <2>2, <2>4
    <3> QED BY <1>5, <2>0, <2>3, <3>1, CallGoesOn
  <2> QED BY <1>5, <2>0, <2>1, <2>4, <2>6, <2>8, <2>9 DEF ReadAs
<1> QED BY <1>3, <1>4, <1>5 DEF Meets

(* The root is where every walk begins.                                     *)
LEMMA RootIs == RootEnd \in Ends /\ RootEnd.dir = Root /\ RootEnd.overrides = NoArgs
<1>1. Root \in Dir /\ NoArgs \in Override
  BY ConfigsAssumption
<1> QED BY <1>1 DEF RootEnd, End, Ends

LEMMA RootModuleRead ==
    ASSUME config \in Configs, NEW w \in Worlds, NEW m, m = ModuleAt(config, Root, <<>>, w.var, w)
    PROVE  Reads(m) /\ m.path = <<>> /\ ReadAs(RootEnd, m)
<1>1. m.dir = Root /\ m.path = <<>> /\ m.ctx = TrueContext(config[Root], w.var, w)
  BY DEF ModuleAt
<1> DEFINE d == config[Root]
<1>2. Cardinality(DOMAIN LocalDecls(d)) \in Nat
  BY FewLocals, ConfigsAssumption
<1>3. ArgsAgree(d, NoArgs, w.var)
  <2>1. DOMAIN w.var \intersect DOMAIN varValues(Variables(d), NoArgs) = {}
    BY WorldsAssumption
  <2> SUFFICES ASSUME NEW n \in DOMAIN Variables(d), n \in DOMAIN w.var
               PROVE  resolveExpr(Variables(d)[n], NoContext) = NilVal
    BY DEF ArgsAgree, NoArgs
  <2> DEFINE v == [k \in DOMAIN Variables(d) |->
                     IF k \in DOMAIN NoArgs THEN NoArgs[k] ELSE resolveExpr(Variables(d)[k], NoContext)]
  <2>2. varValues(Variables(d), NoArgs) = Known(v)
    BY DEF varValues
  <2>3. n \in DOMAIN v /\ v[n] = resolveExpr(Variables(d)[n], NoContext)
    BY DEF NoArgs
  <2> HIDE DEF v
  <2> QED BY <2>1, <2>2, <2>3, KnownIs
<1>4. Within(buildEvalContext(d, NoArgs), TrueContext(d, w.var, w))
  <2> HIDE DEF d
  <2> QED BY <1>2, <1>3, ContextsAgree
<1>5. ReadAs(RootEnd, m)
  BY <1>1, <1>4, RootIs DEF ReadAs, ReadIn
<1>6. <<>> \in Seq(Name) /\ IsList(<<>>)
  <2>1. <<>> \in Seq(Name)
    OBVIOUS
  <2> QED BY <2>1, PathListed
<1>7. LeadsTo(config, RootEnd, <<>>, RootEnd)
  BY NoSteps
<1> QED BY <1>1, <1>5, <1>6, <1>7, RootIs DEF Reads

LEMMA ModulesExplored ==
    ASSUME config \in Configs, NEW w \in Worlds
    PROVE  Explored(w, Cardinality(Dir), TrueModules(config, w)) /\ Cardinality(Dir) \in Nat
<1> DEFINE n == Cardinality(Dir)
           seq == [i \in 1 .. n |-> i]
           root == ModuleAt(config, Root, <<>>, w.var, w)
           X0 == {root}
<1>1. n \in Nat /\ DOMAIN seq = 1 .. n
  BY TextAssumption, FS_CardinalityType
<1>2. TrueModules(config, w) = Exploring!Folded(w, X0, seq)
  <2>1. TrueModules(config, w) = FoldLeft(LAMBDA X, i : ModuleStep(w, X, i), X0, seq)
    BY DEF TrueModules, ModuleStep
  <2>2. Exploring!Folded(w, X0, seq) = FoldLeft(LAMBDA X, i : ModuleStep(w, X, i), X0, seq)
    BY DEF Exploring!Folded, Exploring!Greatest, FoldLeft, MapThenFoldSet, Max
  <2> QED BY <2>1, <2>2
<1>3. Explored(w, 0, X0)
  <2>1. Reads(root) /\ root.path = <<>> /\ ReadAs(RootEnd, root)
    BY RootModuleRead
  <2> HIDE DEF root
  <2>2. ASSUME NEW path \in Seq(Name), Len(path) <= 0, NEW y, LeadsTo(config, RootEnd, path, y)
        PROVE  Meets(X0, path, y)
    <3>1. path = <<>>
      BY <2>2
    <3>2. y = RootEnd
      BY <2>2, <3>1, NoSteps
    <3> QED BY <2>1, <3>1, <3>2 DEF Meets
  <2> QED BY <2>1, <2>2 DEF Explored
<1> HIDE DEF n, seq, X0
<1>4. ASSUME NEW k \in 1 .. n, NEW X, Explored(w, k - 1, X) PROVE Explored(w, k, ModuleStep(w, X, seq[k]))
  <2> DEFINE Y == ModuleStep(w, X, 0)
  <2>1. ModuleStep(w, X, seq[k]) = Y
    BY DEF ModuleStep
  <2>2. /\ X \subseteq Y
        /\ \A x \in X : \A m \in Called(config, x, w) : m \in Y
        /\ \A m \in Y : m \in X \/ \E x \in X : m \in Called(config, x, w)
    BY DEF ModuleStep
  <2> SUFFICES ASSUME AllAccepted(Y)
               PROVE  /\ \A m \in Y : Reads(m)
                      /\ \A path \in Seq(Name) : Len(path) <= k =>
                           \A y : LeadsTo(config, RootEnd, path, y) => Meets(Y, path, y)
    BY <2>1 DEF Explored
  <2> HIDE DEF Y
  <2>3. AllAccepted(X)
    BY <2>2 DEF AllAccepted
  <2>4. /\ \A m \in X : Reads(m)
        /\ \A path \in Seq(Name) : Len(path) <= k - 1 =>
             \A y : LeadsTo(config, RootEnd, path, y) => Meets(X, path, y)
    BY <1>4, <2>3 DEF Explored
  <2>5. ASSUME NEW m \in Y PROVE Reads(m)
    <3>1. ASSUME NEW x \in X, m \in Called(config, x, w) PROVE Reads(m)
      BY <2>2, <2>3, <2>4, <3>1, ModuleGoesOn DEF AllAccepted
    <3> QED BY <2>2, <2>4, <3>1
  <2>6. ASSUME NEW path \in Seq(Name), Len(path) <= k, NEW y, LeadsTo(config, RootEnd, path, y)
        PROVE  Meets(Y, path, y)
    <3>1. Len(path) \in Nat /\ k \in Nat \ {0}
      BY <1>1
    <3>2. CASE Len(path) <= k - 1
      <4>1. Meets(X, path, y)
        BY <2>4, <2>6, <3>2
      <4> QED BY <2>2, <4>1 DEF Meets
    <3>3. CASE Len(path) = k
      <4> DEFINE q == SubSeq(path, 1, k - 1)
                 name == path[k]
      <4>1. q \in Seq(Name) /\ name \in Name /\ path = Append(q, name) /\ Len(q) = k - 1
        BY <3>1, <3>3
      <4> HIDE DEF q, name
      <4>2. PICK v : LeadsTo(config, RootEnd, q, v) /\ StepsTo(config, v, name, y)
        BY <2>6, <4>1, WalkGoesOn
      <4>3. v \in Ends
        BY <4>1, <4>2, EndStays, RootIs
      <4>4. Meets(X, q, v)
        <5>1. Len(q) <= k - 1
          BY <3>1, <4>1
        <5> QED BY <2>4, <4>1, <4>2, <5>1
      <4> QED BY <2>3, <4>1, <4>2, <4>3, <4>4, WalkMeets DEF Y
    <3> QED BY <2>6, <3>1, <3>2, <3>3
  <2> QED BY <2>5, <2>6
<1>5. Explored(w, n, Exploring!Folded(w, X0, seq))
  BY <1>1, <1>3, <1>4, Exploring!FoldInduction
<1> QED BY <1>1, <1>2, <1>5 DEF n

-----------------------------------------------------------------------------
(* A row of a template against an instance of a world.                      *)
Stands(rec, x) ==
    /\ rec.kind = x.kind /\ rec.type = x.type /\ rec.block = x.block
    /\ Segments(rec.path) = x.path /\ rec.preventDestroy = x.preventDestroy
    /\ DOMAIN rec.attrs = DOMAIN x.attrs
    /\ \A n \in DOMAIN rec.attrs : rec.attrs[n] # NilVal => x.attrs[n] = rec.attrs[n]

InstanceOf(m, b) ==
    [kind |-> b.kind, type |-> b.type, block |-> b.pos, path |-> Segments(m.path),
     attrs |-> TrueAttrs(b, m.ctx), preventDestroy |-> Prevented(b)]

(* The instances of a world are the blocks of its modules that have any.    *)
LEMMA InstancesAre ==
    ASSUME NEW c, NEW w, NEW x
    PROVE  x \in TrueInstances(c, w) <=>
             \E m \in TrueModules(c, w) : \E b \in ToSet(Blocks(c[m.dir])) :
               b.kind # "module" /\ HasInstances(b, m.ctx) /\ x = InstanceOf(m, b)
<1> DEFINE I(m) == {InstanceOf(m, b) : b \in {y \in ToSet(Blocks(c[m.dir])) : y.kind # "module" /\ HasInstances(y, m.ctx)}}
<1>1. TrueInstances(c, w) = UNION {I(m) : m \in TrueModules(c, w)}
  BY DEF TrueInstances, InstanceOf
<1>2. \A m : x \in I(m) <=> \E b \in ToSet(Blocks(c[m.dir])) :
                              b.kind # "module" /\ HasInstances(b, m.ctx) /\ x = InstanceOf(m, b)
  OBVIOUS
<1> HIDE DEF I
<1>3. x \in TrueInstances(c, w) <=> \E m \in TrueModules(c, w) : x \in I(m)
  BY <1>1
<1> QED BY <1>2, <1>3

ReadRow(y, b) == AsResource(b, extractAttrs(b, ReadIn(y)), evalMetaArgs(b, ReadIn(y)))

(* A row that is put on a path keeps the rest.                              *)
LEMMA MovedRow ==
    ASSUME NEW rec, RowShape(rec), NEW p
    PROVE  LET r == At(p, rec)
           IN  /\ r.kind = rec.kind /\ r.type = rec.type /\ r.block = rec.block /\ r.path = p
               /\ r.attrs = rec.attrs /\ r.reasons = rec.reasons /\ r.preventDestroy = rec.preventDestroy
               /\ RowShape(r)
<1> DEFINE r == [kind |-> rec.kind, type |-> rec.type, block |-> rec.block, path |-> p,
                 attrs |-> rec.attrs, reasons |-> rec.reasons, preventDestroy |-> rec.preventDestroy]
<1>1. At(p, rec) = r
  BY DEF At, RowShape
<1>2. /\ r.kind = rec.kind /\ r.type = rec.type /\ r.block = rec.block /\ r.path = p
      /\ r.attrs = rec.attrs /\ r.reasons = rec.reasons /\ r.preventDestroy = rec.preventDestroy
      /\ r = [kind |-> r.kind, type |-> r.type, block |-> r.block, path |-> r.path,
              attrs |-> r.attrs, reasons |-> r.reasons, preventDestroy |-> r.preventDestroy]
  OBVIOUS
<1> HIDE DEF r
<1> QED BY <1>1, <1>2 DEF RowShape

(* The row of a block, field by field.                                      *)
LEMMA ReadRowIs ==
    ASSUME NEW y, NEW b
    PROVE  LET rec == ReadRow(y, b)
           IN  /\ RowShape(rec) /\ rec.kind = b.kind /\ rec.type = b.type /\ rec.block = b.pos
               /\ rec.path = <<>> /\ rec.attrs = extractAttrs(b, ReadIn(y)).attrs
               /\ rec.preventDestroy = evalMetaArgs(b, ReadIn(y)).preventDestroy
BY DEF ReadRow, AsResource, RowShape

(* The row of a block that was kept stands for the instance there is.       *)
LEMMA RowStands ==
    ASSUME NEW y, NEW m, ReadAs(y, m), NEW b, b.kind # "module", NEW rec, rec = At(m.path, ReadRow(y, b))
    PROVE  Stands(rec, InstanceOf(m, b))
<1> DEFINE x == InstanceOf(m, b)
<1>1. /\ rec.kind = b.kind /\ rec.type = b.type /\ rec.block = b.pos /\ rec.path = m.path
      /\ rec.attrs = extractAttrs(b, ReadIn(y)).attrs
      /\ rec.preventDestroy = evalMetaArgs(b, ReadIn(y)).preventDestroy
  BY ReadRowIs, MovedRow
<1>2. /\ x.kind = b.kind /\ x.type = b.type /\ x.block = b.pos /\ x.path = Segments(m.path)
      /\ x.attrs = TrueAttrs(b, m.ctx) /\ x.preventDestroy = Prevented(b)
  BY DEF InstanceOf
<1>3. evalMetaArgs(b, ReadIn(y)).preventDestroy = Prevented(b)
  <2>1. evalMetaArgs(b, ReadIn(y)).preventDestroy = (b.lifecycle # <<>> /\ literalPreventDestroy(Last(b.lifecycle)))
    BY MetaIs
  <2> QED BY <2>1 DEF Prevented, literalPreventDestroy
<1>4. /\ DOMAIN rec.attrs = DOMAIN x.attrs
      /\ \A n \in DOMAIN rec.attrs : rec.attrs[n] # NilVal => x.attrs[n] = rec.attrs[n]
  BY <1>1, <1>2, AttrsAgree DEF ReadAs
<1> HIDE DEF x
<1>5. Stands(rec, x)
  BY <1>1, <1>2, <1>3, <1>4 DEF Stands
<1> QED BY <1>5 DEF x

(* No path without recursion is longer than that, so these are all.         *)
LEMMA ModulesAre ==
    ASSUME config \in Configs, NEW w \in Worlds, Accepted(config, w)
    PROVE  /\ \A m \in TrueModules(config, w) : Reads(m) /\ Accepts(config[m.dir], m.ctx)
           /\ \A path \in Seq(Name) : Len(path) <= Cardinality(Dir) =>
                \A y : LeadsTo(config, RootEnd, path, y) => Meets(TrueModules(config, w), path, y)
<1>1. AllAccepted(TrueModules(config, w))
  BY DEF Accepted, AllAccepted
<1>2. Explored(w, Cardinality(Dir), TrueModules(config, w))
  BY ModulesExplored
<1> QED BY <1>1, <1>2 DEF Explored, AllAccepted

(* Each instance of a world has its row, and each row its instance.         *)
LEMMA InstancesHaveRows ==
    ASSUME config \in Configs, ~RecursiveIn(config), NEW R, AllRows(config, RootEnd, R),
           NEW w \in Worlds, Accepted(config, w), NEW x \in TrueInstances(config, w)
    PROVE  FellBack(x.path) \/ \E rec \in R : Stands(rec, x) /\ rec.path \in Seq(Name)
<1>0. PICK m \in TrueModules(config, w) : \E b \in ToSet(Blocks(config[m.dir])) :
        b.kind # "module" /\ HasInstances(b, m.ctx) /\ x = InstanceOf(m, b)
  BY InstancesAre
<1>1. PICK b \in ToSet(Blocks(config[m.dir])) :
        b.kind # "module" /\ HasInstances(b, m.ctx) /\ x = InstanceOf(m, b)
  BY <1>0
<1>2. Reads(m)
  BY ModulesAre
<1>3. x.path = Segments(m.path)
  BY <1>1 DEF InstanceOf
<1>4. ASSUME m.path \in Seq(Name), NEW y \in Ends, LeadsTo(config, RootEnd, m.path, y), ReadAs(y, m)
      PROVE  \E rec \in R : Stands(rec, x) /\ rec.path \in Seq(Name)
  <2>1. y.dir = m.dir /\ Within(ReadIn(y), m.ctx)
    BY <1>4 DEF ReadAs
  <2>2. evalMetaArgs(b, ReadIn(y)).keep
    BY <1>1, <2>1, InstancesKept
  <2>3. ReadRow(y, b) \in RowsOf(config, y)
    BY <1>1, <2>1, <2>2, BlocksAre DEF ReadRow
  <2> DEFINE rec == At(m.path, ReadRow(y, b))
  <2>4. rec \in R
    BY <1>4, <2>3 DEF AllRows
  <2>5. rec.path = m.path
    BY ReadRowIs, MovedRow
  <2>6. Stands(rec, x)
    BY <1>1, <1>4, RowStands
  <2> QED BY <1>4, <2>4, <2>5, <2>6
<1> QED BY <1>2, <1>3, <1>4 DEF Reads

(* The other way round: no row without a warning is of nothing.             *)
LEMMA RowsHaveInstances ==
    ASSUME config \in Configs, ~RecursiveIn(config), LoadsIn(config, Root),
           NEW R, NEW G, RealRows(config, RootEnd, R, G),
           NEW w \in Worlds, Accepted(config, w), NEW rec \in R, rec.path \in Seq(Name), RowShape(rec)
    PROVE  \/ \E g \in G : g.pos = rec.block /\ g.kind = "unresolved"
           \/ FellBack(Segments(rec.path)) \/ Repeated(Segments(rec.path))
           \/ \E x \in TrueInstances(config, w) : Stands(rec, x)
<1>1. PICK y : /\ LeadsTo(config, RootEnd, rec.path, y) /\ At(<<>>, rec) \in RowsOf(config, y)
               /\ DiagsOf(config, y) \subseteq G
  BY DEF RealRows
<1>2. y \in Ends
  BY <1>1, EndStays, RootIs
<1>3. PICK b \in ToSet(Blocks(config[y.dir])) :
        /\ b.kind # "module" /\ evalMetaArgs(b, ReadIn(y)).keep /\ At(<<>>, rec) = ReadRow(y, b)
        /\ evalMetaArgs(b, ReadIn(y)).warnings # 0 =>
             \E g \in ToSet(parsed[config[y.dir]][y.overrides].diags) : g.kind = "unresolved" /\ g.pos = b.pos
  BY <1>1, <1>2, BlocksAre DEF ReadRow
<1>4. rec.block = b.pos /\ rec = At(rec.path, ReadRow(y, b))
  <2>1. At(<<>>, rec).block = rec.block
    BY MovedRow
  <2>2. At(rec.path, At(<<>>, rec)) = rec
    BY DEF At, RowShape
  <2> QED BY <1>3, <2>1, <2>2, ReadRowIs
<1>5. CASE evalMetaArgs(b, ReadIn(y)).warnings # 0
  BY <1>1, <1>3, <1>4, <1>5 DEF DiagsOf
<1>6. CASE evalMetaArgs(b, ReadIn(y)).warnings = 0
  <2>1. Len(rec.path) <= Cardinality(Dir)
    <3>1. PICK walk : IsWalk(config, RootEnd, rec.path, Len(rec.path), walk)
      BY <1>1 DEF LeadsTo
    <3>2. Len(rec.path) \in Nat /\ Cardinality(Dir) \in Nat
      BY ModulesExplored
    <3>3. Len(rec.path) \in 0 .. Cardinality(Dir) - 1
      BY <3>1, <3>2, WalkSeen, RootIs
    <3> QED BY <3>2, <3>3
  <2>2. Meets(TrueModules(config, w), rec.path, y)
    BY <1>1, <2>1, ModulesAre
  <2>3. ASSUME NEW m \in TrueModules(config, w), m.path = rec.path, ReadAs(y, m)
        PROVE  \E x \in TrueInstances(config, w) : Stands(rec, x)
    <3>1. y.dir = m.dir /\ Within(ReadIn(y), m.ctx)
      BY <2>3 DEF ReadAs
    <3>2. HasInstances(b, m.ctx)
      BY <1>3, <1>6, <3>1, InstancesKept
    <3>3. InstanceOf(m, b) \in TrueInstances(config, w)
      BY <1>3, <3>1, <3>2, InstancesAre
    <3>4. Stands(rec, InstanceOf(m, b))
      BY <1>3, <1>4, <2>3, RowStands
    <3> QED BY <3>3, <3>4
  <2> QED BY <2>2, <2>3 DEF Meets
<1> QED BY <1>5, <1>6

-----------------------------------------------------------------------------
(* The key of a path.  Names are one character each, so every other one of   *)
(* the joined path is a name.                                                *)
EncodeStep(p, acc, name) == IF acc = <<>> THEN name ELSE acc \o <<Resolver!NUL>> \o name

EncodedSoFar(p, k, acc) ==
    IF k = 0 THEN acc = <<>>
    ELSE /\ IsList(acc) /\ Len(acc) = 2 * k - 1
         /\ \A j \in 1 .. k : acc[2 * j - 1] = p[j]

Encoding == INSTANCE FoldProofs WITH FoldStep <- EncodeStep, FoldHolds <- EncodedSoFar

JoinsTo(u, s, t) ==
    /\ IsList(u) /\ Len(u) = Len(s) + Len(t)
    /\ \A i \in 1 .. Len(s) : u[i] = s[i]
    /\ \A i \in 1 .. Len(t) : u[Len(s) + i] = t[i]

LEMMA ListsJoin ==
    ASSUME NEW s, IsList(s), NEW t, IsList(t)
    PROVE  JoinsTo(s \o t, s, t)
BY JoinedLists DEF JoinsTo

Longer(b, a, d, n) ==
    /\ IsList(b) /\ Len(b) = Len(a) + d
    /\ \A i \in 1 .. Len(a) : b[i] = a[i]
    /\ b[Len(a) + d] = n

LEMMA JoinedOne ==
    ASSUME NEW a, NEW s, Len(s) = 1, NEW n, s[1] = n, NEW c, JoinsTo(c, a, s)
    PROVE  Longer(c, a, 1, n)
BY DEF JoinsTo, Longer

LEMMA Single == ASSUME NEW m PROVE IsList(<<m>>) /\ Len(<<m>>) = 1 /\ <<m>>[1] = m
<1> DEFINE s == <<m>>
<1>1. s = [i \in 1 .. 1 |-> s[i]] /\ s[1] = m
  OBVIOUS
<1> HIDE DEF s
<1>2. IsList(s) /\ Len(s) = 1
  BY <1>1, MadeList
<1> QED BY <1>1, <1>2 DEF s

LEMMA TwoMore ==
    ASSUME NEW a, IsList(a), NEW m, NEW n, NEW b, b = a \o <<m>> \o <<n>>
    PROVE  Longer(b, a, 2, n)
<1> DEFINE s == <<m>>
           t == <<n>>
           c == a \o s
<1>1. IsList(s) /\ Len(s) = 1 /\ s[1] = m /\ IsList(t) /\ Len(t) = 1 /\ t[1] = n
  BY Single
<1>2. b = c \o t
  OBVIOUS
<1> HIDE DEF s, t
<1>3. JoinsTo(c, a, s)
  BY <1>1, ListsJoin
<1> HIDE DEF c
<1>4. Longer(c, a, 1, m)
  BY <1>1, <1>3, JoinedOne
<1>5. IsList(c)
  BY <1>4 DEF Longer
<1>6. JoinsTo(b, c, t)
  BY <1>1, <1>2, <1>5, ListsJoin
<1>7. Longer(b, c, 1, n)
  BY <1>1, <1>6, JoinedOne
<1> DEFINE l == Len(a)
<1>8. l \in Nat
  BY DEF IsList
<1>9. Len(c) = l + 1 /\ \A i \in 1 .. l : c[i] = a[i]
  BY <1>4 DEF Longer
<1>10. IsList(b) /\ Len(b) = Len(c) + 1 /\ (\A i \in 1 .. Len(c) : b[i] = c[i]) /\ b[Len(c) + 1] = n
  BY <1>7 DEF Longer
<1> HIDE DEF l
<1>11. Len(b) = l + 2 /\ Len(c) + 1 = l + 2
  BY <1>8, <1>9, <1>10
<1>12. b[l + 2] = n
  BY <1>10, <1>11
<1>13. ASSUME NEW i \in 1 .. l PROVE b[i] = a[i]
  <2>1. i \in 1 .. Len(c)
    BY <1>8, <1>9
  <2> QED BY <1>9, <1>10, <2>1
<1> QED BY <1>10, <1>11, <1>12, <1>13 DEF Longer, l

LEMMA EncodedIs ==
    ASSUME NEW p \in Seq(Name)
    PROVE  EncodedSoFar(p, Len(p), Resolver!encodeModulePath(Segments(p))) /\ Len(p) \in Nat
<1> DEFINE n == Len(p)
           seq == Segments(p)
<1>1. n \in Nat /\ DOMAIN p = 1 .. n
  OBVIOUS
<1>2. DOMAIN seq = 1 .. n /\ \A k \in 1 .. n : seq[k] = <<p[k]>>
  BY <1>1 DEF Segments
<1> HIDE DEF n, seq
<1>3. Resolver!encodeModulePath(seq) = Encoding!Folded(p, <<>>, seq)
  <2>1. Resolver!encodeModulePath(seq) = FoldLeft(LAMBDA acc, m : EncodeStep(p, acc, m), <<>>, seq)
    BY DEF Resolver!encodeModulePath, EncodeStep, Resolver!FoldLeft, Resolver!MapThenFoldSet, Resolver!Max,
           FoldLeft, MapThenFoldSet, Max
  <2>2. Encoding!Folded(p, <<>>, seq) = FoldLeft(LAMBDA acc, m : EncodeStep(p, acc, m), <<>>, seq)
    BY DEF Encoding!Folded, Encoding!Greatest, FoldLeft, MapThenFoldSet, Max
  <2> QED BY <2>1, <2>2
<1>4. EncodedSoFar(p, 0, <<>>)
  BY DEF EncodedSoFar
<1>5. ASSUME NEW k \in 1 .. n, NEW a, EncodedSoFar(p, k - 1, a) PROVE EncodedSoFar(p, k, EncodeStep(p, a, seq[k]))
  <2> DEFINE b == EncodeStep(p, a, seq[k])
  <2>1. k \in Nat /\ k # 0 /\ seq[k] = <<p[k]>>
    BY <1>2
  <2>2. CASE k = 1
    <3>1. a = <<>>
      BY <1>5, <2>2 DEF EncodedSoFar
    <3>2. b = <<p[k]>>
      BY <2>1, <3>1 DEF EncodeStep
    <3> DEFINE s == <<p[k]>>
    <3>3. s = [i \in 1 .. 1 |-> s[i]] /\ s[1] = p[k]
      OBVIOUS
    <3> HIDE DEF s
    <3>4. IsList(s) /\ Len(s) = 1
      BY <3>3, MadeList
    <3>5. IsList(s) /\ Len(s) = 2 * k - 1 /\ \A j \in 1 .. k : s[2 * j - 1] = p[j]
      BY <2>2, <3>3, <3>4
    <3>6. EncodedSoFar(p, k, s)
      BY <2>1, <3>5 DEF EncodedSoFar
    <3> QED BY <3>2, <3>6 DEF s
  <2>3. CASE k # 1
    <3>1. k - 1 # 0 /\ k - 1 \in Nat
      BY <2>1, <2>3
    <3>2. IsList(a) /\ Len(a) = 2 * (k - 1) - 1 /\ \A j \in 1 .. k - 1 : a[2 * j - 1] = p[j]
      BY <1>5, <3>1 DEF EncodedSoFar
    <3>3. a # <<>>
      BY <3>1, <3>2
    <3>4. b = a \o <<Resolver!NUL>> \o <<p[k]>>
      BY <2>1, <3>3 DEF EncodeStep
    <3> HIDE DEF b
    <3>5. IsList(a)
      BY <3>2
    <3>9. Longer(b, a, 2, p[k])
      BY <3>4, <3>5, TwoMore
    <3>10. /\ IsList(b) /\ Len(b) = Len(a) + 2
           /\ \A i \in 1 .. Len(a) : b[i] = a[i]
           /\ b[Len(a) + 2] = p[k]
      BY <3>9 DEF Longer
    <3>6. Len(a) + 2 = 2 * k - 1 /\ \A j \in 1 .. k - 1 : 2 * j - 1 \in 1 .. Len(a)
      BY <3>1, <3>2
    <3>7. \A j \in 1 .. k : b[2 * j - 1] = p[j]
      <4> TAKE j \in 1 .. k
      <4>1. CASE j = k
        BY <3>10, <3>6, <4>1
      <4>2. CASE j # k
        <5>1. j \in 1 .. k - 1
          BY <2>1, <4>2
        <5>2. 2 * j - 1 \in 1 .. Len(a) /\ a[2 * j - 1] = p[j]
          BY <3>2, <3>6, <5>1
        <5> QED BY <3>10, <5>2
      <4> QED BY <4>1, <4>2
    <3>8. Len(b) = 2 * k - 1
      BY <3>10, <3>6
    <3> QED BY <2>1, <3>10, <3>7, <3>8 DEF EncodedSoFar, b
  <2> QED BY <2>2, <2>3
<1>6. EncodedSoFar(p, n, Encoding!Folded(p, <<>>, seq))
  BY <1>1, <1>2, <1>4, <1>5, Encoding!FoldInduction
<1> QED BY <1>1, <1>3, <1>6 DEF n, seq

(* The path encoding tells different paths apart.                           *)
LEMMA EncodedTells ==
    ASSUME NEW p \in Seq(Name), NEW q \in Seq(Name),
           Resolver!encodeModulePath(Segments(p)) = Resolver!encodeModulePath(Segments(q))
    PROVE  p = q
<1> DEFINE n == Len(p)
           m == Len(q)
           e == Resolver!encodeModulePath(Segments(p))
<1>1. EncodedSoFar(p, n, e) /\ EncodedSoFar(q, m, e) /\ n \in Nat /\ m \in Nat
  BY EncodedIs
<1>2. p = [i \in 1 .. n |-> p[i]] /\ q = [i \in 1 .. m |-> q[i]]
  OBVIOUS
<1>3. e = <<>> => Len(e) = 0
  <2>1. Len(<<>>) = 0
    OBVIOUS
  <2> HIDE DEF e
  <2> QED BY <2>1
<1> HIDE DEF n, m, e
<1>4. n = m
  <2>1. (n = 0 => Len(e) = 0) /\ (n # 0 => Len(e) = 2 * n - 1)
    BY <1>1, <1>3 DEF EncodedSoFar
  <2>2. (m = 0 => Len(e) = 0) /\ (m # 0 => Len(e) = 2 * m - 1)
    BY <1>1, <1>3 DEF EncodedSoFar
  <2> QED BY <1>1, <2>1, <2>2
<1>5. ASSUME NEW i \in 1 .. n PROVE p[i] = q[i]
  <2>1. n # 0
    BY <1>1
  <2> QED BY <1>1, <1>4, <2>1 DEF EncodedSoFar
<1> QED BY <1>2, <1>4, <1>5

-----------------------------------------------------------------------------
(* The resolver.  What a resource asks for, and whether it is entered.       *)
Handed(t) == [i \in DOMAIN t.resources |-> [t.resources[i] EXCEPT !.path = Segments(@)]]

Places == {Segments(p) : p \in Seq(Name)}

MappedKind(x) == x.kind \in {"resource", "data"}
EntryOf(x) == Resolver!lookupEntry(cat, x)
Giving(x, ps) == ps.Plan \union Resolver!ApplyStage(ps, x.preventDestroy, excludeDelete)
VerdictOn(x, c) == Resolver!matchesConditional(x.attrs, c.when)

AskedBy(x, p) ==
    \/ p \in Giving(x, EntryOf(x).base)
    \/ \E j \in DOMAIN EntryOf(x).conditionals :
         /\ VerdictOn(x, EntryOf(x).conditionals[j]).matched
         /\ p \in Giving(x, EntryOf(x).conditionals[j].permissions)

Entered(x, ps) == Giving(x, ps) \subseteq plan \union apply

NamedFor(x, a) ==
    LET k == Resolver!unresolvedRecordKey(x, a)
    IN  k \in DOMAIN unresolved /\ unresolved[k].path = x.path

UnknownFor(x) ==
    LET k == Resolver!unknownKey(x)
    IN  k \in DOMAIN unknowns /\ unknowns[k] = x.path

Tried(x, c) ==
    /\ VerdictOn(x, c).matched => Entered(x, c.permissions)
    /\ \A a \in VerdictOn(x, c).missing : NamedFor(x, a)

Settled(x) ==
    MappedKind(x) =>
      IF Resolver!Found(cat, x)
      THEN /\ Entered(x, EntryOf(x).base)
           /\ \A j \in DOMAIN EntryOf(x).conditionals : Tried(x, EntryOf(x).conditionals[j])
      ELSE UnknownFor(x)

RowMade(w) ==
    /\ w = [type |-> w.type, block |-> w.block, path |-> w.path,
            BasePlan |-> w.BasePlan, BaseApplyOnly |-> w.BaseApplyOnly, Applied |-> w.Applied]
    /\ IsList(w.Applied)

Justified(w, x) ==
    /\ MappedKind(x) /\ Resolver!Found(cat, x) /\ w.block = x.block /\ w.path = x.path
    /\ \A p \in Asks(w) : AskedBy(x, p)

AtWork ==
    LET x == resources[next]
        conds == EntryOf(x).conditionals
    IN  /\ next \in DOMAIN resources /\ MappedKind(x) /\ Resolver!Found(cat, x) /\ entry = EntryOf(x)
        /\ cond \in Nat \ {0} /\ Entered(x, EntryOf(x).base)
        /\ \A j \in DOMAIN conds : j < cond => Tried(x, conds[j])
        /\ RowMade(row) /\ Justified(row, x)

AnswerBuilt ==
    /\ next > Len(resources)
    /\ answer = [PlanPerms |-> plan, ApplyOnlyPerms |-> apply \ plan,
                 TotalApplyPerms |-> plan \union apply,
                 Unknowns |-> Resolver!UnknownRows, Unresolved |-> Resolver!UnresolvedRows,
                 Resources |-> results]

(* How far the pass is: whatever is behind it is settled, and the account    *)
(* has rows of resources only.                                               *)
PassInv ==
    /\ next \in Nat /\ IsList(results)
    /\ \A i \in DOMAIN resources : i < next => Settled(resources[i])
    /\ \A w \in ToSet(results) : \E i \in DOMAIN resources : Justified(w, resources[i])
    /\ rpc = "conditional" => AtWork
    /\ rpc = "done" => AnswerBuilt

(* What the pass is given.                                                   *)
GivenInv ==
    /\ cat \in Catalogs /\ excludeDelete \in BOOLEAN
    /\ rpc \in {"idle", "resource", "conditional", "done"}
    /\ rpc = "idle" => resources = <<>> /\ next = 1 /\ results = <<>>
    /\ rpc # "idle" => pc = "done" /\ result.kind = "template" /\ resources = Handed(result.template)

PipelineInv == LoaderInv /\ GivenInv /\ PassInv /\ next >= 1

(* A row of the template as the resolver gets it.                            *)
Sent(q, x) ==
    /\ x.kind = q.kind /\ x.type = q.type /\ x.block = q.block /\ x.path = Segments(q.path)
    /\ x.attrs = q.attrs /\ x.preventDestroy = q.preventDestroy

LEMMA TemplateRows ==
    ASSUME LoaderInv, pc = "done", result.kind = "template"
    PROVE  /\ IsList(result.template.resources)
           /\ \A q \in ToSet(result.template.resources) : IsRow(q) /\ RowShape(q) /\ q.path \in Seq(Name)
<1>1. Whole(config, RootEnd, result.template) /\ config \in Configs /\ RootEnd \in Ends
  BY DoneIs DEF RootEnd
<1>2. WellFormed(result.template)
  BY <1>1 DEF Whole, Partial
<1> QED BY <1>2 DEF WellFormed, AreRows, IsRow

LEMMA SentRow ==
    ASSUME NEW q, RowShape(q)
    PROVE  Sent(q, [q EXCEPT !.path = Segments(@)])
<1> DEFINE x == [kind |-> q.kind, type |-> q.type, block |-> q.block, path |-> Segments(q.path),
                 attrs |-> q.attrs, reasons |-> q.reasons, preventDestroy |-> q.preventDestroy]
<1>1. [q EXCEPT !.path = Segments(@)] = x
  BY DEF RowShape
<1> QED BY <1>1 DEF Sent

LEMMA HandedIs ==
    ASSUME LoaderInv, pc = "done", result.kind = "template", NEW s, s = Handed(result.template)
    PROVE  /\ Len(s) \in Nat /\ DOMAIN s = 1 .. Len(s) /\ DOMAIN s = DOMAIN result.template.resources
           /\ \A i \in DOMAIN s : Sent(result.template.resources[i], s[i]) /\ s[i].path \in Places
<1> DEFINE t == result.template.resources
           n == Len(t)
<1>1. n \in Nat /\ DOMAIN t = 1 .. n /\ \A i \in 1 .. n : RowShape(t[i]) /\ t[i].path \in Seq(Name)
  BY TemplateRows DEF IsList, ToSet
<1>2. s = [i \in 1 .. n |-> s[i]] /\ \A i \in 1 .. n : s[i] = [t[i] EXCEPT !.path = Segments(@)]
  BY <1>1 DEF Handed
<1> HIDE DEF t, n
<1>3. IsList(s) /\ Len(s) = n
  BY <1>1, <1>2, MadeList
<1>4. \A i \in 1 .. n : Sent(t[i], s[i])
  BY <1>1, <1>2, SentRow
<1>5. \A i \in 1 .. n : s[i].path \in Places
  BY <1>1, <1>4 DEF Sent, Places
<1> QED BY <1>1, <1>3, <1>4, <1>5 DEF IsList, t

(* The catalogs list their conditionals.                                     *)
LEMMA ListedProjections ==
    ASSUME NEW conds, Len(conds) \in Nat, DOMAIN conds = 1 .. Len(conds)
    PROVE  /\ IsList(Resolver!projectConditionals(conds))
           /\ IsList(Resolver!projectDataSourceConditionals(conds))
<1> DEFINE n == Len(conds)
           s == Resolver!projectConditionals(conds)
           t == Resolver!projectDataSourceConditionals(conds)
<1>1. s = [i \in 1 .. n |-> s[i]]
  BY DEF Resolver!projectConditionals
<1>2. t = [i \in 1 .. n |-> t[i]]
  BY DEF Resolver!projectDataSourceConditionals
<1> HIDE DEF s, t
<1> QED BY <1>1, <1>2, MadeList DEF s, t

LEMMA ConditionalsListed ==
    ASSUME cat \in Catalogs, NEW x, Resolver!Found(cat, x)
    PROVE  IsList(EntryOf(x).conditionals)
<1>1. Resolver!IsCatalog(cat)
  BY EntriesAssumption DEF Resolver!Found
<1> DEFINE e == IF Resolver!InDataSources(cat, x) THEN cat.DataSources[x.type]
                ELSE IF Resolver!InResources(cat, x) THEN cat.Resources[x.type] ELSE cat.IAMBindings[x.type]
<1>2. e \in Resolver!DataSourceEntry \/ e \in Resolver!ResourceEntry
  BY <1>1 DEF Resolver!IsCatalog, Resolver!IsMap, Resolver!Found, Resolver!InDataSources, Resolver!InResources,
              Resolver!InIAMBindings
<1>3. Len(e.conditionals) \in Nat /\ DOMAIN e.conditionals = 1 .. Len(e.conditionals)
  <2>1. e.conditionals \in Seq(Resolver!DataSourceConditional) \/ e.conditionals \in Seq(Resolver!Conditional)
    BY <1>2 DEF Resolver!DataSourceEntry, Resolver!ResourceEntry
  <2> HIDE DEF e
  <2> QED BY <2>1
<1>4. \/ EntryOf(x).conditionals = Resolver!projectDataSourceConditionals(e.conditionals)
      \/ EntryOf(x).conditionals = Resolver!projectConditionals(e.conditionals)
  BY DEF EntryOf, Resolver!lookupEntry
<1> HIDE DEF e
<1> QED BY <1>3, <1>4, ListedProjections

(* Different keys, or the same path.                                         *)
LEMMA PathsTold ==
    ASSUME NEW p \in Places, NEW q \in Places, Resolver!encodeModulePath(p) = Resolver!encodeModulePath(q)
    PROVE  p = q
BY EncodedTells DEF Places

LEMMA PutIs ==
    ASSUME NEW m, NEW k, NEW v
    PROVE  /\ k \in DOMAIN Resolver!Put(m, k, v) /\ Resolver!Put(m, k, v)[k] = v
           /\ \A j \in DOMAIN m : j \in DOMAIN Resolver!Put(m, k, v) /\ (j # k => Resolver!Put(m, k, v)[j] = m[j])
BY DEF Resolver!Put

LEMMA PutAllIs ==
    ASSUME NEW m, NEW K, NEW f
    PROVE  /\ \A k \in K : k \in DOMAIN Resolver!PutAll(m, K, f) /\ Resolver!PutAll(m, K, f)[k] = f[k]
           /\ \A j \in DOMAIN m : /\ j \in DOMAIN Resolver!PutAll(m, K, f)
                                  /\ j \notin K => Resolver!PutAll(m, K, f)[j] = m[j]
BY DEF Resolver!PutAll

LEMMA UnknownStays ==
    ASSUME NEW y, y.path \in Places, unknowns' = Resolver!Put(unknowns, Resolver!unknownKey(y), y.path)
    PROVE  /\ \A x : x.path \in Places /\ UnknownFor(x) => UnknownFor(x)'
           /\ UnknownFor(y)'
<1>1. UnknownFor(y)'
  BY PutIs DEF UnknownFor
<1>2. ASSUME NEW x, x.path \in Places, UnknownFor(x) PROVE UnknownFor(x)'
  <2> DEFINE k == Resolver!unknownKey(x)
             j == Resolver!unknownKey(y)
  <2>1. k \in DOMAIN unknowns /\ unknowns[k] = x.path
    BY <1>2 DEF UnknownFor
  <2>2. k = j => x.path = y.path
    <3>1. k.pathKey = Resolver!encodeModulePath(x.path) /\ j.pathKey = Resolver!encodeModulePath(y.path)
      BY DEF Resolver!unknownKey
    <3> HIDE DEF k, j
    <3> QED BY <1>2, <3>1, PathsTold
  <2>3. Resolver!unknownKey(x)' = Resolver!unknownKey(x)
    BY DEF Resolver!unknownKey
  <2> HIDE DEF k, j
  <2>4. k \in DOMAIN unknowns' /\ unknowns'[k] = x.path
    BY <2>1, <2>2, PutIs DEF j
  <2> QED BY <2>4 DEF UnknownFor, k
<1> QED BY <1>1, <1>2

KeysFor(y, A) == {Resolver!unresolvedRecordKey(y, a) : a \in A}
ReasonsFor(y, A) ==
    [k \in KeysFor(y, A) |-> [path |-> y.path, reason |-> Resolver!unresolvedReasonFor(y, k.attr)]]

LEMMA NamedStays ==
    ASSUME NEW y, y.path \in Places, NEW A, unresolved' = Resolver!PutAll(unresolved, KeysFor(y, A), ReasonsFor(y, A))
    PROVE  /\ \A x : x.path \in Places => \A a : NamedFor(x, a) => NamedFor(x, a)'
           /\ \A a \in A : NamedFor(y, a)'
<1>0. \A k \in KeysFor(y, A) : ReasonsFor(y, A)[k].path = y.path
  BY DEF ReasonsFor
<1>1. ASSUME NEW a \in A PROVE NamedFor(y, a)'
  <2>1. Resolver!unresolvedRecordKey(y, a) \in KeysFor(y, A)
    BY DEF KeysFor
  <2> QED BY <1>0, <2>1, PutAllIs DEF NamedFor
<1>2. ASSUME NEW x, x.path \in Places, NEW a, NamedFor(x, a) PROVE NamedFor(x, a)'
  <2> DEFINE k == Resolver!unresolvedRecordKey(x, a)
  <2>1. k \in DOMAIN unresolved /\ unresolved[k].path = x.path
    BY <1>2 DEF NamedFor
  <2>2. k \in KeysFor(y, A) => x.path = y.path
    <3>1. SUFFICES ASSUME NEW b \in A, k = Resolver!unresolvedRecordKey(y, b) PROVE x.path = y.path
      BY DEF KeysFor
    <3>2. k.pathKey = Resolver!encodeModulePath(x.path)
      BY DEF Resolver!unresolvedRecordKey
    <3>3. k.pathKey = Resolver!encodeModulePath(y.path)
      BY <3>1 DEF Resolver!unresolvedRecordKey
    <3> HIDE DEF k
    <3> QED BY <1>2, <3>2, <3>3, PathsTold
  <2> HIDE DEF k
  <2>3. k \in DOMAIN unresolved' /\ unresolved'[k].path = x.path
    BY <1>0, <2>1, <2>2, PutAllIs
  <2> QED BY <2>3 DEF NamedFor, k
<1> QED BY <1>1, <1>2

(* The row of a resource: what it asks when it is opened, and what more.     *)
LEMMA RowOpens ==
    ASSUME NEW x, NEW ps, NEW w,
           w = LET split == Resolver!splitPermStrings(ps, x.preventDestroy, excludeDelete)
               IN  [type |-> x.type, block |-> x.block, path |-> x.path,
                    BasePlan |-> split.Plan, BaseApplyOnly |-> split.ApplyOnly, Applied |-> <<>>]
    PROVE  /\ RowMade(w) /\ w.block = x.block /\ w.path = x.path
           /\ \A p \in Asks(w) : p \in Giving(x, ps)
<1> DEFINE split == Resolver!splitPermStrings(ps, x.preventDestroy, excludeDelete)
<1>1. split.Plan \subseteq Giving(x, ps) /\ split.ApplyOnly \subseteq Giving(x, ps)
  BY DEF Resolver!splitPermStrings, Giving
<1> HIDE DEF split
<1>2. w = [type |-> x.type, block |-> x.block, path |-> x.path,
           BasePlan |-> split.Plan, BaseApplyOnly |-> split.ApplyOnly, Applied |-> <<>>]
  BY DEF split
<1>3. /\ w.type = x.type /\ w.block = x.block /\ w.path = x.path
      /\ w.BasePlan = split.Plan /\ w.BaseApplyOnly = split.ApplyOnly /\ w.Applied = <<>>
  BY <1>2
<1>4. IsList(<<>>) /\ DOMAIN <<>> = {}
  BY DEF IsList
<1>5. RowMade(w)
  BY <1>2, <1>3, <1>4 DEF RowMade
<1>6. Resolver!RowPlan(w) = split.Plan /\ Resolver!RowApplyOnly(w) = split.ApplyOnly
  BY <1>3, <1>4 DEF Resolver!RowPlan, Resolver!RowApplyOnly
<1> QED BY <1>1, <1>3, <1>5, <1>6 DEF Asks

Wider(v, w, a) ==
    /\ RowMade(v) /\ v.block = w.block /\ v.path = w.path
    /\ \A p \in Asks(v) : p \in Asks(w) \/ p \in a.Plan \/ p \in a.ApplyOnly

LEMMA RowWidens ==
    ASSUME NEW w, RowMade(w), NEW a, NEW v, v = [w EXCEPT !.Applied = Append(@, a)]
    PROVE  Wider(v, w, a)
<1> DEFINE s == Append(w.Applied, a)
           n == Len(w.Applied)
<1>1. v = [type |-> w.type, block |-> w.block, path |-> w.path,
           BasePlan |-> w.BasePlan, BaseApplyOnly |-> w.BaseApplyOnly, Applied |-> s]
  BY DEF RowMade
<1>2. IsList(w.Applied)
  BY DEF RowMade
<1>3. IsList(s) /\ ToSet(s) = ToSet(w.Applied) \union {a}
  BY <1>2, LongerList
<1> HIDE DEF s
<1>4. /\ v.type = w.type /\ v.block = w.block /\ v.path = w.path
      /\ v.BasePlan = w.BasePlan /\ v.BaseApplyOnly = w.BaseApplyOnly /\ v.Applied = s
  BY <1>1
<1>5. RowMade(v)
  BY <1>1, <1>3, <1>4 DEF RowMade
<1>6. \A i \in DOMAIN s : s[i] = a \/ \E j \in DOMAIN w.Applied : w.Applied[j] = s[i]
  BY <1>3 DEF ToSet
<1>7. ASSUME NEW p \in Asks(v) PROVE p \in Asks(w) \/ p \in a.Plan \/ p \in a.ApplyOnly
  <2>1. \/ p \in w.BasePlan \/ p \in w.BaseApplyOnly
        \/ \E i \in DOMAIN s : p \in s[i].Plan \/ p \in s[i].ApplyOnly
    BY <1>4, <1>7 DEF Asks, Resolver!RowPlan, Resolver!RowApplyOnly
  <2>2. CASE p \in w.BasePlan \/ p \in w.BaseApplyOnly
    BY <2>2 DEF Asks, Resolver!RowPlan, Resolver!RowApplyOnly
  <2>3. CASE \E i \in DOMAIN s : p \in s[i].Plan \/ p \in s[i].ApplyOnly
    <3>1. PICK i \in DOMAIN s : p \in s[i].Plan \/ p \in s[i].ApplyOnly
      BY <2>3
    <3>2. CASE s[i] = a
      BY <3>1, <3>2
    <3>3. CASE \E j \in DOMAIN w.Applied : w.Applied[j] = s[i]
      <4>1. PICK j \in DOMAIN w.Applied : w.Applied[j] = s[i]
        BY <3>3
      <4>2. p \in w.Applied[j].Plan \/ p \in w.Applied[j].ApplyOnly
        BY <3>1, <4>1
      <4> QED BY <4>2 DEF Asks, Resolver!RowPlan, Resolver!RowApplyOnly
    <3> QED BY <1>6, <3>2, <3>3
  <2> QED BY <2>1, <2>2, <2>3
<1> QED BY <1>4, <1>5, <1>7 DEF Wider

(* What is settled stays so.                                                 *)
GoesOn ==
    /\ resources' = resources /\ cat' = cat /\ excludeDelete' = excludeDelete
    /\ plan \subseteq plan' /\ apply \subseteq apply'
    /\ \A x : x.path \in Places => (UnknownFor(x) => UnknownFor(x)') /\ \A a : NamedFor(x, a) => NamedFor(x, a)'

LEMMA SameReadings ==
    ASSUME cat' = cat, excludeDelete' = excludeDelete
    PROVE  /\ \A x : EntryOf(x)' = EntryOf(x)
           /\ \A x, ps : Giving(x, ps)' = Giving(x, ps)
           /\ \A x, c : VerdictOn(x, c)' = VerdictOn(x, c)
           /\ \A x : Resolver!Found(cat, x)' <=> Resolver!Found(cat, x)
           /\ \A x, p : AskedBy(x, p)' <=> AskedBy(x, p)
           /\ \A w, x : Justified(w, x)' <=> Justified(w, x)
<1>1. \A x : EntryOf(x)' = EntryOf(x)
  BY DEF EntryOf
<1>2. \A x, ps : Giving(x, ps)' = Giving(x, ps)
  BY DEF Giving
<1>3. \A x, c : VerdictOn(x, c)' = VerdictOn(x, c)
  BY DEF VerdictOn
<1>4. \A x : Resolver!Found(cat, x)' <=> Resolver!Found(cat, x)
  OBVIOUS
<1>5. \A x, p : AskedBy(x, p)' <=> AskedBy(x, p)
  BY <1>1, <1>2, <1>3 DEF AskedBy
<1>6. \A w, x : Justified(w, x)' <=> Justified(w, x)
  BY <1>4, <1>5 DEF Justified, MappedKind, Asks
<1> QED BY <1>1, <1>2, <1>3, <1>4, <1>5, <1>6

LEMMA EnteredStays ==
    ASSUME GoesOn, NEW x, x.path \in Places
    PROVE  /\ \A ps : Entered(x, ps) => Entered(x, ps)'
           /\ \A c : Tried(x, c) => Tried(x, c)'
           /\ Settled(x) => Settled(x)'
<1>1. \A ps : Entered(x, ps) => Entered(x, ps)'
  BY SameReadings DEF Entered, GoesOn
<1>2. \A c : Tried(x, c) => Tried(x, c)'
  BY <1>1, SameReadings DEF Tried, GoesOn
<1>3. UnknownFor(x) => UnknownFor(x)'
  BY DEF GoesOn
<1>4. EntryOf(x)' = EntryOf(x) /\ (Resolver!Found(cat, x)' <=> Resolver!Found(cat, x))
  BY SameReadings DEF GoesOn
<1> QED BY <1>1, <1>2, <1>3, <1>4 DEF Settled

ListGiven ==
    /\ Len(resources) \in Nat /\ DOMAIN resources = 1 .. Len(resources)
    /\ \A i \in DOMAIN resources : resources[i].path \in Places

LEMMA ResourceHere ==
    ASSUME ListGiven, next \in Nat, next >= 1, next <= Len(resources)
    PROVE  next \in DOMAIN resources /\ resources[next].path \in Places
BY DEF ListGiven

LEMMA StepGoesOn ==
    ASSUME ListGiven, PassInv, next >= 1, Resolver!Next
    PROVE  GoesOn
<1> USE DEF Resolver!args
<1>1. CASE Resolver!SkipKind
  BY <1>1 DEF Resolver!SkipKind, GoesOn, UnknownFor, NamedFor
<1>2. CASE Resolver!RecordUnknown
  <2>1. PICK y : y = resources[next]
    OBVIOUS
  <2>2. unknowns' = Resolver!Put(unknowns, Resolver!unknownKey(y), y.path)
    BY <1>2, <2>1 DEF Resolver!RecordUnknown, Resolver!r
  <2>3. y.path \in Places
    BY <1>2, <2>1, ResourceHere DEF Resolver!RecordUnknown, Resolver!AtResource, PassInv
  <2>4. \A x : x.path \in Places /\ UnknownFor(x) => UnknownFor(x)'
    BY <2>2, <2>3, UnknownStays
  <2>5. \A x, a : NamedFor(x, a) => NamedFor(x, a)'
    BY <1>2 DEF Resolver!RecordUnknown, NamedFor
  <2>6. resources' = resources /\ cat' = cat /\ excludeDelete' = excludeDelete /\ plan' = plan /\ apply' = apply
    BY <1>2 DEF Resolver!RecordUnknown
  <2> QED BY <2>4, <2>5, <2>6 DEF GoesOn
<1>3. CASE Resolver!OpenResource \/ Resolver!ApplyConditional
  <2>1. resources' = resources /\ cat' = cat /\ excludeDelete' = excludeDelete /\ unknowns' = unknowns /\ unresolved' = unresolved
    BY <1>3 DEF Resolver!OpenResource, Resolver!ApplyConditional
  <2>2. plan \subseteq plan' /\ apply \subseteq apply'
    BY <1>3 DEF Resolver!OpenResource, Resolver!ApplyConditional, Resolver!applyPermissionSet
  <2> QED BY <2>1, <2>2 DEF GoesOn, UnknownFor, NamedFor
<1>4. CASE Resolver!ReportMissing
  <2>1. PICK y : y = resources[next]
    OBVIOUS
  <2>2. PICK A : A = Resolver!Outcome.missing
    OBVIOUS
  <2>3. unresolved' = Resolver!PutAll(unresolved, KeysFor(y, A), ReasonsFor(y, A))
    BY <1>4, <2>1, <2>2 DEF Resolver!ReportMissing, Resolver!r, KeysFor, ReasonsFor
  <2>4. y.path \in Places
    BY <1>4, <2>1 DEF Resolver!ReportMissing, Resolver!AtConditional, PassInv, AtWork, ListGiven
  <2>5. \A x : x.path \in Places => \A a : NamedFor(x, a) => NamedFor(x, a)'
    BY <2>3, <2>4, NamedStays
  <2>6. \A x : UnknownFor(x) => UnknownFor(x)'
    BY <1>4 DEF Resolver!ReportMissing, UnknownFor
  <2>7. resources' = resources /\ cat' = cat /\ excludeDelete' = excludeDelete /\ plan' = plan /\ apply' = apply
    BY <1>4 DEF Resolver!ReportMissing
  <2> QED BY <2>5, <2>6, <2>7 DEF GoesOn
<1>5. CASE Resolver!RejectConditional
  BY <1>5 DEF Resolver!RejectConditional, GoesOn, UnknownFor, NamedFor
<1>6. CASE Resolver!CloseResource
  BY <1>6 DEF Resolver!CloseResource, GoesOn, UnknownFor, NamedFor
<1>7. CASE Resolver!Finish
  BY <1>7 DEF Resolver!Finish, GoesOn, UnknownFor, NamedFor
<1> QED BY <1>1, <1>2, <1>3, <1>4, <1>5, <1>6, <1>7 DEF Resolver!Next

(* What the resolver has settled stays settled.                             *)
LEMMA PassGoesOn ==
    ASSUME ListGiven, PassInv, GoesOn
    PROVE  /\ \A i \in DOMAIN resources : i < next => Settled(resources[i])'
           /\ \A w \in ToSet(results) : \E i \in DOMAIN resources : Justified(w, resources[i])'
<1>1. ASSUME NEW i \in DOMAIN resources, i < next PROVE Settled(resources[i])'
  <2>1. PICK x : x = resources[i]
    OBVIOUS
  <2>2. Settled(x) /\ x.path \in Places
    BY <1>1, <2>1 DEF PassInv, ListGiven
  <2>3. Settled(x)' /\ x = resources'[i]
    BY <2>1, <2>2, EnteredStays DEF GoesOn
  <2> QED BY <2>3
<1>2. ASSUME NEW w \in ToSet(results) PROVE \E i \in DOMAIN resources : Justified(w, resources[i])'
  <2>1. PICK i \in DOMAIN resources : Justified(w, resources[i])
    BY DEF PassInv
  <2>2. PICK x : x = resources[i]
    OBVIOUS
  <2>3. Justified(w, x)' /\ x = resources'[i]
    BY <2>1, <2>2, SameReadings DEF GoesOn
  <2> QED BY <2>1, <2>3
<1> QED BY <1>1, <1>2

(* Where the pass is after a step that moves on to the next resource ...     *)
LEMMA PassMoves ==
    ASSUME ListGiven, PassInv, next >= 1, GoesOn, NEW n \in DOMAIN resources, n = next, NEW x, x = resources[n],
           next' = next + 1, Settled(x)', rpc' = "resource", IsList(results'),
           \A w \in ToSet(results)' : w \in ToSet(results) \/ Justified(w, x)'
    PROVE  PassInv' /\ next' >= 1
<1>1. next' \in Nat /\ next' >= 1 /\ \A i \in DOMAIN resources : i < next' => i < next \/ i = n
  BY DEF PassInv, ListGiven
<1>2. resources' = resources
  BY DEF GoesOn
<1>3. Settled(resources[n])'
  BY <1>2
<1>4. \A i \in DOMAIN resources : i < next' => Settled(resources[i])'
  BY <1>1, <1>3, PassGoesOn
<1>5. \A w \in ToSet(results)' : \E i \in DOMAIN resources : Justified(w, resources[i])'
  <2> TAKE w \in ToSet(results)'
  <2>1. CASE w \in ToSet(results)
    BY <2>1, PassGoesOn
  <2>2. CASE Justified(w, x)'
    <3>1. Justified(w, resources[n])'
      BY <1>2, <2>2
    <3> QED BY <3>1
  <2> QED BY <2>1, <2>2
<1>6. rpc' # "conditional" /\ rpc' # "done"
  OBVIOUS
<1> QED BY <1>1, <1>2, <1>4, <1>5, <1>6 DEF PassInv

(* ... and after one that goes on with the resource.                         *)
LEMMA PassStays ==
    ASSUME ListGiven, PassInv, next >= 1, GoesOn, next' = next, results' = results, rpc' = "conditional", AtWork'
    PROVE  PassInv' /\ next' >= 1
<1>1. next' \in Nat /\ next' >= 1 /\ IsList(results')
  BY DEF PassInv
<1>2. \A i \in DOMAIN resources : i < next' => Settled(resources[i])'
  BY PassGoesOn
<1>3. \A w \in ToSet(results)' : \E i \in DOMAIN resources : Justified(w, resources[i])'
  <2>1. ToSet(results)' = ToSet(results)
    BY DEF ToSet
  <2> QED BY <2>1, PassGoesOn
<1>4. resources' = resources
  BY DEF GoesOn
<1>5. rpc' # "done"
  OBVIOUS
<1> QED BY <1>1, <1>2, <1>3, <1>4, <1>5 DEF PassInv

LEMMA PassSkips ==
    ASSUME ListGiven, PassInv, next >= 1, Resolver!SkipKind \/ Resolver!RecordUnknown
    PROVE  PassInv' /\ next' >= 1
<1>1. GoesOn
  BY StepGoesOn DEF Resolver!Next
<1>2. PICK n : n = next
  OBVIOUS
<1>3. PICK x : x = resources[n]
  OBVIOUS
<1>4. next' = next + 1 /\ rpc' = "resource" /\ results' = results /\ next <= Len(resources)
  BY DEF Resolver!SkipKind, Resolver!RecordUnknown, Resolver!AtResource
<1>5. n \in DOMAIN resources /\ x.path \in Places
  BY <1>2, <1>3, <1>4, ResourceHere DEF PassInv
<1>6. Settled(x)'
  <2>1. CASE Resolver!SkipKind
    <3>1. ~MappedKind(x)
      BY <1>2, <1>3, <2>1 DEF Resolver!SkipKind, Resolver!Mapped, Resolver!r, MappedKind
    <3> QED BY <3>1 DEF Settled, MappedKind
  <2>2. CASE Resolver!RecordUnknown
    <3>1. ~Resolver!Found(cat, x) /\ unknowns' = Resolver!Put(unknowns, Resolver!unknownKey(x), x.path)
      BY <1>2, <1>3, <2>2 DEF Resolver!RecordUnknown, Resolver!r
    <3>2. UnknownFor(x)'
      BY <1>5, <3>1, UnknownStays
    <3>3. ~Resolver!Found(cat, x)'
      BY <1>1, <3>1, SameReadings DEF GoesOn
    <3> QED BY <3>2, <3>3 DEF Settled
  <2> QED BY <2>1, <2>2
<1>7. IsList(results') /\ \A w \in ToSet(results)' : w \in ToSet(results)
  BY <1>4 DEF PassInv, ToSet
<1> QED BY <1>1, <1>2, <1>3, <1>4, <1>5, <1>6, <1>7, PassMoves

LEMMA PassOpens ==
    ASSUME ListGiven, PassInv, next >= 1, cat \in Catalogs, Resolver!OpenResource
    PROVE  PassInv' /\ next' >= 1
<1>1. GoesOn
  BY StepGoesOn DEF Resolver!Next
<1>2. PICK n : n = next
  OBVIOUS
<1>3. PICK x : x = resources[n]
  OBVIOUS
<1>4. PICK e : e = EntryOf(x)
  OBVIOUS
<1>5. /\ next' = next /\ rpc' = "conditional" /\ results' = results /\ next <= Len(resources)
      /\ MappedKind(x) /\ Resolver!Found(cat, x) /\ cond' = 1 /\ resources' = resources
      /\ cat' = cat /\ excludeDelete' = excludeDelete
  BY <1>2, <1>3 DEF Resolver!OpenResource, Resolver!AtResource, Resolver!Mapped, Resolver!r, Resolver!args, MappedKind
<1>6. entry' = e
  BY <1>2, <1>3, <1>4 DEF Resolver!OpenResource, Resolver!r, EntryOf
<1>7. plan' = plan \union e.base.Plan /\ apply' = apply \union Resolver!ApplyStage(e.base, x.preventDestroy, excludeDelete)
  BY <1>2, <1>3, <1>6 DEF Resolver!OpenResource, Resolver!applyPermissionSet, Resolver!r
<1>8. row' = LET split == Resolver!splitPermStrings(e.base, x.preventDestroy, excludeDelete)
             IN  [type |-> x.type, block |-> x.block, path |-> x.path,
                  BasePlan |-> split.Plan, BaseApplyOnly |-> split.ApplyOnly, Applied |-> <<>>]
  BY <1>2, <1>3, <1>6 DEF Resolver!OpenResource, Resolver!r
<1>9. EntryOf(x)' = e /\ Resolver!Found(cat, x)'
  BY <1>4, <1>5, SameReadings
<1>10. n \in DOMAIN resources
  BY <1>2, <1>5, ResourceHere DEF PassInv
<1>11. Entered(x, e.base)'
  <2>1. Giving(x, e.base) \subseteq plan' \union apply'
    BY <1>7 DEF Giving
  <2> QED BY <1>5, <2>1, SameReadings DEF Entered
<1>12. RowMade(row') /\ Justified(row, x)'
  <2>1. PICK w : w = row'
    OBVIOUS
  <2>2. /\ RowMade(w) /\ w.block = x.block /\ w.path = x.path
        /\ \A p \in Asks(w) : p \in Giving(x, e.base)
    BY <1>8, <2>1, RowOpens
  <2>3. Justified(w, x)
    BY <1>4, <1>5, <2>2 DEF Justified, AskedBy
  <2>4. Justified(w, x)'
    BY <1>5, <2>3, SameReadings
  <2> QED BY <2>1, <2>2, <2>4
<1>13. \A j \in DOMAIN e.conditionals : ~(j < 1)
  <2>1. IsList(e.conditionals)
    BY <1>4, <1>5, ConditionalsListed
  <2> QED BY <2>1 DEF IsList
<1>14. AtWork'
  BY <1>2, <1>3, <1>5, <1>6, <1>9, <1>10, <1>11, <1>12, <1>13 DEF AtWork, MappedKind
<1> QED BY <1>1, <1>5, <1>14, PassStays

(* One more conditional is tried: the row may widen by what it gives.        *)
LEMMA PassTries ==
    ASSUME ListGiven, PassInv, next >= 1, GoesOn, rpc = "conditional", NEW x, x = resources[next],
           NEW c, c = EntryOf(x).conditionals[cond], Tried(x, c)',
           next' = next, results' = results, rpc' = "conditional", entry' = entry, cond' = cond + 1,
           cond \in DOMAIN EntryOf(x).conditionals, IsList(EntryOf(x).conditionals),
           \/ row' = row
           \/ /\ VerdictOn(x, c).matched
              /\ row' = LET split == Resolver!splitPermStrings(c.permissions, x.preventDestroy, excludeDelete)
                        IN  [row EXCEPT !.Applied = Append(@,
                               [When |-> c.when, Plan |-> split.Plan, ApplyOnly |-> split.ApplyOnly])]
    PROVE  PassInv' /\ next' >= 1
<1>1. AtWork
  BY DEF PassInv
<1>2. PICK n : n = next
  OBVIOUS
<1>3. PICK e : e = EntryOf(x)
  OBVIOUS
<1>4. PICK k : k = cond
  OBVIOUS
<1>5. /\ n \in DOMAIN resources /\ MappedKind(x) /\ Resolver!Found(cat, x) /\ entry = e
      /\ k \in Nat \ {0} /\ Entered(x, e.base)
      /\ \A j \in DOMAIN e.conditionals : j < k => Tried(x, e.conditionals[j])
      /\ RowMade(row) /\ Justified(row, x)
  BY <1>1, <1>2, <1>3, <1>4 DEF AtWork
<1>6. /\ resources' = resources /\ cat' = cat /\ excludeDelete' = excludeDelete /\ x.path \in Places
  BY <1>2, <1>5 DEF GoesOn, ListGiven
<1>7. EntryOf(x)' = e /\ Resolver!Found(cat, x)' /\ x = resources'[next']
  BY <1>3, <1>5, <1>6, SameReadings
<1>8. Entered(x, e.base)'
  BY <1>5, <1>6, EnteredStays
<1>9. \A j \in DOMAIN e.conditionals : j < cond' => Tried(x, e.conditionals[j])'
  <2> TAKE j \in DOMAIN e.conditionals
  <2>1. j \in Nat
    BY <1>3 DEF IsList
  <2>2. CASE j < k
    BY <1>5, <1>6, <2>2, EnteredStays
  <2>3. CASE j = k
    BY <1>3, <1>4, <2>3
  <2> QED BY <1>4, <1>5, <2>1, <2>2, <2>3
<1>10. RowMade(row') /\ Justified(row, x)'
  <2>1. PICK w : w = row
    OBVIOUS
  <2>2. PICK v : v = row'
    OBVIOUS
  <2>3. RowMade(w) /\ Justified(w, x)
    BY <1>5, <2>1
  <2>4. CASE v = w
    BY <1>6, <2>1, <2>2, <2>3, <2>4, SameReadings
  <2>5. CASE v # w
    <3> DEFINE split == Resolver!splitPermStrings(c.permissions, x.preventDestroy, excludeDelete)
               a == [When |-> c.when, Plan |-> split.Plan, ApplyOnly |-> split.ApplyOnly]
    <3>1. VerdictOn(x, c).matched /\ v = [w EXCEPT !.Applied = Append(@, a)]
      BY <2>1, <2>2, <2>5
    <3>2. \A p : p \in a.Plan \/ p \in a.ApplyOnly => p \in Giving(x, c.permissions)
      BY DEF Resolver!splitPermStrings, Giving
    <3> HIDE DEF split, a
    <3>6. Wider(v, w, a)
      BY <2>3, <3>1, RowWidens
    <3>3. /\ RowMade(v) /\ v.block = w.block /\ v.path = w.path
          /\ \A p \in Asks(v) : p \in Asks(w) \/ p \in a.Plan \/ p \in a.ApplyOnly
      BY <3>6 DEF Wider
    <3>4. \A p \in Giving(x, c.permissions) : AskedBy(x, p)
      BY <3>1 DEF AskedBy
    <3>5. Justified(v, x)
      BY <2>3, <3>2, <3>3, <3>4 DEF Justified
    <3> QED BY <1>6, <2>2, <3>3, <3>5, SameReadings
  <2> QED BY <2>4, <2>5
<1>11. cond' \in Nat \ {0} /\ entry' = e /\ next' \in DOMAIN resources'
  BY <1>2, <1>4, <1>5, <1>6
<1>12. AtWork'
  BY <1>5, <1>7, <1>8, <1>9, <1>10, <1>11 DEF AtWork, MappedKind
<1> QED BY <1>12, PassStays

LEMMA PassGoesThrough ==
    ASSUME ListGiven, PassInv, next >= 1, cat \in Catalogs,
           Resolver!ApplyConditional \/ Resolver!ReportMissing \/ Resolver!RejectConditional
    PROVE  PassInv' /\ next' >= 1
<1>1. GoesOn
  BY StepGoesOn DEF Resolver!Next
<1>2. PICK x : x = resources[next]
  OBVIOUS
<1>3. PICK c : c = EntryOf(x).conditionals[cond]
  OBVIOUS
<1>4. /\ next' = next /\ results' = results /\ rpc = "conditional" /\ rpc' = "conditional" /\ entry' = entry
      /\ cond' = cond + 1 /\ cond <= Len(entry.conditionals) /\ cat' = cat /\ excludeDelete' = excludeDelete
  BY DEF Resolver!ApplyConditional, Resolver!ReportMissing, Resolver!RejectConditional, Resolver!AtConditional,
         Resolver!args
<1>5. /\ entry = EntryOf(x) /\ cond \in Nat \ {0} /\ Resolver!Found(cat, x) /\ x.path \in Places
  BY <1>2, <1>4 DEF PassInv, AtWork, ListGiven
<1>6. IsList(EntryOf(x).conditionals)
  BY <1>5, ConditionalsListed
<1>7. cond \in DOMAIN EntryOf(x).conditionals
  <2>1. DOMAIN EntryOf(x).conditionals = 1 .. Len(EntryOf(x).conditionals) /\ Len(EntryOf(x).conditionals) \in Nat
    BY <1>6 DEF IsList
  <2> QED BY <1>4, <1>5, <2>1
<1>8. Resolver!Outcome = VerdictOn(x, c) /\ Resolver!Current = c /\ Resolver!r = x
  BY <1>2, <1>3, <1>5 DEF Resolver!Outcome, Resolver!Current, Resolver!r, VerdictOn
<1>9. VerdictOn(x, c).matched => VerdictOn(x, c).missing = {}
  BY DEF VerdictOn, Resolver!matchesConditional
<1>10. VerdictOn(x, c)' = VerdictOn(x, c)
  BY <1>4, SameReadings
<1>11. CASE Resolver!ApplyConditional
  <2>1. VerdictOn(x, c).matched
    BY <1>8, <1>11 DEF Resolver!ApplyConditional
  <2>2. /\ plan' = plan \union c.permissions.Plan
        /\ apply' = apply \union Resolver!ApplyStage(c.permissions, x.preventDestroy, excludeDelete)
    BY <1>8, <1>11 DEF Resolver!ApplyConditional, Resolver!applyPermissionSet
  <2>3. Giving(x, c.permissions) \subseteq plan' \union apply'
    BY <2>2 DEF Giving
  <2>4. Entered(x, c.permissions)'
    BY <1>4, <2>3, SameReadings DEF Entered
  <2>5. Tried(x, c)'
    BY <1>9, <1>10, <2>1, <2>4 DEF Tried
  <2>6. row' = LET split == Resolver!splitPermStrings(c.permissions, x.preventDestroy, excludeDelete)
               IN  [row EXCEPT !.Applied = Append(@,
                      [When |-> c.when, Plan |-> split.Plan, ApplyOnly |-> split.ApplyOnly])]
    BY <1>8, <1>11 DEF Resolver!ApplyConditional
  <2> QED BY <1>1, <1>2, <1>3, <1>4, <1>6, <1>7, <2>1, <2>5, <2>6, PassTries
<1>12. CASE Resolver!ReportMissing
  <2>1. PICK A : A = VerdictOn(x, c).missing
    OBVIOUS
  <2>2. A # {} /\ unresolved' = Resolver!PutAll(unresolved, KeysFor(x, A), ReasonsFor(x, A)) /\ row' = row
    BY <1>8, <1>12, <2>1 DEF Resolver!ReportMissing, KeysFor, ReasonsFor
  <2>3. \A a \in A : NamedFor(x, a)'
    BY <1>5, <2>2, NamedStays
  <2>4. Tried(x, c)'
    BY <1>9, <1>10, <2>1, <2>2, <2>3 DEF Tried
  <2> QED BY <1>1, <1>2, <1>3, <1>4, <1>6, <1>7, <2>2, <2>4, PassTries
<1>13. CASE Resolver!RejectConditional
  <2>1. ~VerdictOn(x, c).matched /\ VerdictOn(x, c).missing = {} /\ row' = row
    BY <1>8, <1>13 DEF Resolver!RejectConditional
  <2>2. Tried(x, c)'
    BY <1>10, <2>1 DEF Tried
  <2> QED BY <1>1, <1>2, <1>3, <1>4, <1>6, <1>7, <2>1, <2>2, PassTries
<1> QED BY <1>11, <1>12, <1>13

LEMMA PassCloses ==
    ASSUME ListGiven, PassInv, next >= 1, cat \in Catalogs, Resolver!CloseResource
    PROVE  PassInv' /\ next' >= 1
<1>1. GoesOn
  BY StepGoesOn DEF Resolver!Next
<1>2. PICK n : n = next
  OBVIOUS
<1>3. PICK x : x = resources[n]
  OBVIOUS
<1>4. /\ next' = next + 1 /\ rpc = "conditional" /\ rpc' = "resource" /\ results' = Append(results, row)
      /\ cond > Len(entry.conditionals) /\ cat' = cat /\ excludeDelete' = excludeDelete
  BY DEF Resolver!CloseResource, Resolver!args
<1>5. /\ n \in DOMAIN resources /\ entry = EntryOf(x) /\ cond \in Nat /\ Resolver!Found(cat, x) /\ x.path \in Places
      /\ Entered(x, EntryOf(x).base)
      /\ \A j \in DOMAIN EntryOf(x).conditionals : j < cond => Tried(x, EntryOf(x).conditionals[j])
      /\ Justified(row, x)
  BY <1>2, <1>3, <1>4 DEF PassInv, AtWork, ListGiven
<1>6. \A j \in DOMAIN EntryOf(x).conditionals : j < cond
  <2>1. IsList(EntryOf(x).conditionals)
    BY <1>5, ConditionalsListed
  <2>2. DOMAIN EntryOf(x).conditionals = 1 .. Len(EntryOf(x).conditionals) /\ Len(EntryOf(x).conditionals) \in Nat
    BY <2>1 DEF IsList
  <2> QED BY <1>4, <1>5, <2>2
<1>7. Settled(x)
  BY <1>5, <1>6 DEF Settled
<1>8. Settled(x)'
  BY <1>1, <1>5, <1>7, EnteredStays
<1>9. IsList(results') /\ \A w \in ToSet(results)' : w \in ToSet(results) \/ w = row
  <2>1. IsList(results)
    BY DEF PassInv
  <2>2. IsList(Append(results, row)) /\ ToSet(Append(results, row)) = ToSet(results) \union {row}
    BY <2>1, LongerList
  <2>3. ToSet(results)' = ToSet(Append(results, row))
    BY <1>4
  <2> QED BY <1>4, <2>2, <2>3
<1>10. \A w \in ToSet(results)' : w \in ToSet(results) \/ Justified(w, x)'
  BY <1>4, <1>5, <1>9, SameReadings
<1> QED BY <1>1, <1>2, <1>3, <1>4, <1>5, <1>8, <1>9, <1>10, PassMoves

LEMMA PassFinishes ==
    ASSUME ListGiven, PassInv, next >= 1, Resolver!Finish
    PROVE  PassInv' /\ next' >= 1
<1>1. GoesOn
  BY StepGoesOn DEF Resolver!Next
<1>2. /\ next' = next /\ next > Len(resources) /\ results' = results /\ rpc' = "done" /\ resources' = resources
      /\ plan' = plan /\ apply' = apply /\ unknowns' = unknowns /\ unresolved' = unresolved
      /\ answer' = [PlanPerms |-> plan, ApplyOnlyPerms |-> apply \ plan,
                    TotalApplyPerms |-> plan \union apply,
                    Unknowns |-> Resolver!UnknownRows, Unresolved |-> Resolver!UnresolvedRows,
                    Resources |-> results]
  BY DEF Resolver!Finish, Resolver!args
<1>3. AnswerBuilt'
  BY <1>2 DEF AnswerBuilt, Resolver!UnknownRows, Resolver!UnresolvedRows
<1>4. \A i \in DOMAIN resources : i < next' => Settled(resources[i])'
  BY <1>1, <1>2, PassGoesOn
<1>5. \A w \in ToSet(results)' : \E i \in DOMAIN resources : Justified(w, resources[i])'
  <2>1. ToSet(results)' = ToSet(results)
    BY <1>2 DEF ToSet
  <2> QED BY <1>1, <2>1, PassGoesOn
<1>6. next' \in Nat /\ IsList(results') /\ rpc' # "conditional"
  BY <1>2 DEF PassInv
<1> QED BY <1>2, <1>3, <1>4, <1>5, <1>6 DEF PassInv

LEMMA PassStepsOn ==
    ASSUME ListGiven, PassInv, next >= 1, cat \in Catalogs, Resolver!Next
    PROVE  PassInv' /\ next' >= 1
BY PassSkips, PassOpens, PassGoesThrough, PassCloses, PassFinishes DEF Resolver!Next

-----------------------------------------------------------------------------
(* The loader, then the resolver.                                            *)
LEMMA PassUnmoved == PassInv /\ UNCHANGED rvars => PassInv'
<1> SUFFICES ASSUME PassInv, UNCHANGED rvars PROVE PassInv'
  OBVIOUS
<1>1. /\ resources' = resources /\ cat' = cat /\ excludeDelete' = excludeDelete /\ rpc' = rpc /\ next' = next
      /\ cond' = cond /\ entry' = entry /\ row' = row /\ plan' = plan /\ apply' = apply
      /\ unknowns' = unknowns /\ unresolved' = unresolved /\ results' = results /\ answer' = answer
  BY DEF rvars
<1>2. \A x : UnknownFor(x)' <=> UnknownFor(x)
  BY <1>1 DEF UnknownFor
<1>3. \A x, a : NamedFor(x, a)' <=> NamedFor(x, a)
  BY <1>1 DEF NamedFor
<1>4. \A x, ps : Entered(x, ps)' <=> Entered(x, ps)
  BY <1>1, SameReadings DEF Entered
<1>5. \A x, c : Tried(x, c)' <=> Tried(x, c)
  BY <1>1, <1>3, <1>4, SameReadings DEF Tried
<1>6. \A x : Settled(x)' <=> Settled(x)
  BY <1>1, <1>2, <1>4, <1>5, SameReadings DEF Settled
<1>7. \A w, x : Justified(w, x)' <=> Justified(w, x)
  BY <1>1, SameReadings
<1>8. AtWork => AtWork'
  BY <1>1, <1>4, <1>5, <1>7, SameReadings DEF AtWork
<1>9. AnswerBuilt => AnswerBuilt'
  BY <1>1 DEF AnswerBuilt, Resolver!UnknownRows, Resolver!UnresolvedRows
<1>10. ToSet(results)' = ToSet(results)
  BY <1>1 DEF ToSet
<1> QED BY <1>1, <1>6, <1>7, <1>8, <1>9, <1>10 DEF PassInv

LEMMA PipelineStarts == PipelineInit => PipelineInv
<1> SUFFICES ASSUME PipelineInit PROVE PipelineInv
  OBVIOUS
<1>1. LoaderInv
  BY LoaderStarts DEF PipelineInit
<1>2. GivenInv
  BY DEF PipelineInit, GivenInv
<1>3. DOMAIN <<>> = {} /\ IsList(<<>>) /\ ToSet(<<>>) = {}
  BY DEF IsList, ToSet
<1>4. PassInv /\ next >= 1
  BY <1>3 DEF PipelineInit, PassInv
<1> QED BY <1>1, <1>2, <1>4 DEF PipelineInv

(* The loader does nothing once it is done.                                 *)
LEMMA LoadingOver == pc = "done" => ~Next
BY DEF Next, CacheHit, CycleFound, LoadFails, Expand, SkipNonLocal, EnterCall, WarnCycle, WarnLoad, Instantiate,
       CloseModule, Finish, AtCall, Returned

LEMMA StartFits == PipelineInv /\ StartResolve => PassInv' /\ GivenInv' /\ next' >= 1
<1> SUFFICES ASSUME PipelineInv, StartResolve PROVE PassInv' /\ GivenInv' /\ next' >= 1
  OBVIOUS
<1>1. /\ next = 1 /\ results = <<>> /\ pc = "done" /\ result.kind = "template"
      /\ resources' = Handed(result.template) /\ rpc' = "resource" /\ next' = next /\ results' = results
      /\ cat' = cat /\ excludeDelete' = excludeDelete /\ pc' = pc /\ result' = result
  BY DEF StartResolve, PipelineInv, GivenInv, Handed, vars
<1>2. GivenInv'
  BY <1>1 DEF GivenInv, PipelineInv, Handed
<1>3. \A i \in DOMAIN resources' : ~(i < next')
  <2>1. PICK s : s = resources'
    OBVIOUS
  <2>2. LoaderInv /\ s = Handed(result.template)
    BY <1>1, <2>1 DEF PipelineInv
  <2>3. Len(s) \in Nat /\ DOMAIN s = 1 .. Len(s)
    BY <1>1, <2>2, HandedIs
  <2> QED BY <1>1, <2>1, <2>3
<1>4. DOMAIN <<>> = {} /\ IsList(<<>>) /\ ToSet(<<>>) = {}
  BY DEF IsList, ToSet
<1>5. PassInv'
  <2>1. ToSet(results)' = {}
    BY <1>1, <1>4 DEF ToSet
  <2> QED BY <1>1, <1>3, <1>4, <2>1 DEF PassInv
<1> QED BY <1>1, <1>2, <1>5

LEMMA ResolveFits == PipelineInv /\ Resolve => PassInv' /\ GivenInv' /\ next' >= 1
<1> SUFFICES ASSUME PipelineInv, Resolve PROVE PassInv' /\ GivenInv' /\ next' >= 1
  OBVIOUS
<1>1. Resolver!Next /\ pc' = pc /\ result' = result
  BY DEF Resolve, vars
<1>2. /\ rpc \in {"resource", "conditional"} /\ rpc' \in {"resource", "conditional", "done"}
      /\ resources' = resources /\ cat' = cat /\ excludeDelete' = excludeDelete
  BY <1>1 DEF Resolver!Next, Resolver!args, Resolver!SkipKind, Resolver!RecordUnknown, Resolver!OpenResource,
              Resolver!ApplyConditional, Resolver!ReportMissing, Resolver!RejectConditional,
              Resolver!CloseResource, Resolver!Finish, Resolver!AtResource, Resolver!AtConditional
<1>3. /\ pc = "done" /\ result.kind = "template" /\ resources = Handed(result.template)
      /\ LoaderInv /\ PassInv /\ next >= 1 /\ cat \in Catalogs /\ excludeDelete \in BOOLEAN
  BY <1>2 DEF PipelineInv, GivenInv
<1>4. ListGiven
  <2>1. PICK s : s = resources
    OBVIOUS
  <2>2. s = Handed(result.template)
    BY <1>3, <2>1
  <2>3. Len(s) \in Nat /\ DOMAIN s = 1 .. Len(s) /\ \A i \in DOMAIN s : s[i].path \in Places
    BY <1>3, <2>2, HandedIs
  <2> QED BY <2>1, <2>3 DEF ListGiven
<1>5. PassInv' /\ next' >= 1
  BY <1>1, <1>3, <1>4, PassStepsOn
<1>6. GivenInv'
  BY <1>1, <1>2, <1>3 DEF GivenInv, Handed
<1> QED BY <1>5, <1>6

LEMMA PipelineSteps == PipelineInv /\ [PipelineNext]_<<vars, rvars>> => PipelineInv'
<1> SUFFICES ASSUME PipelineInv, [PipelineNext]_<<vars, rvars>> PROVE PipelineInv'
  OBVIOUS
<1>1. LoaderInv'
  <2>1. [Next]_vars
    BY DEF PipelineNext, Load, StartResolve, Resolve, vars
  <2> QED BY <2>1, LoaderSteps DEF PipelineInv
<1>2. CASE Load
  <2>1. UNCHANGED rvars /\ Next
    BY <1>2 DEF Load
  <2>2. pc # "done"
    BY <2>1, LoadingOver
  <2>3. rpc = "idle" /\ rpc' = "idle" /\ resources' = resources /\ next' = next /\ results' = results
        /\ cat' = cat /\ excludeDelete' = excludeDelete
    BY <2>1, <2>2 DEF PipelineInv, GivenInv, rvars
  <2>4. GivenInv'
    BY <2>3 DEF PipelineInv, GivenInv
  <2> QED BY <1>1, <2>1, <2>3, <2>4, PassUnmoved DEF PipelineInv
<1>3. CASE StartResolve
  BY <1>1, <1>3, StartFits DEF PipelineInv
<1>4. CASE Resolve
  BY <1>1, <1>4, ResolveFits DEF PipelineInv
<1>5. CASE UNCHANGED <<vars, rvars>>
  <2>1. UNCHANGED rvars /\ pc' = pc /\ result' = result
    BY <1>5 DEF vars
  <2>2. rpc' = rpc /\ resources' = resources /\ next' = next /\ results' = results
        /\ cat' = cat /\ excludeDelete' = excludeDelete
    BY <2>1 DEF rvars
  <2>3. GivenInv'
    BY <2>1, <2>2 DEF PipelineInv, GivenInv, Handed
  <2> QED BY <1>1, <2>1, <2>2, <2>3, PassUnmoved DEF PipelineInv
<1> QED BY <1>2, <1>3, <1>4, <1>5 DEF PipelineNext

(***************************************************************************)
(* The composition keeps its invariant: LoaderInv, what was handed over,   *)
(* and what the pass has made of the rows gone by.                         *)
(***************************************************************************)
THEOREM PipelineHolds == PipelineSpec => []PipelineInv
BY PipelineStarts, PipelineSteps, PTL DEF PipelineSpec

-----------------------------------------------------------------------------
(* A resource as the resolver got it against an instance of a world.         *)
Meant(r, x) ==
    /\ r.kind = x.kind /\ r.type = x.type /\ r.block = x.block /\ r.path = x.path
    /\ r.preventDestroy = x.preventDestroy
    /\ DOMAIN r.attrs = DOMAIN x.attrs
    /\ \A n \in DOMAIN r.attrs : r.attrs[n] # NilVal => x.attrs[n] = r.attrs[n]

LEMMA SentStands ==
    ASSUME NEW q, NEW r, Sent(q, r), NEW x, Stands(q, x)
    PROVE  Meant(r, x)
BY DEF Sent, Stands, Meant

LEMMA MeantLooksUp ==
    ASSUME NEW r, NEW x, Meant(r, x)
    PROVE  /\ Resolver!Found(cat, x) <=> Resolver!Found(cat, r)
           /\ EntryOf(x) = EntryOf(r)
<1>1. /\ Resolver!InResources(cat, x) <=> Resolver!InResources(cat, r)
      /\ Resolver!InIAMBindings(cat, x) <=> Resolver!InIAMBindings(cat, r)
      /\ Resolver!InDataSources(cat, x) <=> Resolver!InDataSources(cat, r)
  BY DEF Meant, Resolver!InResources, Resolver!InIAMBindings, Resolver!InDataSources
<1>2. Resolver!Found(cat, x) <=> Resolver!Found(cat, r)
  BY <1>1 DEF Resolver!Found
<1>3. EntryOf(x) = EntryOf(r)
  BY <1>1 DEF EntryOf, Resolver!lookupEntry, Meant
<1> QED BY <1>2, <1>3

LEMMA StagesAre ==
    ASSUME NEW r, NEW x, Meant(r, x), NEW ps
    PROVE  Stages(ps, x) = Giving(r, ps)
<1>1. r.preventDestroy = x.preventDestroy
  BY DEF Meant
<1>2. CASE x.preventDestroy \/ excludeDelete
  BY <1>1, <1>2 DEF Stages, Giving, Resolver!ApplyStage
<1>3. CASE ~(x.preventDestroy \/ excludeDelete)
  BY <1>1, <1>3 DEF Stages, Giving, Resolver!ApplyStage
<1> QED BY <1>2, <1>3

LEMMA NeedIs ==
    ASSUME NEW x, Resolver!Found(cat, x), NEW p
    PROVE  p \in MayNeed(x) <=>
             \/ p \in Stages(EntryOf(x).base, x)
             \/ \E j \in DOMAIN EntryOf(x).conditionals :
                  /\ MayHold(x.attrs, EntryOf(x).conditionals[j].when)
                  /\ p \in Stages(EntryOf(x).conditionals[j].permissions, x)
BY DEF MayNeed, OfConditionals, EntryOf

LEMMA OpenIs ==
    ASSUME NEW x, NEW j \in DOMAIN EntryOf(x).conditionals, NEW p \in Stages(EntryOf(x).conditionals[j].permissions, x),
           NEW a \in DOMAIN EntryOf(x).conditionals[j].when,
           NEW u \in answer.Unresolved, u.block = x.block, u.path = x.path, u.attr = a
    PROVE  p \in LeftOpen(x)
<1> DEFINE named == {v.attr : v \in {z \in answer.Unresolved : z.block = x.block /\ z.path = x.path}}
           conds == EntryOf(x).conditionals
<1>1. a \in named
  OBVIOUS
<1>2. LeftOpen(x) = UNION {Stages(conds[i].permissions, x) :
                             i \in {k \in DOMAIN conds : DOMAIN conds[k].when \intersect named # {}}}
  BY DEF LeftOpen, OfConditionals, EntryOf
<1> HIDE DEF named
<1>3. DOMAIN conds[j].when \intersect named # {}
  BY <1>1
<1> QED BY <1>2, <1>3

(* What is read of the attributes settles what may hold: a match may, and   *)
(* what may hold is matched, or misses something.                           *)
LEMMA MatchMayHold ==
    ASSUME NEW r, NEW x, Meant(r, x), NEW c, VerdictOn(r, c).matched
    PROVE  MayHold(x.attrs, c.when)
<1>1. ~Resolver!Mismatch(r.attrs, c.when) /\ Resolver!Unread(r.attrs, c.when) = {}
  BY DEF VerdictOn, Resolver!matchesConditional
<1>2. \A a \in DOMAIN c.when : /\ a \in DOMAIN r.attrs /\ r.attrs[a] # NilVal
                               /\ Resolver!ctyValueEqualsLiteral(r.attrs[a], c.when[a])
  BY <1>1 DEF Resolver!Mismatch, Resolver!Unread
<1> QED BY <1>2 DEF MayHold, Meant

LEMMA MayHoldMatches ==
    ASSUME NEW r, NEW x, Meant(r, x), NEW c, MayHold(x.attrs, c.when)
    PROVE  \/ VerdictOn(r, c).matched
           \/ \E a \in DOMAIN c.when : a \in VerdictOn(r, c).missing
<1>1. ~Resolver!Mismatch(r.attrs, c.when)
  BY DEF MayHold, Meant, Resolver!Mismatch, Resolver!Unread
<1>2. Resolver!Unread(r.attrs, c.when) \subseteq DOMAIN c.when
  BY DEF Resolver!Unread
<1> QED BY <1>1, <1>2 DEF VerdictOn, Resolver!matchesConditional

(* What is there in a world.                                                 *)
LEMMA PossibleIs ==
    ASSUME config \in Configs, NEW X \in Possible
    PROVE  ~RecursiveIn(config) /\ \E w \in Worlds : Accepted(config, w) /\ X = TrueInstances(config, w)
<1>1. ~Recursive
  BY DEF Possible
<1>2. PICK w \in Worlds : X \in truth[config][w]
  BY <1>1 DEF Possible
<1>3. truth[config][w] = IF Accepted(config, w) THEN {TrueInstances(config, w)} ELSE {}
  BY DEF truth
<1> QED BY <1>1, <1>2, <1>3, EdgesAre

LEMMA EndIs ==
    ASSUME PipelineInv, Finished
    PROVE  /\ config \in Configs /\ LoadsIn(config, Root) /\ cat \in Catalogs
           /\ ListGiven /\ next \in Nat /\ next > Len(resources) /\ DOMAIN resources = DOMAIN result.template.resources
           /\ \A i \in DOMAIN resources : Settled(resources[i]) /\ Sent(result.template.resources[i], resources[i])
           /\ \A q \in ToSet(result.template.resources) : IsRow(q) /\ RowShape(q) /\ q.path \in Seq(Name)
           /\ RealRows(config, RootEnd, ToSet(result.template.resources), ToSet(result.template.diags))
           /\ ~RecursiveIn(config) => AllRows(config, RootEnd, ToSet(result.template.resources))
           /\ AnswerBuilt
           /\ \A w \in ToSet(results) : \E i \in DOMAIN resources : Justified(w, resources[i])
<1>1. /\ LoaderInv /\ pc = "done" /\ result.kind = "template" /\ resources = Handed(result.template) /\ cat \in Catalogs
      /\ PassInv /\ AnswerBuilt /\ next \in Nat
  BY DEF PipelineInv, GivenInv, PassInv, Finished
<1>2. PICK s : s = resources
  OBVIOUS
<1>3. /\ Len(s) \in Nat /\ DOMAIN s = 1 .. Len(s) /\ DOMAIN s = DOMAIN result.template.resources
      /\ \A i \in DOMAIN s : Sent(result.template.resources[i], s[i]) /\ s[i].path \in Places
  BY <1>1, <1>2, HandedIs
<1>4. ListGiven
  BY <1>2, <1>3 DEF ListGiven
<1>5. next > Len(resources)
  BY <1>1 DEF AnswerBuilt
<1>6. \A i \in DOMAIN resources : i < next
  BY <1>1, <1>4, <1>5 DEF ListGiven
<1>7. /\ \A i \in DOMAIN resources : Settled(resources[i])
      /\ \A w \in ToSet(results) : \E i \in DOMAIN resources : Justified(w, resources[i])
  BY <1>1, <1>6 DEF PassInv
<1>8. /\ config \in Configs /\ RootEnd \in Ends /\ LoadsIn(config, Root) /\ Whole(config, RootEnd, result.template)
  BY <1>1, DoneIs DEF RootEnd
<1>9. /\ RealRows(config, RootEnd, ToSet(result.template.resources), ToSet(result.template.diags))
      /\ ~RecursiveIn(config) => AllRows(config, RootEnd, ToSet(result.template.resources))
  BY <1>8, WholeIs
<1>10. \A q \in ToSet(result.template.resources) : IsRow(q) /\ RowShape(q) /\ q.path \in Seq(Name)
  BY <1>1, TemplateRows
<1> QED BY <1>1, <1>2, <1>3, <1>4, <1>5, <1>7, <1>8, <1>9, <1>10

-----------------------------------------------------------------------------
LEMMA EntryAnnounced ==
    ASSUME AnswerBuilt, NEW r, Settled(r), MappedKind(r), NEW x, Meant(r, x)
    PROVE  Announced(x)
<1>1. /\ answer.TotalApplyPerms = plan \union apply
      /\ answer.Unknowns = Resolver!UnknownRows /\ answer.Unresolved = Resolver!UnresolvedRows
  BY DEF AnswerBuilt
<1>2. CASE ~Resolver!Found(cat, x)
  <2>1. UnknownFor(r)
    BY <1>2, MeantLooksUp DEF Settled
  <2> DEFINE k == Resolver!unknownKey(r)
             u == [type |-> k.type, block |-> k.block, path |-> unknowns[k]]
  <2>2. k \in DOMAIN unknowns /\ unknowns[k] = r.path /\ k.block = r.block
    BY <2>1 DEF UnknownFor, Resolver!unknownKey
  <2>3. u \in Resolver!UnknownRows
    BY <2>2 DEF Resolver!UnknownRows
  <2>4. u.block = x.block /\ u.path = x.path
    BY <2>2 DEF Meant
  <2>5. SaysUnknown(x)
    BY <1>1, <2>3, <2>4 DEF SaysUnknown
  <2> QED BY <1>2, <2>5 DEF Announced
<1>3. CASE Resolver!Found(cat, x)
  <2> DEFINE e == EntryOf(x)
  <2>1. /\ Entered(r, e.base) /\ e = EntryOf(r)
        /\ \A j \in DOMAIN e.conditionals : Tried(r, e.conditionals[j])
    BY <1>3, MeantLooksUp DEF Settled
  <2>2. ASSUME NEW p \in MayNeed(x) PROVE p \in answer.TotalApplyPerms \/ p \in LeftOpen(x)
    <3>1. CASE p \in Stages(e.base, x)
      BY <1>1, <2>1, <3>1, StagesAre DEF Entered
    <3>2. ASSUME NEW j \in DOMAIN e.conditionals, MayHold(x.attrs, e.conditionals[j].when),
                 p \in Stages(e.conditionals[j].permissions, x)
          PROVE  p \in answer.TotalApplyPerms \/ p \in LeftOpen(x)
      <4> DEFINE c == e.conditionals[j]
      <4>1. Tried(r, c) /\ p \in Giving(r, c.permissions)
        BY <2>1, <3>2, StagesAre
      <4>2. CASE VerdictOn(r, c).matched
        BY <1>1, <4>1, <4>2 DEF Tried, Entered
      <4>3. ASSUME NEW a \in DOMAIN c.when, a \in VerdictOn(r, c).missing PROVE p \in LeftOpen(x)
        <5> DEFINE k == Resolver!unresolvedRecordKey(r, a)
                   u == [type |-> k.type, block |-> k.block, path |-> unresolved[k].path,
                         attr |-> k.attr, reason |-> unresolved[k].reason]
        <5>1. NamedFor(r, a)
          BY <4>1, <4>3 DEF Tried
        <5>2. k \in DOMAIN unresolved /\ unresolved[k].path = r.path /\ k.block = r.block /\ k.attr = a
          BY <5>1 DEF NamedFor, Resolver!unresolvedRecordKey
        <5>3. u \in Resolver!UnresolvedRows
          BY <5>2 DEF Resolver!UnresolvedRows
        <5>4. u.block = x.block /\ u.path = x.path /\ u.attr = a
          BY <5>2 DEF Meant
        <5> HIDE DEF u
        <5>5. u \in answer.Unresolved
          BY <1>1, <5>3
        <5> QED BY <3>2, <4>3, <5>4, <5>5, OpenIs
      <4>4. VerdictOn(r, c).matched \/ \E a \in DOMAIN c.when : a \in VerdictOn(r, c).missing
        BY <3>2, MayHoldMatches
      <4> QED BY <4>2, <4>3, <4>4
    <3>3. \/ p \in Stages(e.base, x)
          \/ \E j \in DOMAIN e.conditionals :
               /\ MayHold(x.attrs, e.conditionals[j].when)
               /\ p \in Stages(e.conditionals[j].permissions, x)
      BY <1>3, <2>2, NeedIs
    <3> QED BY <3>1, <3>2, <3>3
  <2>3. MayNeed(x) \subseteq answer.TotalApplyPerms \union LeftOpen(x)
    BY <2>2
  <2> QED BY <1>3, <2>3 DEF Announced
<1> QED BY <1>2, <1>3

(* A row of the account asks for what its instance may need.                *)
LEMMA RowIsNeeded ==
    ASSUME NEW r, NEW x, Meant(r, x), NEW v, Justified(v, r)
    PROVE  x.block = v.block /\ x.path = v.path /\ Asks(v) \subseteq MayNeed(x)
<1>1. Resolver!Found(cat, x) /\ EntryOf(x) = EntryOf(r) /\ x.block = v.block /\ x.path = v.path
  BY MeantLooksUp DEF Justified, Meant
<1>2. ASSUME NEW p \in Asks(v) PROVE p \in MayNeed(x)
  <2> DEFINE e == EntryOf(x)
  <2>1. \/ p \in Giving(r, e.base)
        \/ \E j \in DOMAIN e.conditionals :
             VerdictOn(r, e.conditionals[j]).matched /\ p \in Giving(r, e.conditionals[j].permissions)
    BY <1>1, <1>2 DEF Justified, AskedBy
  <2>2. \/ p \in Stages(e.base, x)
        \/ \E j \in DOMAIN e.conditionals :
             MayHold(x.attrs, e.conditionals[j].when) /\ p \in Stages(e.conditionals[j].permissions, x)
    BY <2>1, StagesAre, MatchMayHold
  <2> QED BY <1>1, <2>2, NeedIs
<1> QED BY <1>1, <1>2

(* At the end the invariant is what the two properties say.                 *)
LEMMA AnnouncedAtTheEnd == PipelineInv => MissingIsAnnounced
<1> SUFFICES ASSUME PipelineInv, Finished, NEW X \in Possible, NEW x \in X
             PROVE  Announced(x) \/ FellBack(x.path)
  BY DEF MissingIsAnnounced
<1> DEFINE t == result.template.resources
           R == ToSet(t)
<1>1. /\ config \in Configs /\ AnswerBuilt /\ DOMAIN resources = DOMAIN t
      /\ \A i \in DOMAIN resources : Settled(resources[i]) /\ Sent(t[i], resources[i])
      /\ \A q \in R : IsRow(q)
      /\ ~RecursiveIn(config) => AllRows(config, RootEnd, R)
  BY EndIs
<1>2. ~RecursiveIn(config)
  BY <1>1, PossibleIs
<1>3. PICK w \in Worlds : Accepted(config, w) /\ X = TrueInstances(config, w)
  BY <1>1, PossibleIs
<1>4. \A q \in R : \E i \in DOMAIN t : t[i] = q
  BY DEF ToSet
<1> HIDE DEF R
<1>5. FellBack(x.path) \/ \E q \in R : Stands(q, x) /\ q.path \in Seq(Name)
  BY <1>1, <1>2, <1>3, InstancesHaveRows
<1>6. ASSUME NEW q \in R, Stands(q, x) PROVE Announced(x)
  <2>1. PICK i \in DOMAIN t : t[i] = q
    BY <1>4
  <2>2. PICK r : r = resources[i]
    OBVIOUS
  <2>3. Settled(r) /\ Sent(q, r)
    BY <1>1, <2>1, <2>2
  <2>4. Meant(r, x)
    BY <1>6, <2>3, SentStands
  <2>5. MappedKind(r)
    BY <1>1, <2>3 DEF Sent, IsRow, MappedKind
  <2> QED BY <1>1, <2>3, <2>4, <2>5, EntryAnnounced
<1> QED BY <1>5, <1>6

LEMMA NeededAtTheEnd == PipelineInv => ReportedIsNeeded
<1> SUFFICES ASSUME PipelineInv, Finished, NEW X \in Possible, NEW v \in ToSet(answer.Resources)
             PROVE  \/ SaysGuess(v) \/ FellBack(v.path) \/ Repeated(v.path)
                    \/ \E y \in X : y.block = v.block /\ y.path = v.path /\ Asks(v) \subseteq MayNeed(y)
  BY DEF ReportedIsNeeded
<1> DEFINE t == result.template.resources
           R == ToSet(t)
           G == ToSet(result.template.diags)
<1>1. /\ config \in Configs /\ LoadsIn(config, Root) /\ AnswerBuilt /\ DOMAIN resources = DOMAIN t
      /\ \A i \in DOMAIN resources : Sent(t[i], resources[i])
      /\ \A q \in R : RowShape(q) /\ q.path \in Seq(Name)
      /\ RealRows(config, RootEnd, R, G)
      /\ \A z \in ToSet(results) : \E i \in DOMAIN resources : Justified(z, resources[i])
  BY EndIs
<1>2. ~RecursiveIn(config)
  BY <1>1, PossibleIs
<1>3. PICK w \in Worlds : Accepted(config, w) /\ X = TrueInstances(config, w)
  BY <1>1, PossibleIs
<1>4. v \in ToSet(results)
  BY <1>1 DEF AnswerBuilt
<1>5. PICK i \in DOMAIN resources : Justified(v, resources[i])
  BY <1>1, <1>4
<1>6. PICK r : r = resources[i]
  OBVIOUS
<1>7. PICK q : q = t[i]
  OBVIOUS
<1>8. q \in R
  BY <1>1, <1>7 DEF ToSet
<1> HIDE DEF R
<1>9. Sent(q, r) /\ RowShape(q) /\ q.path \in Seq(Name) /\ Justified(v, r)
  BY <1>1, <1>5, <1>6, <1>7, <1>8
<1>10. q.block = v.block /\ Segments(q.path) = v.path
  BY <1>9 DEF Sent, Justified
<1> HIDE DEF G
<1>11. \/ \E g \in G : g.pos = q.block /\ g.kind = "unresolved"
       \/ FellBack(Segments(q.path)) \/ Repeated(Segments(q.path))
       \/ \E x \in TrueInstances(config, w) : Stands(q, x)
  BY <1>1, <1>2, <1>3, <1>8, <1>9, RowsHaveInstances
<1>12. CASE \E g \in G : g.pos = q.block /\ g.kind = "unresolved"
  BY <1>10, <1>12 DEF SaysGuess, G
<1>13. ASSUME NEW x \in TrueInstances(config, w), Stands(q, x)
       PROVE  \E y \in X : y.block = v.block /\ y.path = v.path /\ Asks(v) \subseteq MayNeed(y)
  <2>1. Meant(r, x)
    BY <1>9, <1>13, SentStands
  <2>2. x.block = v.block /\ x.path = v.path /\ Asks(v) \subseteq MayNeed(x)
    BY <1>9, <2>1, RowIsNeeded
  <2> QED BY <1>3, <2>2
<1> QED BY <1>10, <1>11, <1>12, <1>13

(***************************************************************************)
(* For every tree, catalog and world: once LoadRecursive and Resolve have  *)
(* run, whatever an instance may need is in the answer, or under an        *)
(* attribute the answer names as unresolved, or the instance is named as   *)
(* unknown - but for those below a default that stands in for an argument. *)
(***************************************************************************)
THEOREM MissingAlwaysAnnounced == PipelineSpec => []MissingIsAnnounced
BY PipelineHolds, AnnouncedAtTheEnd, PTL

(***************************************************************************)
(* For every tree, catalog and world: every row of the account is of an    *)
(* instance there is, which may need all the row asks for, but for blocks  *)
(* kept on a guess, counted calls and defaults that stand in.              *)
(***************************************************************************)
THEOREM ReportedAlwaysNeeded == PipelineSpec => []ReportedIsNeeded
BY PipelineHolds, NeededAtTheEnd, PTL
=============================================================================
