------------------------- MODULE ModuleLoaderProofs -------------------------
(***************************************************************************)
(* Every safety property of the module loader, for every file tree.        *)
(*                                                                         *)
(* A template is put together row by row while calls are answered in any   *)
(* order the tree and the cache allow, so the invariant says of a template *)
(* what it is worth so far: Partial(c, x, k, t) holds of the template t of *)
(* an expansion of x in the tree c whose next call is the k-th, and        *)
(* Whole(c, x, t) once its calls are exhausted and its sites sorted.  The  *)
(* actions keep it by a lemma each (PartialStart ... PartialClosed); what  *)
(* comes from the cache is whole for the right directory and arguments,    *)
(* for no two of them share a key (KeysTell).  Instances are compared with *)
(* walks, sequences of places each reached by a call of the one before,    *)
(* and Follow, the definition the properties use, gathers where the walks  *)
(* along a path lead (FollowIs).                                           *)
(*                                                                         *)
(* parseConfig, AddSites, Rendered and Follow are folds.  What each of     *)
(* them computes comes from FoldProofs, instantiated with the step of the  *)
(* fold and with what holds after k steps.                                 *)
(***************************************************************************)
EXTENDS ModuleLoader, ListProofs

-----------------------------------------------------------------------------
(* What parseConfig makes of the blocks of a directory.                     *)

CallOf(p, i) == extractModule(p.blocks[i], p.ctx)
RowOf(p, i) == AsResource(p.blocks[i], extractAttrs(p.blocks[i], p.ctx), evalMetaArgs(p.blocks[i], p.ctx))
IsCall(p, i) == p.blocks[i].kind = "module"

ParseStep(p, cfg, b) ==
    IF b.kind = "module" THEN AddModule(cfg, b, extractModule(b, p.ctx))
    ELSE AddBlock(cfg, b, extractAttrs(b, p.ctx), evalMetaArgs(b, p.ctx))

(* Some of the first k places, in order.                                     *)
IsPick(m, k) == m \in Seq(1 .. k) /\ \A i, j \in DOMAIN m : i < j => m[i] < m[j]

OwnDiag == [kind: {"non-local", "unresolved"}, pos: Nat, cycle: {<<>>}]

CallsGathered(p, k, calls) ==
    \E m : /\ IsPick(m, k) /\ calls = [j \in DOMAIN m |-> CallOf(p, m[j])]
           /\ \A j \in DOMAIN m : IsCall(p, m[j])
           /\ \A i \in 1 .. k : IsCall(p, i) => \E j \in DOMAIN m : m[j] = i

RowsGathered(p, k, rows) ==
    \E m : /\ IsPick(m, k) /\ rows = [j \in DOMAIN m |-> RowOf(p, m[j])]
           /\ \A j \in DOMAIN m : ~IsCall(p, m[j])

ParsedSoFar(p, k, cfg) ==
    /\ cfg = [resources |-> cfg.resources, modules |-> cfg.modules, diags |-> cfg.diags]
    /\ CallsGathered(p, k, cfg.modules)
    /\ RowsGathered(p, k, cfg.resources)
    /\ cfg.diags \in Seq(OwnDiag)
    /\ \A j \in DOMAIN cfg.modules : ~cfg.modules[j].local =>
         \E i \in DOMAIN cfg.diags : cfg.diags[i].kind = "non-local" /\ cfg.diags[i].pos = cfg.modules[j].pos

Parse == INSTANCE FoldProofs WITH FoldStep <- ParseStep, FoldHolds <- ParsedSoFar

(* One more place, or none.                                                  *)
LEMMA PickMore ==
    ASSUME NEW k \in Nat \ {0}, NEW m, IsPick(m, k - 1)
    PROVE  /\ IsPick(m, k)
           /\ IsPick(Append(m, k), k) /\ DOMAIN Append(m, k) = 1 .. Len(m) + 1
           /\ \A j \in DOMAIN m : Append(m, k)[j] = m[j]
           /\ Append(m, k)[Len(m) + 1] = k
           /\ Len(m) \in Nat /\ DOMAIN m = 1 .. Len(m)
<1>1. m \in Seq(1 .. k) /\ m \in Seq(1 .. k - 1) /\ k \in 1 .. k
  <2>1. m \in Seq(1 .. k - 1) /\ 1 .. k - 1 \subseteq 1 .. k
    BY DEF IsPick
  <2>2. m \in [1 .. Len(m) -> 1 .. k - 1] /\ Len(m) \in Nat
    BY <2>1
  <2>3. m \in [1 .. Len(m) -> 1 .. k]
    BY <2>1, <2>2
  <2> QED BY <2>1, <2>2, <2>3
<1>2. /\ Len(m) \in Nat /\ DOMAIN m = 1 .. Len(m)
      /\ Append(m, k) \in Seq(1 .. k) /\ DOMAIN Append(m, k) = 1 .. Len(m) + 1
      /\ \A j \in DOMAIN m : Append(m, k)[j] = m[j]
      /\ Append(m, k)[Len(m) + 1] = k
  BY <1>1
<1>3. \A j \in DOMAIN m : m[j] \in Nat /\ m[j] < k
  <2>1. \A j \in DOMAIN m : m[j] \in 1 .. k - 1
    BY <1>1
  <2> QED BY <2>1
<1>4. \A i, j \in 1 .. Len(m) + 1 : i < j => Append(m, k)[i] < Append(m, k)[j]
  <2> SUFFICES ASSUME NEW i \in 1 .. Len(m) + 1, NEW j \in 1 .. Len(m) + 1, i < j
               PROVE  Append(m, k)[i] < Append(m, k)[j]
    OBVIOUS
  <2>1. i \in DOMAIN m /\ (j \in DOMAIN m \/ j = Len(m) + 1)
    BY <1>2
  <2>2. CASE j \in DOMAIN m
    BY <1>2, <2>1, <2>2 DEF IsPick
  <2>3. CASE j = Len(m) + 1
    BY <1>2, <1>3, <2>1, <2>3
  <2> QED BY <2>1, <2>2, <2>3
<1> QED BY <1>1, <1>2, <1>4 DEF IsPick

LEMMA GatheredMore ==
    ASSUME NEW p, NEW k \in Nat \ {0}, NEW s
    PROVE  /\ CallsGathered(p, k - 1, s) /\ ~IsCall(p, k) => CallsGathered(p, k, s)
           /\ RowsGathered(p, k - 1, s) => RowsGathered(p, k, s)
           /\ CallsGathered(p, k - 1, s) /\ IsCall(p, k) => CallsGathered(p, k, Append(s, CallOf(p, k)))
           /\ RowsGathered(p, k - 1, s) /\ ~IsCall(p, k) => RowsGathered(p, k, Append(s, RowOf(p, k)))
<1>0. \A i \in 1 .. k : i \in 1 .. k - 1 \/ i = k
  OBVIOUS
<1>1. CallsGathered(p, k - 1, s) /\ ~IsCall(p, k) => CallsGathered(p, k, s)
  BY <1>0, PickMore DEF CallsGathered
<1>2. RowsGathered(p, k - 1, s) => RowsGathered(p, k, s)
  BY PickMore DEF RowsGathered
<1>3. ASSUME CallsGathered(p, k - 1, s), IsCall(p, k) PROVE CallsGathered(p, k, Append(s, CallOf(p, k)))
  <2>1. PICK m : /\ IsPick(m, k - 1) /\ s = [j \in DOMAIN m |-> CallOf(p, m[j])]
                 /\ \A j \in DOMAIN m : IsCall(p, m[j])
                 /\ \A i \in 1 .. k - 1 : IsCall(p, i) => \E j \in DOMAIN m : m[j] = i
    BY <1>3 DEF CallsGathered
  <2> DEFINE a == Append(m, k)
             l == Len(m)
  <2>2. /\ IsPick(a, k) /\ DOMAIN a = 1 .. l + 1 /\ a[l + 1] = k /\ l \in Nat /\ DOMAIN m = 1 .. l
        /\ \A j \in 1 .. l : a[j] = m[j]
    BY <2>1, PickMore
  <2> HIDE DEF a, l
  <2>3. Append(s, CallOf(p, k)) = [j \in 1 .. l + 1 |-> IF j = l + 1 THEN CallOf(p, k) ELSE s[j]]
    <3>1. s = [j \in 1 .. l |-> s[j]]
      BY <2>1, <2>2
    <3> QED BY <2>2, <3>1
  <2>4. Append(s, CallOf(p, k)) = [j \in DOMAIN a |-> CallOf(p, a[j])]
    BY <2>1, <2>2, <2>3
  <2>5. \A j \in DOMAIN a : IsCall(p, a[j])
    <3>1. \A j \in 1 .. l + 1 : j \in 1 .. l \/ j = l + 1
      BY <2>2
    <3> QED BY <1>3, <2>1, <2>2, <3>1
  <2>6. \A i \in 1 .. k : IsCall(p, i) => \E j \in DOMAIN a : a[j] = i
    <3> TAKE i \in 1 .. k
    <3> HAVE IsCall(p, i)
    <3>1. CASE i = k
      BY <2>2, <3>1
    <3>2. CASE i # k
      <4>1. PICK j \in DOMAIN m : m[j] = i
        BY <1>0, <2>1, <3>2
      <4>2. j \in DOMAIN a /\ a[j] = i
        BY <2>2, <4>1
      <4> QED BY <4>2
    <3> QED BY <3>1, <3>2
  <2> QED BY <2>2, <2>4, <2>5, <2>6 DEF CallsGathered
<1>4. ASSUME RowsGathered(p, k - 1, s), ~IsCall(p, k) PROVE RowsGathered(p, k, Append(s, RowOf(p, k)))
  <2>1. PICK m : /\ IsPick(m, k - 1) /\ s = [j \in DOMAIN m |-> RowOf(p, m[j])]
                 /\ \A j \in DOMAIN m : ~IsCall(p, m[j])
    BY <1>4 DEF RowsGathered
  <2> DEFINE a == Append(m, k)
             l == Len(m)
  <2>2. /\ IsPick(a, k) /\ DOMAIN a = 1 .. l + 1 /\ a[l + 1] = k /\ l \in Nat /\ DOMAIN m = 1 .. l
        /\ \A j \in 1 .. l : a[j] = m[j]
    BY <2>1, PickMore
  <2> HIDE DEF a, l
  <2>3. Append(s, RowOf(p, k)) = [j \in 1 .. l + 1 |-> IF j = l + 1 THEN RowOf(p, k) ELSE s[j]]
    <3>1. s = [j \in 1 .. l |-> s[j]]
      BY <2>1, <2>2
    <3> QED BY <2>2, <3>1
  <2>4. Append(s, RowOf(p, k)) = [j \in DOMAIN a |-> RowOf(p, a[j])]
    BY <2>1, <2>2, <2>3
  <2>5. \A j \in DOMAIN a : ~IsCall(p, a[j])
    <3>1. \A j \in 1 .. l + 1 : j \in 1 .. l \/ j = l + 1
      BY <2>2
    <3> QED BY <1>4, <2>1, <2>2, <3>1
  <2> QED BY <2>2, <2>4, <2>5 DEF RowsGathered
<1> QED BY <1>1, <1>2, <1>3, <1>4

(* The call of place k answers the block there, whatever its arguments.      *)
LEMMA CallIs ==
    ASSUME NEW p, NEW k
    PROVE  /\ CallOf(p, k).name = p.blocks[k].name /\ CallOf(p, k).pos = p.blocks[k].pos
           /\ CallOf(p, k).local \in BOOLEAN
           /\ CallOf(p, k) = [name |-> CallOf(p, k).name, pos |-> CallOf(p, k).pos, source |-> CallOf(p, k).source,
                              local |-> CallOf(p, k).local, args |-> CallOf(p, k).args]
BY DEF CallOf, extractModule, IsLocal

(* Some warnings of one kind are put after what there is.                    *)
LEMMA MoreDiags ==
    ASSUME NEW s \in Seq(OwnDiag), NEW n \in Nat, NEW g \in OwnDiag
    PROVE  /\ s \o [i \in 1 .. n |-> g] \in Seq(OwnDiag)
           /\ \A i \in DOMAIN s : i \in DOMAIN (s \o [j \in 1 .. n |-> g]) /\ (s \o [j \in 1 .. n |-> g])[i] = s[i]
           /\ n # 0 => \E i \in DOMAIN (s \o [j \in 1 .. n |-> g]) : (s \o [j \in 1 .. n |-> g])[i] = g
<1> HIDE DEF OwnDiag
<1> DEFINE t == [i \in 1 .. n |-> g]
<1>1. t \in Seq(OwnDiag) /\ Len(t) = n /\ \A i \in 1 .. n : t[i] = g
  OBVIOUS
<1> HIDE DEF t
<1>2. /\ s \o t \in Seq(OwnDiag) /\ DOMAIN (s \o t) = 1 .. Len(s) + n /\ DOMAIN s = 1 .. Len(s) /\ Len(s) \in Nat
      /\ \A i \in 1 .. Len(s) : (s \o t)[i] = s[i]
      /\ \A i \in Len(s) + 1 .. Len(s) + n : (s \o t)[i] = t[i - Len(s)]
  BY <1>1
<1>3. n # 0 => Len(s) + 1 \in 1 .. Len(s) + n /\ (s \o t)[Len(s) + 1] = g
  BY <1>1, <1>2
<1> QED BY SMTT(30), <1>2, <1>3 DEF t

LEMMA ParseMore ==
    ASSUME NEW p, NEW n \in Nat, DOMAIN p.blocks = 1 .. n,
           \A i \in 1 .. n : p.blocks[i].pos \in Nat,
           NEW k \in 1 .. n, NEW cfg, ParsedSoFar(p, k - 1, cfg)
    PROVE  ParsedSoFar(p, k, ParseStep(p, cfg, p.blocks[k]))
<1> DEFINE b == p.blocks[k]
           new == ParseStep(p, cfg, b)
<1>1. k \in Nat \ {0} /\ b.pos \in Nat
  OBVIOUS
<1>2. /\ cfg = [resources |-> cfg.resources, modules |-> cfg.modules, diags |-> cfg.diags]
      /\ CallsGathered(p, k - 1, cfg.modules) /\ RowsGathered(p, k - 1, cfg.resources)
      /\ cfg.diags \in Seq(OwnDiag)
      /\ \A j \in DOMAIN cfg.modules : ~cfg.modules[j].local =>
           \E i \in DOMAIN cfg.diags : cfg.diags[i].kind = "non-local" /\ cfg.diags[i].pos = cfg.modules[j].pos
  BY DEF ParsedSoFar
<1>3. CASE IsCall(p, k)
  <2> DEFINE call == CallOf(p, k)
             g == Diag("non-local", b.pos, <<>>)
             m == IF call.local THEN 0 ELSE 1
             more == [i \in 1 .. m |-> g]
  <2>1. g \in OwnDiag /\ g.kind = "non-local" /\ g.pos = b.pos
    BY <1>1 DEF Diag, OwnDiag
  <2>2. new = [resources |-> cfg.resources, modules |-> Append(cfg.modules, call), diags |-> cfg.diags \o more]
    <3>1. new = AddModule(cfg, b, call)
      BY <1>3 DEF ParseStep, IsCall, CallOf
    <3>2. AddModule(cfg, b, call) = [[cfg EXCEPT !.modules = Append(@, call)] EXCEPT !.diags = @ \o more]
      BY DEF AddModule, WithDiags
    <3> HIDE DEF new, call, more, g, m
    <3> QED BY <1>2, <3>1, <3>2
  <2>3. call.pos = b.pos /\ call.local \in BOOLEAN
    BY CallIs
  <2>4. m \in Nat /\ (~call.local => m # 0)
    OBVIOUS
  <2>5. /\ cfg.diags \o more \in Seq(OwnDiag)
        /\ \A i \in DOMAIN cfg.diags : i \in DOMAIN (cfg.diags \o more) /\ (cfg.diags \o more)[i] = cfg.diags[i]
        /\ ~call.local => \E i \in DOMAIN (cfg.diags \o more) : (cfg.diags \o more)[i] = g
    <3> HIDE DEF m, g, call
    <3> QED BY ZenonT(30), <1>2, <2>1, <2>4, MoreDiags
  <2>6. CallsGathered(p, k, Append(cfg.modules, call)) /\ RowsGathered(p, k, cfg.resources)
    BY <1>1, <1>2, <1>3, GatheredMore
  <2>7. /\ DOMAIN cfg.modules = 1 .. Len(cfg.modules) /\ Len(cfg.modules) \in Nat
        /\ DOMAIN Append(cfg.modules, call) = 1 .. Len(cfg.modules) + 1
        /\ \A j \in DOMAIN cfg.modules : Append(cfg.modules, call)[j] = cfg.modules[j]
        /\ Append(cfg.modules, call)[Len(cfg.modules) + 1] = call
    <3> DEFINE M == {CallOf(p, i) : i \in 1 .. n} \union {call}
    <3>1. PICK f : IsPick(f, k - 1) /\ cfg.modules = [j \in DOMAIN f |-> CallOf(p, f[j])]
      BY <1>2 DEF CallsGathered
    <3>2. DOMAIN f = 1 .. Len(f) /\ Len(f) \in Nat
      BY <1>1, <3>1, PickMore
    <3>3. cfg.modules \in Seq({cfg.modules[j] : j \in DOMAIN cfg.modules})
      BY <3>1, <3>2
    <3> HIDE DEF call, more, g, m, new
    <3> QED BY <3>1, <3>2, <3>3
  <2> HIDE DEF call, more, g, m, new
  <2>8. \A j \in DOMAIN new.modules : ~new.modules[j].local =>
           \E i \in DOMAIN new.diags : new.diags[i].kind = "non-local" /\ new.diags[i].pos = new.modules[j].pos
    <3> SUFFICES ASSUME NEW j \in 1 .. Len(cfg.modules) + 1, ~new.modules[j].local
                 PROVE  \E i \in DOMAIN new.diags : new.diags[i].kind = "non-local" /\ new.diags[i].pos = new.modules[j].pos
      BY <2>2, <2>7
    <3>1. CASE j \in DOMAIN cfg.modules
      BY SMTT(30), <1>2, <2>2, <2>5, <2>7, <3>1
    <3>2. CASE j = Len(cfg.modules) + 1
      BY <2>1, <2>2, <2>3, <2>5, <2>7, <3>2
    <3> QED BY <2>7, <3>1, <3>2
  <2>9. ParsedSoFar(p, k, new)
    BY <2>2, <2>5, <2>6, <2>8 DEF ParsedSoFar
  <2> QED BY <2>9 DEF new
<1>4. CASE ~IsCall(p, k)
  <2> DEFINE meta == evalMetaArgs(b, p.ctx)
             g == Diag("unresolved", b.pos, <<>>)
             m == meta.warnings
             more == [i \in 1 .. m |-> g]
             rows == IF meta.keep THEN Append(cfg.resources, RowOf(p, k)) ELSE cfg.resources
  <2>1. g \in OwnDiag
    BY <1>1 DEF Diag, OwnDiag
  <2>2. new = [resources |-> rows, modules |-> cfg.modules, diags |-> cfg.diags \o more]
    <3>1. new = AddBlock(cfg, b, extractAttrs(b, p.ctx), meta)
      BY <1>4 DEF ParseStep, IsCall
    <3>2. AddBlock(cfg, b, extractAttrs(b, p.ctx), meta) = [[cfg EXCEPT !.resources = rows] EXCEPT !.diags = @ \o more]
      <4>1. AsResource(b, extractAttrs(b, p.ctx), meta) = RowOf(p, k)
        BY DEF RowOf
      <4> QED BY <1>2, <4>1 DEF AddBlock, WithDiags
    <3> HIDE DEF new, more, g, m, meta, rows
    <3> QED BY <1>2, <3>1, <3>2
  <2>4. m \in Nat
    <3> DEFINE given == {"count", "for_each"} \intersect DOMAIN b.attrs
               answer == [y \in given |-> IF y = "count" THEN evalCount(b.attrs[y], p.ctx)
                                          ELSE evalForEach(b.attrs[y], p.ctx)]
               W == {x \in given : answer[x].warn}
    <3>1. m = Cardinality(W)
      BY DEF evalMetaArgs
    <3>2. W \in SUBSET {"count", "for_each"}
      OBVIOUS
    <3>3. IsFiniteSet({"count", "for_each"})
      <4>1. IsFiniteSet({"count"}) /\ {"count", "for_each"} = {"count"} \union {"for_each"}
        BY FS_Singleton
      <4> QED BY <4>1, FS_AddElement
    <3> HIDE DEF W, m
    <3> QED BY <3>1, <3>2, <3>3, FS_Subset, FS_CardinalityType
  <2>5. /\ cfg.diags \o more \in Seq(OwnDiag)
        /\ \A i \in DOMAIN cfg.diags : i \in DOMAIN (cfg.diags \o more) /\ (cfg.diags \o more)[i] = cfg.diags[i]
    <3> HIDE DEF m, g
    <3> QED BY <1>2, <2>1, <2>4, MoreDiags
  <2>6. CallsGathered(p, k, cfg.modules) /\ RowsGathered(p, k, rows)
    BY <1>1, <1>2, <1>4, GatheredMore
  <2> HIDE DEF more, g, m, rows, meta, new
  <2>9. ParsedSoFar(p, k, new)
    BY <1>2, <2>2, <2>5, <2>6 DEF ParsedSoFar
  <2> QED BY <2>9 DEF new
<1> QED BY <1>3, <1>4

Given(c, d, o) == [blocks |-> Blocks(c[d]), ctx |-> buildEvalContext(c[d], o)]

LEMMA ParsedIs ==
    ASSUME NEW c \in Configs, NEW d \in Dir, NEW o \in Override
    PROVE  /\ Blocks(c[d]) \in Seq(ToSet(Blocks(c[d])))
           /\ DOMAIN Blocks(c[d]) = 1 .. Len(Blocks(c[d])) /\ Len(Blocks(c[d])) \in Nat
           /\ \A i \in DOMAIN Blocks(c[d]) :
                LET b == Blocks(c[d])[i]
                IN  /\ b.pos \in Nat /\ b.kind \in {"resource", "data", "module"}
                    /\ b.kind = "module" => b.name \in Name
           /\ ParsedSoFar(Given(c, d, o), Len(Blocks(c[d])), parsed[c[d]][o])
<1> DEFINE B == Blocks(c[d])
           n == Len(B)
           p == Given(c, d, o)
           none == [resources |-> <<>>, modules |-> <<>>, diags |-> <<>>]
<1>1. /\ B \in Seq(ToSet(B)) /\ IsTree(c)
      /\ \A b \in ToSet(B) : /\ b.pos \in Nat /\ b.kind \in {"resource", "data", "module"}
                             /\ b.kind = "module" => b.name \in Name
  BY ConfigsAssumption
<1>2. DOMAIN B = 1 .. n /\ n \in Nat /\ \A i \in 1 .. n : B[i] \in ToSet(B)
  <2> HIDE DEF B
  <2> QED BY <1>1 DEF ToSet
<1>3. parsed[c[d]][o] = parseConfig(c[d], o)
  <2>1. c[d] \in Directories
    BY DEF Directories
  <2> QED BY <2>1 DEF parsed
<1>4. p.blocks = B /\ p.ctx = buildEvalContext(c[d], o)
  BY DEF Given
<1>5. parseConfig(c[d], o) = Parse!Folded(p, none, B)
  <2>1. parseConfig(c[d], o) = FoldLeft(LAMBDA a, x : ParseStep(p, a, x), none, B)
    BY <1>4 DEF parseConfig, ParseStep
  <2>2. Parse!Folded(p, none, B) = FoldLeft(LAMBDA a, x : ParseStep(p, a, x), none, B)
    BY DEF Parse!Folded, Parse!Greatest, FoldLeft, MapThenFoldSet, Max
  <2> QED BY <2>1, <2>2
<1>6. ParsedSoFar(p, 0, none)
  <2>1. IsPick(<<>>, 0) /\ DOMAIN <<>> = {} /\ 1 .. 0 = {}
    BY DEF IsPick
  <2>2. CallsGathered(p, 0, <<>>)
    <3>1. <<>> = [j \in {} |-> CallOf(p, <<>>[j])]
      OBVIOUS
    <3> QED BY <2>1, <3>1 DEF CallsGathered
  <2>3. RowsGathered(p, 0, <<>>)
    <3>1. <<>> = [j \in {} |-> RowOf(p, <<>>[j])]
      OBVIOUS
    <3> QED BY <2>1, <3>1 DEF RowsGathered
  <2>4. <<>> \in Seq(OwnDiag)
    OBVIOUS
  <2> QED BY <2>1, <2>2, <2>3, <2>4 DEF ParsedSoFar
<1>7. \A k \in 1 .. n : \A a : ParsedSoFar(p, k - 1, a) => ParsedSoFar(p, k, ParseStep(p, a, B[k]))
  <2> SUFFICES ASSUME NEW k \in 1 .. n, NEW a, ParsedSoFar(p, k - 1, a)
               PROVE  ParsedSoFar(p, k, ParseStep(p, a, B[k]))
    OBVIOUS
  <2>1. DOMAIN p.blocks = 1 .. n /\ \A i \in 1 .. n : p.blocks[i].pos \in Nat
    BY <1>1, <1>2, <1>4
  <2> HIDE DEF p, n, B
  <2>2. ParsedSoFar(p, k, ParseStep(p, a, p.blocks[k]))
    BY <1>2, <2>1, ParseMore
  <2> QED BY <1>4, <2>2
<1>8. ParsedSoFar(p, n, Parse!Folded(p, none, B))
  <2> HIDE DEF p, n, B, none
  <2> QED BY <1>2, <1>6, <1>7, Parse!FoldInduction
<1> QED BY <1>1, <1>2, <1>3, <1>5, <1>8

(* A list: a function on the first places.                                   *)
IsList(s) == Len(s) \in Nat /\ DOMAIN s = 1 .. Len(s) /\ s \in Seq(ToSet(s))

RowShape(row) ==
    row = [kind |-> row.kind, type |-> row.type, block |-> row.block, path |-> row.path,
           attrs |-> row.attrs, reasons |-> row.reasons, preventDestroy |-> row.preventDestroy]

LEMMA PickedList ==
    ASSUME NEW m, NEW k \in Nat, IsPick(m, k), NEW s, DOMAIN s = DOMAIN m, s = [j \in DOMAIN m |-> s[j]]
    PROVE  /\ IsList(s) /\ DOMAIN m = 1 .. Len(s)
           /\ \A j \in DOMAIN m : m[j] \in 1 .. k
           /\ \A i, j \in DOMAIN m : i < j <=> m[i] < m[j]
           /\ \A i, j \in DOMAIN m : i = j <=> m[i] = m[j]
<1>1. DOMAIN m = 1 .. Len(m) /\ Len(m) \in Nat /\ \A j \in DOMAIN m : m[j] \in 1 .. k
  BY DEF IsPick
<1>2. \A j \in DOMAIN m : s[j] \in ToSet(s)
  BY DEF ToSet
<1>3. s \in Seq(ToSet(s))
  <2> DEFINE T == ToSet(s)
  <2> HIDE DEF T
  <2>1. s \in [1 .. Len(m) -> T]
    BY <1>1, <1>2 DEF T
  <2>2. s \in Seq(T)
    BY <1>1, <2>1
  <2> QED BY <2>2 DEF T
<1>4. Len(s) = Len(m)
  BY <1>1, <1>3
<1>5. \A i, j \in DOMAIN m : i < j => m[i] < m[j]
  BY DEF IsPick
<1>6. \A i, j \in DOMAIN m : i \in Nat /\ j \in Nat /\ m[i] \in Nat /\ m[j] \in Nat
  BY <1>1
<1>7. \A i, j \in DOMAIN m : (i < j <=> m[i] < m[j]) /\ (i = j <=> m[i] = m[j])
  <2> TAKE i, j \in DOMAIN m
  <2>1. i < j \/ i = j \/ j < i
    BY <1>6
  <2> QED BY <1>5, <1>6, <2>1
<1> QED BY <1>1, <1>3, <1>4, <1>7 DEF IsList

(* The rows and calls of a directory itself.                                 *)
LEMMA OwnRows ==
    ASSUME NEW c \in Configs, NEW d \in Dir, NEW o \in Override
    PROVE  LET own == parsed[c[d]][o]
           IN  /\ IsList(own.resources)
               /\ \A row \in ToSet(own.resources) : IsRow(row) /\ row.path = <<>> /\ RowShape(row)
               /\ \A i, j \in DOMAIN own.resources : own.resources[i].block = own.resources[j].block => i = j
<1> DEFINE p == Given(c, d, o)
           B == Blocks(c[d])
           n == Len(B)
           rows == parsed[c[d]][o].resources
<1>1. PICK m : /\ IsPick(m, n) /\ rows = [j \in DOMAIN m |-> RowOf(p, m[j])]
               /\ \A j \in DOMAIN m : ~IsCall(p, m[j])
  BY ParsedIs DEF ParsedSoFar, RowsGathered
<1>2. n \in Nat /\ DOMAIN B = 1 .. n /\ \A i \in 1 .. n : B[i].pos \in Nat /\ B[i].kind \in {"resource", "data", "module"}
  BY ParsedIs
<1>3. p.blocks = B
  BY DEF Given
<1>4. \A i, j \in 1 .. n : B[i].pos = B[j].pos => i = j
  <2>1. \A i, j \in DOMAIN B : B[i].pos = B[j].pos => i = j
    BY ConfigsAssumption
  <2> HIDE DEF B, n
  <2> QED BY <1>2, <2>1
<1> HIDE DEF p, B, n, rows
<1>5. /\ IsList(rows) /\ DOMAIN rows = DOMAIN m
      /\ \A j \in DOMAIN m : m[j] \in 1 .. n
      /\ \A i, j \in DOMAIN m : i = j <=> m[i] = m[j]
  <2>1. DOMAIN rows = DOMAIN m /\ rows = [j \in DOMAIN m |-> rows[j]]
    BY <1>1
  <2> QED BY <1>1, <1>2, <2>1, PickedList
<1>6. ASSUME NEW k \in 1 .. n, ~IsCall(p, k)
      PROVE  IsRow(RowOf(p, k)) /\ RowOf(p, k).path = <<>> /\ RowShape(RowOf(p, k)) /\ RowOf(p, k).block = B[k].pos
  <2> DEFINE row == RowOf(p, k)
             b == B[k]
             x == extractAttrs(b, p.ctx)
             meta == evalMetaArgs(b, p.ctx)
  <2>1. row = [kind |-> b.kind, type |-> b.type, block |-> b.pos, path |-> <<>>, attrs |-> x.attrs,
               reasons |-> x.reasons, preventDestroy |-> meta.preventDestroy]
    BY <1>3 DEF RowOf, AsResource
  <2>2. b.pos \in Nat /\ b.kind \in {"resource", "data"}
    BY <1>2, <1>3, <1>6 DEF IsCall
  <2>3. DOMAIN x.reasons = {a \in DOMAIN x.attrs : x.attrs[a] = NilVal}
    BY DEF extractAttrs
  <2>4. meta.preventDestroy \in BOOLEAN
    BY DEF evalMetaArgs
  <2> HIDE DEF row, b, x, meta
  <2>5. <<>> \in Seq(Name)
    OBVIOUS
  <2>6. IsRow(row)
    BY <2>1, <2>2, <2>3, <2>4, <2>5 DEF IsRow
  <2>7. RowShape(row)
    BY <2>1 DEF RowShape
  <2> QED BY <2>1, <2>6, <2>7 DEF row, b
<1>7. \A j \in DOMAIN rows : rows[j] = RowOf(p, m[j]) /\ m[j] \in 1 .. n /\ ~IsCall(p, m[j])
  BY <1>1, <1>5
<1>8. \A row \in ToSet(rows) : IsRow(row) /\ row.path = <<>> /\ RowShape(row)
  <2> TAKE row \in ToSet(rows)
  <2>1. PICK j \in DOMAIN rows : row = rows[j]
    BY DEF ToSet
  <2> QED BY <1>6, <1>7, <2>1
<1>9. \A i, j \in DOMAIN rows : rows[i].block = rows[j].block => i = j
  BY <1>4, <1>5, <1>6, <1>7
<1> QED BY <1>5, <1>8, <1>9 DEF rows

LEMMA OwnCalls ==
    ASSUME NEW c \in Configs, NEW d \in Dir, NEW o \in Override
    PROVE  LET own == parsed[c[d]][o]
           IN  /\ own = [resources |-> own.resources, modules |-> own.modules, diags |-> own.diags]
               /\ IsList(own.modules)
               /\ \A call \in ToSet(own.modules) :
                    call.name \in Name /\ call.pos \in Nat /\ call.local \in BOOLEAN
               /\ \A i, j \in DOMAIN own.modules : own.modules[i].pos = own.modules[j].pos => i = j
               /\ own.diags \in Seq(OwnDiag)
               /\ \A call \in ToSet(own.modules) : ~call.local =>
                    \E g \in ToSet(own.diags) : g.kind = "non-local" /\ g.pos = call.pos
<1> DEFINE p == Given(c, d, o)
           B == Blocks(c[d])
           n == Len(B)
           own == parsed[c[d]][o]
           calls == own.modules
<1>0. ParsedSoFar(p, n, own)
  BY ParsedIs
<1>1. PICK m : /\ IsPick(m, n) /\ calls = [j \in DOMAIN m |-> CallOf(p, m[j])]
               /\ \A j \in DOMAIN m : IsCall(p, m[j])
  BY <1>0 DEF ParsedSoFar, CallsGathered
<1>2. /\ n \in Nat /\ DOMAIN B = 1 .. n
      /\ \A i \in 1 .. n : B[i].pos \in Nat /\ (B[i].kind = "module" => B[i].name \in Name)
  BY ParsedIs
<1>3. p.blocks = B
  BY DEF Given
<1>4. \A i, j \in 1 .. n : B[i].pos = B[j].pos => i = j
  <2>1. \A i, j \in DOMAIN B : B[i].pos = B[j].pos => i = j
    BY ConfigsAssumption
  <2> HIDE DEF B, n
  <2> QED BY <1>2, <2>1
<1> HIDE DEF p, B, n, own, calls
<1>5. /\ IsList(calls) /\ DOMAIN calls = DOMAIN m
      /\ \A j \in DOMAIN m : m[j] \in 1 .. n
      /\ \A i, j \in DOMAIN m : i = j <=> m[i] = m[j]
  <2>1. DOMAIN calls = DOMAIN m /\ calls = [j \in DOMAIN m |-> calls[j]]
    BY <1>1
  <2> QED BY <1>1, <1>2, <2>1, PickedList
<1>6. \A j \in DOMAIN calls : /\ calls[j].name \in Name /\ calls[j].pos = B[m[j]].pos /\ calls[j].pos \in Nat
                              /\ calls[j].local \in BOOLEAN /\ m[j] \in 1 .. n
  <2> TAKE j \in DOMAIN calls
  <2>1. calls[j] = CallOf(p, m[j]) /\ IsCall(p, m[j]) /\ m[j] \in 1 .. n
    BY <1>1, <1>5
  <2> QED BY <1>2, <1>3, <2>1, CallIs DEF IsCall
<1>7. \A i, j \in DOMAIN calls : calls[i].pos = calls[j].pos => i = j
  BY <1>4, <1>5, <1>6
<1>8. /\ own = [resources |-> own.resources, modules |-> calls, diags |-> own.diags]
      /\ own.diags \in Seq(OwnDiag)
      /\ \A j \in DOMAIN calls : ~calls[j].local =>
           \E i \in DOMAIN own.diags : own.diags[i].kind = "non-local" /\ own.diags[i].pos = calls[j].pos
  BY <1>0 DEF ParsedSoFar, calls
<1>9. \A call \in ToSet(calls) : call.name \in Name /\ call.pos \in Nat /\ call.local \in BOOLEAN
  BY <1>6 DEF ToSet
<1>10. \A call \in ToSet(calls) : ~call.local =>
         \E g \in ToSet(own.diags) : g.kind = "non-local" /\ g.pos = call.pos
  BY <1>8 DEF ToSet
<1> QED BY <1>5, <1>7, <1>8, <1>9, <1>10 DEF own, calls

(* The names of the calls are those of the blocks, whatever the arguments.   *)
LEMMA NamesAgree ==
    ASSUME NEW c \in Configs, NEW d \in Dir, NEW o \in Override, NEW q \in Override,
           NEW i \in DOMAIN parsed[c[d]][o].modules, NEW j \in DOMAIN parsed[c[d]][o].modules, i < j
    PROVE  \E x, y \in DOMAIN parsed[c[d]][q].modules :
              /\ x < y
              /\ parsed[c[d]][q].modules[x].name = parsed[c[d]][o].modules[i].name
              /\ parsed[c[d]][q].modules[y].name = parsed[c[d]][o].modules[j].name
<1> DEFINE p == Given(c, d, o)
           r == Given(c, d, q)
           B == Blocks(c[d])
           n == Len(B)
           calls == parsed[c[d]][o].modules
           others == parsed[c[d]][q].modules
<1>1. PICK m : /\ IsPick(m, n) /\ calls = [k \in DOMAIN m |-> CallOf(p, m[k])]
               /\ \A k \in DOMAIN m : IsCall(p, m[k])
  BY ParsedIs DEF ParsedSoFar, CallsGathered
<1>2. PICK t : /\ IsPick(t, n) /\ others = [k \in DOMAIN t |-> CallOf(r, t[k])]
               /\ \A k \in 1 .. n : IsCall(r, k) => \E x \in DOMAIN t : t[x] = k
  <2>1. CallsGathered(r, n, others)
    BY ParsedIs DEF ParsedSoFar
  <2> HIDE DEF r, n, others
  <2> QED BY <2>1 DEF CallsGathered
<1>3. p.blocks = B /\ r.blocks = B /\ n \in Nat
  BY ParsedIs DEF Given
<1> HIDE DEF p, r, B, n, calls, others
<1>4. /\ DOMAIN calls = DOMAIN m /\ DOMAIN others = DOMAIN t
      /\ calls = [k \in DOMAIN m |-> calls[k]] /\ others = [k \in DOMAIN t |-> others[k]]
  BY <1>1, <1>2
<1>5. /\ \A k \in DOMAIN m : m[k] \in 1 .. n
      /\ \A k, l \in DOMAIN m : k < l <=> m[k] < m[l]
  BY <1>1, <1>3, <1>4, PickedList
<1>6. \A k, l \in DOMAIN t : k < l <=> t[k] < t[l]
  BY <1>2, <1>3, <1>4, PickedList
<1>7. m[i] \in 1 .. n /\ m[j] \in 1 .. n /\ m[i] < m[j] /\ IsCall(r, m[i]) /\ IsCall(r, m[j])
  <2>1. i \in DOMAIN m /\ j \in DOMAIN m
    BY <1>4 DEF calls
  <2> QED BY <1>1, <1>3, <1>5, <2>1 DEF IsCall
<1>8. PICK x \in DOMAIN t : t[x] = m[i]
  BY <1>2, <1>7
<1>9. PICK y \in DOMAIN t : t[y] = m[j]
  BY <1>2, <1>7
<1>10. x < y
  BY <1>6, <1>7, <1>8, <1>9
<1>11. others[x].name = calls[i].name /\ others[y].name = calls[j].name
  <2>1. i \in DOMAIN m /\ j \in DOMAIN m
    BY <1>4 DEF calls
  <2> QED BY <1>1, <1>2, <1>3, <1>8, <1>9, <2>1, CallIs
<1> QED BY <1>4, <1>10, <1>11 DEF calls, others

-----------------------------------------------------------------------------
(* The order of module paths and of call sites.                             *)

LEMMA PathIs ==
    ASSUME NEW p \in Seq(Name)
    PROVE  Len(p) \in Nat /\ DOMAIN p = 1 .. Len(p) /\ \A i \in DOMAIN p : i \in Nat /\ p[i] \in Nat /\ p[i] \in Name
<1>1. Len(p) \in Nat /\ DOMAIN p = 1 .. Len(p) /\ \A i \in DOMAIN p : i \in Nat /\ p[i] \in Name
  OBVIOUS
<1> QED BY <1>1, NamesAssumption

(* The paths agree before d, where one ends or the names differ.             *)
DiffersAt(p, q, d) ==
    /\ d <= Len(p) + 1 /\ d <= Len(q) + 1
    /\ \A j \in 1 .. d - 1 : p[j] = q[j]
    /\ \/ d = Len(p) + 1 /\ d <= Len(q)
       \/ d = Len(q) + 1 /\ d <= Len(p)
       \/ d <= Len(p) /\ d <= Len(q) /\ p[d] # q[d]

LEMMA FirstDifference ==
    ASSUME NEW p \in Seq(Name), NEW q \in Seq(Name), p # q
    PROVE  \E d \in Nat \ {0} : DiffersAt(p, q, d)
<1> DEFINE m == IF Len(p) < Len(q) THEN Len(q) ELSE Len(p)
           G == {i \in 1 .. m : i > Len(p) \/ i > Len(q) \/ p[i] # q[i]}
<1>1. /\ Len(p) \in Nat /\ Len(q) \in Nat /\ m \in Nat
      /\ Len(p) <= m /\ Len(q) <= m /\ (m = Len(p) \/ m = Len(q))
  BY PathIs
<1>2. G # {}
  <2>1. Len(p) = Len(q) => \E i \in 1 .. Len(p) : p[i] # q[i]
    OBVIOUS
  <2>2. Len(p) # Len(q) => m \in G
    BY <1>1
  <2>3. Len(p) = Len(q) => m = Len(p)
    OBVIOUS
  <2> QED BY <2>1, <2>2, <2>3
<1>3. PICK d \in G : \A j \in G : d <= j
  <2>1. G \in SUBSET (0 .. m)
    OBVIOUS
  <2> HIDE DEF G, m
  <2> QED BY <1>1, <1>2, <2>1, Extremes
<1>4. d \in 1 .. m /\ (d > Len(p) \/ d > Len(q) \/ p[d] # q[d])
  BY <1>3
<1>5. \A j \in 1 .. d - 1 : j <= Len(p) /\ j <= Len(q) /\ p[j] = q[j]
  <2> TAKE j \in 1 .. d - 1
  <2>1. j \in 1 .. m /\ j < d
    BY <1>1, <1>4
  <2>2. j \notin G
    BY <1>1, <1>3, <1>4, <2>1
  <2> QED BY <1>1, <2>1, <2>2
<1>6. d = 1 \/ d - 1 \in 1 .. d - 1
  BY <1>4
<1>7. d <= Len(p) + 1 /\ d <= Len(q) + 1
  BY <1>1, <1>4, <1>5, <1>6
<1> HIDE DEF G
<1> QED BY <1>1, <1>4, <1>5, <1>7 DEF DiffersAt

LEMMA PathsCompare ==
    ASSUME NEW p \in Seq(Name), NEW q \in Seq(Name)
    PROVE  LexLess(p, q) <=> \E d \in Nat \ {0} : /\ DiffersAt(p, q, d) /\ d <= Len(q)
                                                  /\ d <= Len(p) => p[d] < q[d]
<1>1. /\ Len(p) \in Nat /\ DOMAIN p = 1 .. Len(p) /\ Len(q) \in Nat /\ DOMAIN q = 1 .. Len(q)
      /\ \A i \in 1 .. Len(p) : p[i] \in Nat
      /\ \A i \in 1 .. Len(q) : q[i] \in Nat
  BY PathIs
<1>2. ASSUME LexLess(p, q)
      PROVE  \E d \in Nat \ {0} : DiffersAt(p, q, d) /\ d <= Len(q) /\ (d <= Len(p) => p[d] < q[d])
  <2>1. CASE Len(p) < Len(q) /\ \A i \in DOMAIN p : p[i] = q[i]
    <3> DEFINE d == Len(p) + 1
    <3>1. d \in Nat \ {0} /\ DiffersAt(p, q, d) /\ d <= Len(q) /\ ~(d <= Len(p))
      BY SMTT(30), <1>1, <2>1 DEF DiffersAt
    <3> QED BY <3>1
  <2>2. CASE \E i \in DOMAIN p \intersect DOMAIN q : p[i] < q[i] /\ \A j \in 1 .. i - 1 : p[j] = q[j]
    <3>1. PICK i \in DOMAIN p \intersect DOMAIN q : p[i] < q[i] /\ \A j \in 1 .. i - 1 : p[j] = q[j]
      BY <2>2
    <3>2. i \in Nat \ {0} /\ i <= Len(p) /\ i <= Len(q) /\ p[i] # q[i]
      BY <1>1, <3>1
    <3>3. DiffersAt(p, q, i)
      BY <1>1, <3>1, <3>2 DEF DiffersAt
    <3> QED BY <3>1, <3>2, <3>3
  <2> QED BY <1>2, <2>1, <2>2 DEF LexLess
<1>3. ASSUME NEW d \in Nat \ {0}, DiffersAt(p, q, d), d <= Len(q), d <= Len(p) => p[d] < q[d]
      PROVE  LexLess(p, q)
  <2>1. CASE d <= Len(p)
    <3>1. d \in DOMAIN p \intersect DOMAIN q /\ p[d] < q[d] /\ \A j \in 1 .. d - 1 : p[j] = q[j]
      BY <1>1, <1>3, <2>1 DEF DiffersAt
    <3> QED BY <3>1 DEF LexLess
  <2>2. CASE d = Len(p) + 1
    <3>1. d - 1 = Len(p)
      BY <1>1, <2>2
    <3>2. Len(p) < Len(q) /\ \A i \in DOMAIN p : p[i] = q[i]
      BY <1>1, <1>3, <2>2, <3>1 DEF DiffersAt
    <3> QED BY <3>2 DEF LexLess
  <2> QED BY <1>1, <1>3, <2>1, <2>2 DEF DiffersAt
<1> QED BY <1>2, <1>3

(* A path as it is printed, behind a slash: where its names end.             *)
LeadStep(path, acc, n) == acc \o <<Slash>> \o Spelling[n]

EndAt(path, e, i, a) ==
    /\ e[i - 1] \in Nat /\ e[i] = e[i - 1] + 1 + Len(Spelling[path[i]]) /\ e[i] <= Len(a)
    /\ a[e[i - 1] + 1] = Slash
    /\ \A j \in 1 .. Len(Spelling[path[i]]) : a[e[i - 1] + 1 + j] = Spelling[path[i]][j]

IsLed(path, k, a) ==
    /\ a \in Seq(Nat)
    /\ \E e \in [0 .. k -> Nat] : /\ e[0] = 0 /\ e[k] = Len(a)
                                  /\ \A i \in 1 .. k : EndAt(path, e, i, a)

Leading == INSTANCE FoldProofs WITH FoldStep <- LeadStep, FoldHolds <- IsLed

LEMMA SpellingIs ==
    ASSUME NEW n \in Name
    PROVE  /\ Spelling[n] \in Seq(Nat) /\ Len(Spelling[n]) \in Nat \ {0}
           /\ \A j \in 1 .. Len(Spelling[n]) : Spelling[n][j] \in Nat /\ Spelling[n][j] # Slash
<1> DEFINE w == Spelling[n]
<1>1. w \in Seq(Nat) /\ w # <<>> /\ Slash \notin ToSet(w)
  BY SpellingAssumption
<1> HIDE DEF w
<1>2. Len(w) \in Nat \ {0} /\ DOMAIN w = 1 .. Len(w) /\ \A j \in 1 .. Len(w) : w[j] \in Nat
  BY <1>1
<1>3. \A j \in 1 .. Len(w) : w[j] # Slash
  BY <1>1, <1>2 DEF ToSet
<1> QED BY <1>1, <1>2, <1>3 DEF w

Led(path) == FoldLeft(LAMBDA acc, n : acc \o <<Slash>> \o Spelling[n], <<>>, path)

LEMMA LedIs == ASSUME NEW path \in Seq(Name) PROVE IsLed(path, Len(path), Led(path))
<1> DEFINE n == Len(path)
<1>1. Led(path) = Leading!Folded(path, <<>>, path)
  <2>1. Led(path) = FoldLeft(LAMBDA a, x : LeadStep(path, a, x), <<>>, path)
    BY DEF Led, LeadStep
  <2>2. Leading!Folded(path, <<>>, path) = FoldLeft(LAMBDA a, x : LeadStep(path, a, x), <<>>, path)
    BY DEF Leading!Folded, Leading!Greatest, FoldLeft, MapThenFoldSet, Max
  <2> QED BY <2>1, <2>2
<1>2. n \in Nat /\ DOMAIN path = 1 .. n /\ \A i \in 1 .. n : path[i] \in Name
  OBVIOUS
<1> HIDE DEF n
<1>3. IsLed(path, 0, <<>>)
  <2> DEFINE e == [i \in 0 .. 0 |-> 0]
  <2>1. e \in [0 .. 0 -> Nat] /\ e[0] = 0 /\ Len(<<>>) = 0 /\ 1 .. 0 = {} /\ <<>> \in Seq(Nat)
    OBVIOUS
  <2> HIDE DEF e
  <2> QED BY <2>1 DEF IsLed
<1>4. ASSUME NEW k \in 1 .. n, NEW a, IsLed(path, k - 1, a) PROVE IsLed(path, k, LeadStep(path, a, path[k]))
  <2> DEFINE w == Spelling[path[k]]
             b == LeadStep(path, a, path[k])
  <2>1. a \in Seq(Nat)
    BY <1>4 DEF IsLed
  <2>2. PICK e \in [0 .. k - 1 -> Nat] : /\ e[0] = 0 /\ e[k - 1] = Len(a)
                                          /\ \A i \in 1 .. k - 1 : EndAt(path, e, i, a)
    BY <1>4 DEF IsLed
  <2>3. w \in Seq(Nat) /\ Len(w) \in Nat \ {0}
    BY <1>2, SpellingIs
  <2>4. /\ b \in Seq(Nat) /\ Len(b) = Len(a) + 1 + Len(w) /\ Len(a) \in Nat
        /\ \A i \in 1 .. Len(a) : b[i] = a[i]
        /\ b[Len(a) + 1] = Slash
        /\ \A j \in 1 .. Len(w) : b[Len(a) + 1 + j] = w[j]
    <3>1. b = (a \o <<Slash>>) \o w
      BY DEF LeadStep
    <3> HIDE DEF b, w
    <3> DEFINE c == a \o <<Slash>>
    <3>2. /\ c \in Seq(Nat) /\ Len(c) = Len(a) + 1 /\ Len(a) \in Nat
          /\ \A i \in 1 .. Len(a) : c[i] = a[i]
          /\ c[Len(a) + 1] = Slash
      BY <2>1 DEF Slash
    <3> HIDE DEF c
    <3>3. /\ c \o w \in Seq(Nat) /\ Len(c \o w) = Len(c) + Len(w)
          /\ \A i \in 1 .. Len(c) : (c \o w)[i] = c[i]
          /\ \A j \in 1 .. Len(w) : (c \o w)[Len(c) + j] = w[j]
      <4>1. c \in Seq(Nat) /\ w \in Seq(Nat)
        BY <2>3, <3>2
      <4> QED BY <4>1
    <3>4. b = c \o w
      BY <3>1 DEF c
    <3>5. \A i \in 1 .. Len(a) + 1 : b[i] = c[i]
      BY <3>2, <3>3, <3>4
    <3>6. (\A i \in 1 .. Len(a) : i \in 1 .. Len(a) + 1) /\ Len(a) + 1 \in 1 .. Len(a) + 1
      BY <3>2
    <3> QED BY <3>2, <3>3, <3>4, <3>5, <3>6
  <2> HIDE DEF b, w
  <2> DEFINE f == [i \in 0 .. k |-> IF i = k THEN Len(b) ELSE e[i]]
  <2>l. Len(a) \in Nat /\ Len(b) \in Nat /\ Len(w) \in Nat /\ Len(b) = Len(a) + 1 + Len(w)
    <3>1. a \in Seq(Nat) /\ b \in Seq(Nat) /\ w \in Seq(Nat) /\ Len(b) = Len(a) + 1 + Len(w)
      BY <2>1, <2>3, <2>4
    <3> QED BY <3>1
  <2>5. k \in Nat /\ k - 1 \in Nat /\ k # 0
    BY <1>2
  <2>6. f \in [0 .. k -> Nat] /\ f[k] = Len(b) /\ (\A i \in 0 .. k - 1 : f[i] = e[i])
    <3>1. \A i \in 0 .. k : i # k => i \in 0 .. k - 1
      BY <2>5
    <3>2. \A i \in 0 .. k - 1 : i \in 0 .. k /\ i # k
      BY <2>5
    <3>3. Len(b) \in Nat /\ k \in 0 .. k
      BY <2>5, <2>l
    <3> QED BY <3>1, <3>2, <3>3
  <2>7. f[0] = 0
    BY <2>2, <2>5, <2>6
  <2> HIDE DEF f
  <2>8. ASSUME NEW i \in 1 .. k - 1 PROVE EndAt(path, f, i, b)
    <3>1. f[i] = e[i] /\ f[i - 1] = e[i - 1] /\ e[i - 1] \in Nat /\ e[i] \in Nat
      BY <2>5, <2>6
    <3>2. EndAt(path, e, i, a)
      BY <2>2
    <3>3. i \in 1 .. n
      BY <1>2, <2>5
    <3> DEFINE v == Spelling[path[i]]
    <3>4. Len(v) \in Nat
      BY <1>2, <3>3, SpellingIs
    <3>5. /\ e[i] = e[i - 1] + 1 + Len(v) /\ e[i] <= Len(a) /\ a[e[i - 1] + 1] = Slash
          /\ \A j \in 1 .. Len(v) : a[e[i - 1] + 1 + j] = v[j]
      BY <3>2 DEF EndAt
    <3> HIDE DEF v
    <3> DEFINE s == e[i - 1]
    <3>6. s \in Nat /\ e[i] = s + 1 + Len(v)
      BY <3>1, <3>5
    <3>l. Len(a) \in Nat /\ s + 1 + Len(v) <= Len(a)
      BY <2>l, <3>5, <3>6
    <3> HIDE DEF s
    <3>7. s + 1 \in 1 .. Len(a) /\ \A j \in 1 .. Len(v) : s + 1 + j \in 1 .. Len(a)
      BY <3>4, <3>6, <3>l
    <3>8. b[s + 1] = a[s + 1] /\ \A j \in 1 .. Len(v) : b[s + 1 + j] = a[s + 1 + j]
      BY <2>4, <3>7
    <3>9. e[i] <= Len(b)
      BY <2>l, <3>1, <3>5
    <3>10. /\ b[e[i - 1] + 1] = Slash
           /\ \A j \in 1 .. Len(v) : b[e[i - 1] + 1 + j] = v[j]
      BY <3>5, <3>8 DEF s
    <3> QED BY <3>1, <3>5, <3>9, <3>10 DEF EndAt, v
  <2>9. EndAt(path, f, k, b)
    <3>1. f[k - 1] = Len(a)
      BY <2>2, <2>5, <2>6
    <3>2. /\ f[k] = Len(a) + 1 + Len(w) /\ f[k] <= Len(b) /\ b[Len(a) + 1] = Slash
          /\ \A j \in 1 .. Len(w) : b[Len(a) + 1 + j] = w[j]
      BY <2>4, <2>6, <2>l
    <3> QED BY <2>l, <3>1, <3>2 DEF EndAt, w
  <2>10. \A i \in 1 .. k : EndAt(path, f, i, b)
    <3>1. \A i \in 1 .. k : i = k \/ i \in 1 .. k - 1
      BY <2>5
    <3> QED BY <2>8, <2>9, <3>1
  <2>11. IsLed(path, k, b)
    BY <2>4, <2>6, <2>7, <2>10 DEF IsLed
  <2> QED BY <2>11 DEF b
<1>5. IsLed(path, n, Leading!Folded(path, <<>>, path))
  BY <1>2, <1>3, <1>4, Leading!FoldInduction
<1> QED BY <1>1, <1>5 DEF n

(* A name ends at the next slash, so the names that begin at one place are   *)
(* one.                                                                      *)
LEMMA NoLonger ==
    ASSUME NEW p \in Seq(Name), NEW q \in Seq(Name), NEW n \in Nat, NEW m \in Nat, NEW a,
           NEW e \in [0 .. n -> Nat], NEW f \in [0 .. m -> Nat],
           n = Len(p), m = Len(q), e[n] = Len(a),
           \A i \in 1 .. n : EndAt(p, e, i, a), \A i \in 1 .. m : EndAt(q, f, i, a),
           NEW d \in Nat \ {0}, d <= n, d <= m, e[d - 1] = f[d - 1]
    PROVE  f[d] <= e[d]
<1> SUFFICES ASSUME e[d] < f[d] PROVE FALSE
  <2>1. e[d] \in Nat /\ f[d] \in Nat
    OBVIOUS
  <2> QED BY <2>1
<1> DEFINE w == Spelling[q[d]]
           v == Spelling[p[d]]
           s == e[d - 1]
<1>1. p[d] \in Name /\ q[d] \in Name
  BY PathIs
<1>2. Len(w) \in Nat /\ Len(v) \in Nat /\ \A j \in 1 .. Len(w) : w[j] # Slash
  BY <1>1, SpellingIs
<1>3. /\ s \in Nat /\ e[d] = s + 1 + Len(v) /\ f[d] = s + 1 + Len(w) /\ f[d] <= Len(a)
      /\ \A j \in 1 .. Len(w) : a[s + 1 + j] = w[j]
  BY DEF EndAt
<1> HIDE DEF w, v, s
<1>4. d # n
  BY <1>2, <1>3
<1>5. d + 1 \in 1 .. n /\ (d + 1) - 1 = d
  BY <1>4
<1>6. a[e[d] + 1] = Slash
  BY <1>5 DEF EndAt
<1> DEFINE j == Len(v) + 1
<1>7. j \in 1 .. Len(w) /\ e[d] + 1 = s + 1 + j
  BY <1>2, <1>3
<1> HIDE DEF j
<1> QED BY <1>2, <1>3, <1>6, <1>7

LEMMA LedTells ==
    ASSUME NEW p \in Seq(Name), NEW q \in Seq(Name), Led(p) = Led(q)
    PROVE  p = q
<1> DEFINE n == Len(p)
           m == Len(q)
           a == Led(p)
<1> SUFFICES ASSUME p # q PROVE FALSE
  OBVIOUS
<1>1. n \in Nat /\ m \in Nat /\ IsLed(p, n, a) /\ IsLed(q, m, a)
  BY LedIs
<1>2. PICK d \in Nat \ {0} : DiffersAt(p, q, d)
  BY FirstDifference
<1> HIDE DEF a
<1>3. PICK e \in [0 .. n -> Nat] : e[0] = 0 /\ e[n] = Len(a) /\ \A i \in 1 .. n : EndAt(p, e, i, a)
  BY <1>1 DEF IsLed
<1>4. PICK f \in [0 .. m -> Nat] : f[0] = 0 /\ f[m] = Len(a) /\ \A i \in 1 .. m : EndAt(q, f, i, a)
  BY <1>1 DEF IsLed
<1>5. /\ d - 1 \in Nat /\ d - 1 <= n /\ d - 1 <= m /\ \A i \in 1 .. d - 1 : p[i] = q[i]
      /\ \/ d = n + 1 /\ d <= m
         \/ d = m + 1 /\ d <= n
         \/ d <= n /\ d <= m /\ p[d] # q[d]
  BY <1>1, <1>2 DEF DiffersAt
<1> HIDE DEF n, m
<1>6. e[d - 1] = f[d - 1]
  <2> DEFINE k == d - 1
             G == {i \in 0 .. k : e[i] # f[i]}
  <2>1. k \in Nat /\ k <= n /\ k <= m /\ \A i \in 1 .. k : p[i] = q[i]
    BY <1>5
  <2> HIDE DEF k
  <2> SUFFICES ASSUME e[k] # f[k] PROVE FALSE
    BY DEF k
  <2>2. G # {} /\ G \in SUBSET (0 .. k)
    BY <2>1
  <2> HIDE DEF G
  <2>3. PICK i \in G : \A j \in G : i <= j
    BY <2>1, <2>2, Extremes
  <2>4. i \in 0 .. k /\ e[i] # f[i]
    BY <2>3 DEF G
  <2>5. i # 0 /\ i \in 1 .. k /\ i - 1 \in 0 .. k
    BY <1>3, <1>4, <2>1, <2>4
  <2>6. i - 1 \notin G
    BY <2>3, <2>5
  <2>7. e[i - 1] = f[i - 1]
    BY <2>5, <2>6 DEF G
  <2>8. i \in 1 .. n /\ i \in 1 .. m /\ p[i] = q[i]
    BY <1>1, <2>1, <2>5
  <2>9. EndAt(p, e, i, a) /\ EndAt(q, f, i, a)
    BY <1>3, <1>4, <2>8
  <2>10. e[i] = e[i - 1] + 1 + Len(Spelling[p[i]]) /\ f[i] = f[i - 1] + 1 + Len(Spelling[q[i]])
    BY <2>9 DEF EndAt
  <2> QED BY <2>4, <2>7, <2>8, <2>10
<1>7. CASE d = n + 1 /\ d <= m
  <2>0. d \in 1 .. m
    BY <1>1, <1>7
  <2>1. f[d] = f[d - 1] + 1 + Len(Spelling[q[d]]) /\ f[d] <= Len(a) /\ f[d - 1] \in Nat
    <3>1. EndAt(q, f, d, a)
      BY <1>4, <2>0
    <3> QED BY <3>1 DEF EndAt
  <2>2. Len(Spelling[q[d]]) \in Nat
    <3>1. q[d] \in Name
      BY <1>1, <1>7, PathIs DEF m
    <3> QED BY <3>1, SpellingIs
  <2>3. f[d - 1] = Len(a)
    <3>1. d - 1 = n
      BY <1>1, <1>7
    <3> QED BY <1>3, <1>6, <3>1
  <2> DEFINE g == f[d - 1]
             w == Spelling[q[d]]
  <2>4. g \in Nat /\ Len(w) \in Nat /\ f[d] = g + 1 + Len(w) /\ f[d] <= g
    BY <2>1, <2>2, <2>3
  <2> HIDE DEF g, w
  <2> QED BY <2>4
<1>8. CASE d = m + 1 /\ d <= n
  <2>0. d \in 1 .. n
    BY <1>1, <1>8
  <2>1. e[d] = e[d - 1] + 1 + Len(Spelling[p[d]]) /\ e[d] <= Len(a) /\ e[d - 1] \in Nat
    <3>1. EndAt(p, e, d, a)
      BY <1>3, <2>0
    <3> QED BY <3>1 DEF EndAt
  <2>2. Len(Spelling[p[d]]) \in Nat
    <3>1. p[d] \in Name
      BY <1>1, <1>8, PathIs DEF n
    <3> QED BY <3>1, SpellingIs
  <2>3. e[d - 1] = Len(a)
    <3>1. d - 1 = m
      BY <1>1, <1>8
    <3> QED BY <1>4, <1>6, <3>1
  <2> DEFINE g == e[d - 1]
             w == Spelling[p[d]]
  <2>4. g \in Nat /\ Len(w) \in Nat /\ e[d] = g + 1 + Len(w) /\ e[d] <= g
    BY <2>1, <2>2, <2>3
  <2> HIDE DEF g, w
  <2> QED BY <2>4
<1>9. CASE d <= n /\ d <= m /\ p[d] # q[d]
  <2> DEFINE v == Spelling[p[d]]
             w == Spelling[q[d]]
             s == e[d - 1]
  <2>1. f[d] <= e[d] /\ e[d] <= f[d]
    <3>1. f[d] <= e[d]
      BY <1>1, <1>3, <1>4, <1>6, <1>9, NoLonger DEF n, m
    <3>2. e[d] <= f[d]
      BY <1>1, <1>3, <1>4, <1>6, <1>9, NoLonger DEF n, m
    <3> QED BY <3>1, <3>2
  <2>2. p[d] \in Name /\ q[d] \in Name
    BY <1>1, <1>9, PathIs DEF n, m
  <2>3. d \in 1 .. n /\ d \in 1 .. m
    BY <1>1, <1>9
  <2>4. /\ e[d] = s + 1 + Len(v) /\ f[d] = s + 1 + Len(w) /\ s \in Nat
        /\ \A j \in 1 .. Len(v) : a[s + 1 + j] = v[j]
        /\ \A j \in 1 .. Len(w) : a[s + 1 + j] = w[j]
    BY <1>3, <1>4, <1>6, <2>3 DEF EndAt
  <2>5. v \in Seq(Nat) /\ w \in Seq(Nat)
    BY <2>2, SpellingIs
  <2> HIDE DEF v, w, s
  <2>6. Len(v) = Len(w)
    <3>1. Len(v) \in Nat /\ Len(w) \in Nat
      BY <2>5
    <3> QED BY <2>1, <2>4, <3>1
  <2>7. \A j \in 1 .. Len(v) : v[j] = w[j]
    BY <2>4, <2>6
  <2>8. v = w
    <3>1. v = [j \in 1 .. Len(v) |-> v[j]] /\ w = [j \in 1 .. Len(w) |-> w[j]]
      BY <2>5
    <3> QED BY <2>6, <2>7, <3>1
  <2> QED BY <1>9, <2>2, <2>8, SpellingAssumption DEF v, w
<1> QED BY <1>5, <1>7, <1>8, <1>9

(* Different paths are printed differently.                                  *)
LEMMA PathKeyTells ==
    /\ \A p \in Seq(Name) : PathKey(p) \in Seq(Nat)
    /\ \A p, q \in Seq(Name) : PathKey(p) = PathKey(q) => p = q
<1>1. \A p : PathKey(p) = SubSeq(Led(p), 2, Len(Led(p)))
  BY DEF PathKey, Led
<1>2. ASSUME NEW p \in Seq(Name)
      PROVE  Led(p) \in Seq(Nat) /\ (Led(p) = <<>> \/ (Len(Led(p)) >= 2 /\ Led(p)[1] = Slash))
  <2> DEFINE n == Len(p)
             a == Led(p)
  <2>1. IsLed(p, n, a) /\ n \in Nat
    BY LedIs
  <2>2. \A i \in 1 .. n : Len(Spelling[p[i]]) \in Nat \ {0}
    BY PathIs, SpellingIs
  <2> HIDE DEF n, a
  <2>3. PICK e \in [0 .. n -> Nat] : e[0] = 0 /\ e[n] = Len(a) /\ \A i \in 1 .. n : EndAt(p, e, i, a)
    BY <2>1 DEF IsLed
  <2>4. a \in Seq(Nat)
    BY <2>1 DEF IsLed
  <2>5. CASE n = 0
    <3>1. Len(a) = 0
      BY <2>3, <2>5
    <3>2. a = <<>>
      BY <2>4, <3>1
    <3> QED BY <2>4, <3>2 DEF a
  <2>6. CASE n # 0
    <3>1. 1 \in 1 .. n /\ 1 - 1 = 0
      BY <2>1, <2>6
    <3>2. EndAt(p, e, 1, a)
      BY <2>3, <3>1
    <3>3. e[1] = 0 + 1 + Len(Spelling[p[1]]) /\ e[1] <= Len(a) /\ a[0 + 1] = Slash
      BY <2>3, <3>1, <3>2 DEF EndAt
    <3>4. Len(a) >= 2 /\ a[1] = Slash
      BY <2>2, <2>4, <3>1, <3>3
    <3> QED BY <2>4, <3>4 DEF a
  <2> QED BY <2>5, <2>6
<1>3. ASSUME NEW a \in Seq(Nat)
      PROVE  /\ SubSeq(a, 2, Len(a)) \in Seq(Nat)
             /\ a = <<>> => SubSeq(a, 2, Len(a)) = <<>>
             /\ Len(a) >= 2 => /\ Len(SubSeq(a, 2, Len(a))) = Len(a) - 1
                               /\ \A i \in 1 .. Len(a) - 1 : SubSeq(a, 2, Len(a))[i] = a[i + 1]
  OBVIOUS
<1>4. ASSUME NEW p \in Seq(Name), NEW q \in Seq(Name), PathKey(p) = PathKey(q) PROVE p = q
  <2> DEFINE a == Led(p)
             b == Led(q)
             s == SubSeq(a, 2, Len(a))
             t == SubSeq(b, 2, Len(b))
  <2>1. a \in Seq(Nat) /\ b \in Seq(Nat) /\ s = t
    BY <1>1, <1>2, <1>4
  <2>2. (a = <<>> \/ (Len(a) >= 2 /\ a[1] = Slash)) /\ (b = <<>> \/ (Len(b) >= 2 /\ b[1] = Slash))
    BY <1>2
  <2>3. /\ a = <<>> => s = <<>>
        /\ Len(a) >= 2 => (Len(s) = Len(a) - 1) /\ \A i \in 1 .. Len(a) - 1 : s[i] = a[i + 1]
    BY <1>3, <2>1
  <2>4. /\ b = <<>> => t = <<>>
        /\ Len(b) >= 2 => Len(t) = Len(b) - 1 /\ \A i \in 1 .. Len(b) - 1 : t[i] = b[i + 1]
    BY <1>3, <2>1
  <2> HIDE DEF a, b, s, t
  <2>5. a = b
    <3>1. Len(a) \in Nat /\ Len(b) \in Nat /\ Len(<<>>) = 0
      BY <2>1
    <3>2. CASE a = <<>> \/ b = <<>>
      BY <2>1, <2>2, <2>3, <2>4, <3>1, <3>2
    <3>3. CASE Len(a) >= 2 /\ Len(b) >= 2
      <4>1. Len(a) = Len(b)
        BY <2>1, <2>3, <2>4, <3>1, <3>3
      <4>2. ASSUME NEW i \in 1 .. Len(a) PROVE a[i] = b[i]
        <5>1. CASE i = 1
          BY <2>2, <3>1, <3>3, <5>1
        <5>2. CASE i # 1
          <6> DEFINE j == i - 1
          <6>1. j \in 1 .. Len(a) - 1 /\ j + 1 = i
            BY <3>1, <5>2
          <6> HIDE DEF j
          <6>2. s[j] = a[j + 1] /\ t[j] = b[j + 1]
            BY <2>3, <2>4, <3>3, <4>1, <6>1
          <6> QED BY <2>1, <6>1, <6>2
        <5> QED BY <5>1, <5>2
      <4>3. a = [i \in 1 .. Len(a) |-> a[i]] /\ b = [i \in 1 .. Len(b) |-> b[i]]
        BY <2>1
      <4> QED BY <4>1, <4>2, <4>3
    <3> QED BY <2>2, <3>2, <3>3
  <2> QED BY <2>5, LedTells DEF a, b
<1> QED BY <1>1, <1>2, <1>3, <1>4

(* Sites are in a strict order, and only equal ones have one place in it.    *)
LEMMA SiteLessOrders ==
    /\ \A s \in SiteRow : ~SiteLess(s, s)
    /\ \A s, t \in SiteRow : s # t => SiteLess(s, t) \/ SiteLess(t, s)
    /\ \A s, t, u \in SiteRow : SiteLess(s, t) /\ SiteLess(t, u) => SiteLess(s, u)
<1>1. \A s \in SiteRow : s = [pos |-> s.pos, path |-> s.path] /\ s.pos \in Nat /\ s.path \in Seq(Name)
  BY DEF SiteRow
<1>2. \A s \in SiteRow : PathKey(s.path) \in Seq(Nat)
  BY <1>1, PathKeyTells
<1>3. \A s \in SiteRow : ~SiteLess(s, s)
  <2> TAKE s \in SiteRow
  <2>1. ~LexLess(PathKey(s.path), PathKey(s.path))
    BY <1>2, LexLessIsStrict
  <2>2. ~(s.pos < s.pos)
    BY <1>1
  <2> QED BY <2>1, <2>2 DEF SiteLess
<1>4. ASSUME NEW s \in SiteRow, NEW t \in SiteRow, s # t PROVE SiteLess(s, t) \/ SiteLess(t, s)
  <2>1. s.pos # t.pos \/ PathKey(s.path) # PathKey(t.path)
    BY <1>1, <1>4, PathKeyTells
  <2>2. PathKey(s.path) # PathKey(t.path) =>
          LexLess(PathKey(s.path), PathKey(t.path)) \/ LexLess(PathKey(t.path), PathKey(s.path))
    BY <1>2, LexLessIsTotal
  <2>3. s.pos # t.pos => s.pos < t.pos \/ t.pos < s.pos
    BY <1>1
  <2> QED BY <2>1, <2>2, <2>3 DEF SiteLess
<1>5. ASSUME NEW s \in SiteRow, NEW t \in SiteRow, NEW u \in SiteRow, SiteLess(s, t), SiteLess(t, u)
      PROVE  SiteLess(s, u)
  <2>1. s.pos \in Nat /\ t.pos \in Nat /\ u.pos \in Nat
    BY <1>1
  <2>2. s.pos <= t.pos /\ t.pos <= u.pos
    BY <1>5, <2>1 DEF SiteLess
  <2>3. CASE s.pos = u.pos
    <3>1. s.pos = t.pos /\ t.pos = u.pos
      BY <2>1, <2>2, <2>3
    <3>2. LexLess(PathKey(s.path), PathKey(t.path)) /\ LexLess(PathKey(t.path), PathKey(u.path))
      BY <1>5, <2>1, <3>1 DEF SiteLess
    <3>3. LexLess(PathKey(s.path), PathKey(u.path))
      BY <1>2, <3>2, LexLessIsTransitive
    <3> QED BY <2>3, <3>3 DEF SiteLess
  <2>4. CASE s.pos # u.pos
    BY <2>1, <2>2, <2>4 DEF SiteLess
  <2> QED BY <2>3, <2>4
<1> QED BY <1>3, <1>4, <1>5

(* SortSites keeps the sites, and brings them into order.                    *)
LEMMA SitesSorted ==
    ASSUME NEW s \in Seq(SiteRow)
    PROVE  LET t == SortSites(s)
           IN  /\ t \in Seq(SiteRow) /\ DOMAIN t = DOMAIN s
               /\ ToSet(t) = ToSet(s)
               /\ (\A i, j \in DOMAIN s : s[i] = s[j] => i = j) => \A i, j \in DOMAIN t : i < j => SiteLess(t[i], t[j])
<1> DEFINE n == Len(s)
           Before(i, j) == SiteLess(s[i], s[j]) \/ (i < j /\ ~SiteLess(s[j], s[i]))
           R == {e \in (1 .. n) \X (1 .. n) : Before(e[1], e[2])}
           at(k) == CHOOSE i \in 1 .. n : Cardinality({j \in 1 .. n : Before(j, i)}) = k - 1
           t == SortSites(s)
<1>1. n \in Nat /\ DOMAIN s = 1 .. n /\ \A i \in 1 .. n : s[i] \in SiteRow /\ i \in Nat
  OBVIOUS
<1>2. t = [k \in 1 .. n |-> s[at(k)]]
  BY <1>1 DEF SortSites
<1>3. \A i, j \in 1 .. n : Before(i, j) <=> SiteLess(s[i], s[j]) \/ (i < j /\ s[i] = s[j])
  BY <1>1, SiteLessOrders
<1>4. \A i, j \in 1 .. n : <<i, j>> \in R <=> Before(i, j)
  OBVIOUS
<1>5. IsFiniteSet(1 .. n) /\ Cardinality(1 .. n) = n
  BY <1>1, FS_Interval
<1> HIDE DEF R, t, Before, n
<1>6. IsStrictOrder(R, 1 .. n)
  <2>1. \A i \in 1 .. n : <<i, i>> \notin R
    BY <1>1, <1>3, <1>4, SiteLessOrders
  <2>2. \A i, j \in 1 .. n : i # j => <<i, j>> \in R \/ <<j, i>> \in R
    <3> TAKE i, j \in 1 .. n
    <3> HAVE i # j
    <3>1. i < j \/ j < i
      BY <1>1
    <3>2. s[i] = s[j] \/ SiteLess(s[i], s[j]) \/ SiteLess(s[j], s[i])
      BY <1>1, SiteLessOrders
    <3> QED BY <1>3, <1>4, <3>1, <3>2
  <2>3. \A i, j, k \in 1 .. n : <<i, j>> \in R /\ <<j, k>> \in R => <<i, k>> \in R
    <3> TAKE i, j, k \in 1 .. n
    <3> HAVE <<i, j>> \in R /\ <<j, k>> \in R
    <3>1. /\ SiteLess(s[i], s[j]) \/ (i < j /\ s[i] = s[j])
          /\ SiteLess(s[j], s[k]) \/ (j < k /\ s[j] = s[k])
      BY <1>3, <1>4
    <3>2. s[i] \in SiteRow /\ s[j] \in SiteRow /\ s[k] \in SiteRow
      BY <1>1
    <3>3. SiteLess(s[i], s[k]) \/ (i < k /\ s[i] = s[k])
      <4>1. i < j /\ j < k => i < k
        BY <1>1
      <4> QED BY <3>1, <3>2, <4>1, SiteLessOrders
    <3> QED BY <1>3, <1>4, <3>3
  <2> QED BY <2>1, <2>2, <2>3 DEF IsStrictOrder
<1>7. \A i \in 1 .. n : Cardinality({j \in 1 .. n : Before(j, i)}) = PlaceIn(R, 1 .. n, i)
  <2> TAKE i \in 1 .. n
  <2>1. {j \in 1 .. n : Before(j, i)} = Below(R, 1 .. n, i)
    BY <1>4 DEF Below
  <2> QED BY <2>1 DEF PlaceIn
<1>8. \A k \in 1 .. n : at(k) \in 1 .. n /\ PlaceIn(R, 1 .. n, at(k)) = k - 1
  <2> TAKE k \in 1 .. n
  <2>1. \E i \in 1 .. n : PlaceIn(R, 1 .. n, i) = k - 1
    <3> DEFINE S == 1 .. n
    <3>1. IsFiniteSet(S) /\ IsStrictOrder(R, S) /\ k \in 1 .. Cardinality(S)
      BY <1>5, <1>6
    <3> HIDE DEF S
    <3>2. \E i \in S : PlaceIn(R, S, i) = k - 1
      BY <3>1, PlacesAreTaken
    <3> QED BY <3>2 DEF S
  <2>2. at(k) \in 1 .. n /\ Cardinality({j \in 1 .. n : Before(j, at(k))}) = k - 1
    BY <1>7, <2>1
  <2> QED BY <1>7, <2>2
<1> HIDE DEF at
<1>9. DOMAIN t = 1 .. n /\ \A k \in 1 .. n : t[k] = s[at(k)]
  BY <1>2
<1>10. t \in Seq(SiteRow)
  <2> HIDE DEF SiteRow
  <2>1. t \in [1 .. n -> SiteRow]
    BY <1>1, <1>2, <1>8
  <2> QED BY <1>1, <2>1
<1>11. \A i \in 1 .. n : \E k \in 1 .. n : at(k) = i
  <2> TAKE i \in 1 .. n
  <2>1. PlaceIn(R, 1 .. n, i) \in 0 .. n - 1
    BY <1>5, <1>6, PlacesGrow
  <2>2. PICK k \in 1 .. n : k - 1 = PlaceIn(R, 1 .. n, i)
    BY <1>1, <2>1
  <2>3. at(k) = i
    <3>1. at(k) \in 1 .. n /\ PlaceIn(R, 1 .. n, at(k)) = PlaceIn(R, 1 .. n, i)
      BY <1>8, <2>2
    <3> QED BY <1>5, <1>6, <3>1, PlacesTell
  <2> QED BY <2>3
<1>12. ToSet(t) = ToSet(s)
  BY <1>1, <1>8, <1>9, <1>11 DEF ToSet
<1>13. ASSUME \A i, j \in DOMAIN s : s[i] = s[j] => i = j, NEW i \in 1 .. n, NEW j \in 1 .. n, i < j
       PROVE  SiteLess(t[i], t[j])
  <2>1. PlaceIn(R, 1 .. n, at(i)) < PlaceIn(R, 1 .. n, at(j))
    BY <1>8, <1>13
  <2>2. <<at(i), at(j)>> \in R
    BY <1>5, <1>6, <1>8, <2>1, PlacesTell
  <2>3. SiteLess(s[at(i)], s[at(j)]) \/ (at(i) < at(j) /\ s[at(i)] = s[at(j)])
    BY <1>3, <1>4, <1>8, <2>2
  <2>4. s[at(i)] = s[at(j)] => at(i) = at(j)
    BY <1>1, <1>8, <1>13
  <2>5. at(i) # at(j)
    BY <1>8, <2>1
  <2> QED BY <1>9, <2>3, <2>4, <2>5
<1> QED BY <1>1, <1>9, <1>10, <1>12, <1>13 DEF t

-----------------------------------------------------------------------------
(* The rows and sites of a child, as a caller takes them over.              *)

LEMMA ListIs ==
    ASSUME NEW s, IsList(s)
    PROVE  /\ s = [i \in 1 .. Len(s) |-> s[i]] /\ \A i \in DOMAIN s : i \in Nat
           /\ \A x : x \in ToSet(s) <=> \E i \in DOMAIN s : s[i] = x
<1>1. s = [i \in 1 .. Len(s) |-> s[i]]
  BY DEF IsList
<1> QED BY <1>1 DEF IsList, ToSet

LEMMA MadeList ==
    ASSUME NEW n \in Nat, NEW s, s = [i \in 1 .. n |-> s[i]]
    PROVE  IsList(s) /\ Len(s) = n
<1> DEFINE T == ToSet(s)
<1>1. \A i \in 1 .. n : s[i] \in T
  BY DEF ToSet
<1> HIDE DEF T
<1>2. s \in [1 .. n -> T]
  BY <1>1
<1>3. s \in Seq(T) /\ Len(s) = n
  BY <1>2
<1> QED BY <1>3 DEF IsList, T

LEMMA TypedList ==
    ASSUME NEW S, NEW s
    PROVE  s \in Seq(S) <=> IsList(s) /\ \A x \in ToSet(s) : x \in S
<1>1. ASSUME s \in Seq(S) PROVE IsList(s) /\ \A x \in ToSet(s) : x \in S
  <2>1. Len(s) \in Nat /\ s = [i \in 1 .. Len(s) |-> s[i]]
    BY <1>1
  <2>2. IsList(s)
    BY <2>1, MadeList
  <2> QED BY <1>1, <2>2 DEF ToSet
<1>2. ASSUME IsList(s), \A x \in ToSet(s) : x \in S PROVE s \in Seq(S)
  <2>1. Len(s) \in Nat /\ s = [i \in 1 .. Len(s) |-> s[i]] /\ \A i \in 1 .. Len(s) : s[i] \in S
    BY <1>2, ListIs DEF IsList
  <2>2. s \in [1 .. Len(s) -> S]
    BY <2>1
  <2> QED BY <2>1, <2>2
<1> QED BY <1>1, <1>2

LEMMA JoinedLists ==
    ASSUME NEW s, NEW t, IsList(s), IsList(t)
    PROVE  /\ IsList(s \o t) /\ Len(s \o t) = Len(s) + Len(t)
           /\ \A i \in 1 .. Len(s) : (s \o t)[i] = s[i]
           /\ \A i \in 1 .. Len(t) : (s \o t)[Len(s) + i] = t[i]
           /\ \A i \in DOMAIN (s \o t) : i \in 1 .. Len(s) \/ (i - Len(s) \in 1 .. Len(t) /\ (s \o t)[i] = t[i - Len(s)])
           /\ \A x : x \in ToSet(s \o t) <=> x \in ToSet(s) \/ x \in ToSet(t)
<1> DEFINE T == ToSet(s) \union ToSet(t)
           u == s \o t
<1>0. Len(s) \in Nat /\ Len(t) \in Nat /\ DOMAIN s = 1 .. Len(s) /\ DOMAIN t = 1 .. Len(t)
  BY DEF IsList
<1>1. s \in Seq(T) /\ t \in Seq(T)
  <2>1. \A x \in ToSet(s) : x \in T
    OBVIOUS
  <2>2. \A x \in ToSet(t) : x \in T
    OBVIOUS
  <2> HIDE DEF T
  <2> QED BY <2>1, <2>2, TypedList
<1> HIDE DEF T
<1>2. /\ u \in Seq(T) /\ Len(u) = Len(s) + Len(t) /\ DOMAIN u = 1 .. Len(s) + Len(t)
      /\ \A i \in 1 .. Len(s) : u[i] = s[i]
      /\ \A i \in Len(s) + 1 .. Len(s) + Len(t) : u[i] = t[i - Len(s)]
  BY <1>0, <1>1
<1>3. IsList(u)
  BY <1>2, TypedList
<1> HIDE DEF u
<1>4. \A i \in 1 .. Len(t) : u[Len(s) + i] = t[i]
  <2> TAKE i \in 1 .. Len(t)
  <2>1. Len(s) + i \in Len(s) + 1 .. Len(s) + Len(t) /\ (Len(s) + i) - Len(s) = i
    BY <1>0
  <2> QED BY <1>2, <2>1
<1>5. \A i \in DOMAIN u : i \in 1 .. Len(s) \/ (i - Len(s) \in 1 .. Len(t) /\ u[i] = t[i - Len(s)])
  BY <1>0, <1>2
<1>6. \A i \in 1 .. Len(s) : i \in DOMAIN u
  BY <1>0, <1>2
<1>7. \A i \in 1 .. Len(t) : Len(s) + i \in DOMAIN u
  BY <1>0, <1>2
<1>8. \A x : x \in ToSet(u) <=> x \in ToSet(s) \/ x \in ToSet(t)
  <2> TAKE x
  <2>1. ASSUME x \in ToSet(u) PROVE x \in ToSet(s) \/ x \in ToSet(t)
    BY <1>0, <1>2, <1>5, <2>1 DEF ToSet
  <2>2. ASSUME x \in ToSet(s) PROVE x \in ToSet(u)
    BY <1>0, <1>2, <1>6, <2>2 DEF ToSet
  <2>3. ASSUME x \in ToSet(t) PROVE x \in ToSet(u)
    BY <1>0, <1>4, <1>7, <2>3 DEF ToSet
  <2> QED BY <2>1, <2>2, <2>3
<1> QED BY <1>2, <1>3, <1>4, <1>5, <1>8 DEF u

LEMMA LongerList ==
    ASSUME NEW s, IsList(s), NEW x
    PROVE  /\ IsList(Append(s, x)) /\ Len(Append(s, x)) = Len(s) + 1
           /\ \A i \in 1 .. Len(s) : Append(s, x)[i] = s[i]
           /\ Append(s, x)[Len(s) + 1] = x
           /\ ToSet(Append(s, x)) = ToSet(s) \union {x}
<1> DEFINE T == ToSet(s) \union {x}
           u == Append(s, x)
<1>1. s \in Seq(T) /\ x \in T
  <2>1. \A y \in ToSet(s) : y \in T
    OBVIOUS
  <2>2. x \in T
    OBVIOUS
  <2> HIDE DEF T
  <2> QED BY <2>1, <2>2, TypedList
<1> HIDE DEF T
<1>2. /\ u \in Seq(T) /\ Len(u) = Len(s) + 1 /\ DOMAIN u = 1 .. Len(s) + 1 /\ Len(s) \in Nat /\ DOMAIN s = 1 .. Len(s)
      /\ \A i \in 1 .. Len(s) : u[i] = s[i]
      /\ u[Len(s) + 1] = x
  BY <1>1
<1>3. IsList(u)
  BY <1>2, TypedList
<1> HIDE DEF u
<1>4. ToSet(u) = ToSet(s) \union {x}
  <2>1. \A y : y \in ToSet(u) => y \in ToSet(s) \/ y = x
    BY <1>2 DEF ToSet
  <2>2. \A y : y \in ToSet(s) \/ y = x => y \in ToSet(u)
    BY <1>2 DEF ToSet
  <2> QED BY <2>1, <2>2
<1> QED BY <1>2, <1>3, <1>4 DEF u

(* Below a call the paths begin with its name, and all else stays.           *)
Under(n, row) == [row EXCEPT !.path = <<n>> \o @]

LEMMA PrefixedIs ==
    ASSUME NEW rows, IsList(rows), NEW n \in Name
    PROVE  /\ IsList(Prefixed(rows, n)) /\ DOMAIN Prefixed(rows, n) = DOMAIN rows
           /\ Len(Prefixed(rows, n)) = Len(rows)
           /\ \A i \in DOMAIN rows : Prefixed(rows, n)[i] = Under(n, rows[i])
           /\ \A x : x \in ToSet(Prefixed(rows, n)) <=> \E row \in ToSet(rows) : x = Under(n, row)
<1> DEFINE P == Prefixed(rows, n)
<1>1. Len(rows) \in Nat /\ DOMAIN rows = 1 .. Len(rows)
  BY DEF IsList
<1>2. DOMAIN P = 1 .. Len(rows) /\ \A i \in DOMAIN rows : P[i] = Under(n, rows[i])
  BY <1>1 DEF Prefixed, Under
<1>3. P = [i \in 1 .. Len(rows) |-> P[i]]
  BY <1>1, <1>2 DEF Prefixed
<1> HIDE DEF P
<1>4. IsList(P) /\ Len(P) = Len(rows)
  BY <1>1, <1>3, MadeList
<1>5. \A x : x \in ToSet(P) <=> \E row \in ToSet(rows) : x = Under(n, row)
  <2> TAKE x
  <2>1. ASSUME x \in ToSet(P) PROVE \E row \in ToSet(rows) : x = Under(n, row)
    <3>1. PICK i \in DOMAIN P : x = P[i]
      BY <2>1 DEF ToSet
    <3>2. i \in DOMAIN rows
      BY <1>1, <1>2
    <3>3. rows[i] \in ToSet(rows)
      BY <3>2 DEF ToSet
    <3> QED BY <1>2, <3>1, <3>2, <3>3
  <2>2. ASSUME NEW row \in ToSet(rows), x = Under(n, row) PROVE x \in ToSet(P)
    <3>1. PICK i \in DOMAIN rows : row = rows[i]
      BY DEF ToSet
    <3>2. i \in DOMAIN P /\ P[i] = x
      BY <1>1, <1>2, <2>2, <3>1
    <3> QED BY <3>2 DEF ToSet
  <2> QED BY <2>1, <2>2
<1> QED BY <1>1, <1>2, <1>4, <1>5 DEF P

(* AddSites keeps what there is, and adds what is new once.                  *)
AddSite(more, acc, s) == IF s \in ToSet(acc) THEN acc ELSE Append(acc, s)

NoRepeats(s) == \A i, j \in DOMAIN s : s[i] = s[j] => i = j

SitesAdded(p, k, acc) ==
    /\ acc \in Seq(SiteRow) /\ NoRepeats(acc)
    /\ ToSet(acc) = ToSet(p.sites) \union {p.more[i] : i \in 1 .. k}

Adding == INSTANCE FoldProofs WITH FoldStep <- AddSite, FoldHolds <- SitesAdded

LEMMA SitesAreAdded ==
    ASSUME NEW sites \in Seq(SiteRow), NEW more \in Seq(SiteRow), NoRepeats(sites)
    PROVE  /\ AddSites(sites, more) \in Seq(SiteRow) /\ NoRepeats(AddSites(sites, more))
           /\ ToSet(AddSites(sites, more)) = ToSet(sites) \union ToSet(more)
<1> DEFINE p == [sites |-> sites, more |-> more]
           n == Len(more)
<1>1. AddSites(sites, more) = Adding!Folded(p, sites, more)
  <2>1. AddSites(sites, more) = FoldLeft(LAMBDA a, x : AddSite(p, a, x), sites, more)
    BY DEF AddSites, AddSite
  <2>2. Adding!Folded(p, sites, more) = FoldLeft(LAMBDA a, x : AddSite(p, a, x), sites, more)
    BY DEF Adding!Folded, Adding!Greatest, FoldLeft, MapThenFoldSet, Max
  <2> QED BY <2>1, <2>2
<1>2. n \in Nat /\ DOMAIN more = 1 .. n /\ \A i \in 1 .. n : more[i] \in SiteRow
  OBVIOUS
<1>3. p.sites = sites /\ p.more = more
  OBVIOUS
<1> HIDE DEF p, n
<1>4. SitesAdded(p, 0, sites)
  <2>1. {p.more[i] : i \in 1 .. 0} = {}
    OBVIOUS
  <2> QED BY <1>3, <2>1 DEF SitesAdded
<1>5. ASSUME NEW k \in 1 .. n, NEW a, SitesAdded(p, k - 1, a) PROVE SitesAdded(p, k, AddSite(p, a, more[k]))
  <2> DEFINE s == more[k]
             b == Append(a, s)
  <2>1. /\ a \in Seq(SiteRow) /\ NoRepeats(a) /\ s \in SiteRow
        /\ ToSet(a) = ToSet(sites) \union {more[i] : i \in 1 .. k - 1}
    BY <1>2, <1>3, <1>5 DEF SitesAdded
  <2>2. {more[i] : i \in 1 .. k} = {more[i] : i \in 1 .. k - 1} \union {s}
    <3>1. \A i \in 1 .. k : i \in 1 .. k - 1 \/ i = k
      BY <1>2
    <3>2. k \in 1 .. k /\ \A i \in 1 .. k - 1 : i \in 1 .. k
      BY <1>2
    <3> QED BY <3>1, <3>2
  <2>3. CASE s \in ToSet(a)
    <3>1. ToSet(a) = ToSet(sites) \union {more[i] : i \in 1 .. k}
      BY <2>1, <2>2, <2>3
    <3> QED BY <1>3, <2>1, <2>3, <3>1 DEF SitesAdded, AddSite
  <2>4. CASE s \notin ToSet(a)
    <3>0. IsList(a) /\ \A x \in ToSet(a) : x \in SiteRow
      BY <2>1, TypedList
    <3>1. /\ IsList(b) /\ Len(b) = Len(a) + 1 /\ ToSet(b) = ToSet(a) \union {s}
          /\ \A i \in 1 .. Len(a) : b[i] = a[i]
          /\ b[Len(a) + 1] = s
      BY <3>0, LongerList
    <3>2. ToSet(b) = ToSet(sites) \union {more[i] : i \in 1 .. k}
      BY <2>1, <2>2, <3>1
    <3>3. b \in Seq(SiteRow)
      BY <2>1, <3>0, <3>1, TypedList
    <3>4. NoRepeats(b)
      <4>1. /\ DOMAIN a = 1 .. Len(a) /\ Len(a) \in Nat /\ DOMAIN b = 1 .. Len(a) + 1
        BY <3>0, <3>1 DEF IsList
      <4>2. \A i \in 1 .. Len(a) : a[i] # s
        BY <2>4, <4>1 DEF ToSet
      <4>3. \A i \in DOMAIN b : i \in DOMAIN a \/ i = Len(a) + 1
        BY <4>1
      <4> HIDE DEF b, s
      <4> QED BY <2>1, <3>1, <4>1, <4>2, <4>3 DEF NoRepeats
    <3>5. AddSite(p, a, s) = b
      BY <2>4 DEF AddSite
    <3> QED BY <1>3, <3>2, <3>3, <3>4, <3>5 DEF SitesAdded
  <2> QED BY <2>3, <2>4
<1>6. SitesAdded(p, n, Adding!Folded(p, sites, more))
  BY <1>2, <1>4, <1>5, Adding!FoldInduction
<1>7. ToSet(more) = {more[i] : i \in 1 .. n}
  BY <1>2 DEF ToSet
<1> QED BY <1>1, <1>3, <1>6, <1>7 DEF SitesAdded

-----------------------------------------------------------------------------
(* Walks: from a directory with arguments along the names of a path, to one  *)
(* that loads each time.                                                     *)
CallsOf(c, x) == ToSet(parsed[c[x.dir]][x.overrides].modules)
RowsOf(c, x) == ToSet(parsed[c[x.dir]][x.overrides].resources)
DiagsOf(c, x) == ToSet(parsed[c[x.dir]][x.overrides].diags)
LoadsIn(c, d) == LoadError(c[d]) = "none"

Ends == [dir: Dir, overrides: Override]
End(d, o) == [dir |-> d, overrides |-> o]
Callee(d, call) == End(Join(d, call.source), literalOverrides(call))

StepsTo(c, x, n, y) ==
    \E call \in CallsOf(c, x) : /\ call.local /\ call.name = n
                                /\ LoadsIn(c, Join(x.dir, call.source)) /\ y = Callee(x.dir, call)

IsWalk(c, x, path, k, w) == w[0] = x /\ \A i \in 1 .. k : StepsTo(c, w[i - 1], path[i], w[i])

LeadsTo(c, x, path, y) == \E w : IsWalk(c, x, path, Len(path), w) /\ w[Len(path)] = y

(* Where the walks lead, with what lies on the way, is what Follow gathers.  *)
Along(w, k) == [dir |-> w[k].dir, overrides |-> w[k].overrides, seen |-> {w[i].dir : i \in 0 .. k}]

ChildrenIn(c, x, n) ==
    {[dir |-> Join(x.dir, call.source), overrides |-> literalOverrides(call),
      seen |-> x.seen \union {Join(x.dir, call.source)}] :
        call \in {e \in {f \in ToSet(parsed[c[x.dir]][x.overrides].modules) : f.local} :
                    e.name = n /\ LoadError(c[Join(x.dir, e.source)]) = "none"}}

FollowStep(c, X, n) == UNION {ChildrenIn(c, x, n) : x \in X}

FollowedSoFar(p, k, X) ==
    \A x : x \in X <=> \E w : IsWalk(p.config, p.from, p.path, k, w) /\ x = Along(w, k)

Following == INSTANCE FoldProofs WITH FoldStep <- FollowStep, FoldHolds <- FollowedSoFar

LEMMA ChildrenAre ==
    ASSUME NEW c, NEW x, NEW n, NEW z
    PROVE  z \in ChildrenIn(c, x, n) <=>
             \E y : StepsTo(c, x, n, y)
                    /\ z = [dir |-> y.dir, overrides |-> y.overrides, seen |-> x.seen \union {y.dir}]
<1>1. ASSUME z \in ChildrenIn(c, x, n)
      PROVE  \E y : StepsTo(c, x, n, y) /\ z = [dir |-> y.dir, overrides |-> y.overrides, seen |-> x.seen \union {y.dir}]
  <2>1. PICK call \in CallsOf(c, x) :
           /\ call.local /\ call.name = n /\ LoadsIn(c, Join(x.dir, call.source))
           /\ z = [dir |-> Join(x.dir, call.source), overrides |-> literalOverrides(call),
                   seen |-> x.seen \union {Join(x.dir, call.source)}]
    BY <1>1 DEF ChildrenIn, CallsOf, LoadsIn
  <2>2. StepsTo(c, x, n, Callee(x.dir, call))
    BY <2>1 DEF StepsTo
  <2>3. Callee(x.dir, call).dir = Join(x.dir, call.source) /\ Callee(x.dir, call).overrides = literalOverrides(call)
    BY DEF Callee, End
  <2> QED BY <2>1, <2>2, <2>3
<1>2. ASSUME NEW y, StepsTo(c, x, n, y), z = [dir |-> y.dir, overrides |-> y.overrides, seen |-> x.seen \union {y.dir}]
      PROVE  z \in ChildrenIn(c, x, n)
  <2>1. PICK call \in CallsOf(c, x) : /\ call.local /\ call.name = n /\ LoadsIn(c, Join(x.dir, call.source))
                                      /\ y = Callee(x.dir, call)
    BY <1>2 DEF StepsTo
  <2>2. y.dir = Join(x.dir, call.source) /\ y.overrides = literalOverrides(call)
    BY <2>1 DEF Callee, End
  <2>3. z = [dir |-> Join(x.dir, call.source), overrides |-> literalOverrides(call),
             seen |-> x.seen \union {Join(x.dir, call.source)}]
    BY <1>2, <2>2
  <2> QED BY <2>1, <2>3 DEF ChildrenIn, CallsOf, LoadsIn
<1> QED BY <1>1, <1>2

LEMMA FollowMore ==
    ASSUME NEW p, NEW k \in Nat \ {0}, NEW X, FollowedSoFar(p, k - 1, X)
    PROVE  FollowedSoFar(p, k, FollowStep(p.config, X, p.path[k]))
<1> DEFINE c == p.config
           n == p.path[k]
<1> SUFFICES ASSUME NEW z
             PROVE  z \in FollowStep(p.config, X, n) <=> \E w : IsWalk(c, p.from, p.path, k, w) /\ z = Along(w, k)
  BY DEF FollowedSoFar
<1>0. \A x : x \in X <=> \E w : IsWalk(c, p.from, p.path, k - 1, w) /\ x = Along(w, k - 1)
  BY DEF FollowedSoFar
<1> HIDE DEF n, c
<1>1. ASSUME z \in FollowStep(p.config, X, n)
      PROVE  \E w : IsWalk(c, p.from, p.path, k, w) /\ z = Along(w, k)
  <2>1. PICK x \in X : z \in ChildrenIn(c, x, n)
    BY <1>1 DEF FollowStep, c
  <2>2. PICK y : /\ StepsTo(c, x, n, y)
                 /\ z = [dir |-> y.dir, overrides |-> y.overrides, seen |-> x.seen \union {y.dir}]
    BY <2>1, ChildrenAre
  <2>3. PICK w : IsWalk(c, p.from, p.path, k - 1, w) /\ x = Along(w, k - 1)
    BY <1>0, <2>1
  <2> DEFINE v == [i \in 0 .. k |-> IF i = k THEN y ELSE w[i]]
  <2>4. v[k] = y /\ \A i \in 0 .. k - 1 : v[i] = w[i]
    OBVIOUS
  <2> HIDE DEF v
  <2>5. StepsTo(c, w[k - 1], n, y)
    <3>1. x.dir = w[k - 1].dir /\ x.overrides = w[k - 1].overrides
      BY <2>3 DEF Along
    <3> QED BY <2>2, <3>1 DEF StepsTo, CallsOf
  <2>6. IsWalk(c, p.from, p.path, k, v)
    <3>1. v[0] = p.from
      BY <2>3, <2>4 DEF IsWalk
    <3>2. ASSUME NEW i \in 1 .. k PROVE StepsTo(c, v[i - 1], p.path[i], v[i])
      <4>1. CASE i = k
        <5>1. v[i - 1] = w[k - 1] /\ v[i] = y /\ p.path[i] = n
          BY <2>4, <4>1 DEF n
        <5> QED BY <2>5, <5>1
      <4>2. CASE i # k
        <5>1. i \in 1 .. k - 1 /\ v[i] = w[i] /\ v[i - 1] = w[i - 1]
          BY <2>4, <4>2
        <5> QED BY <2>3, <5>1 DEF IsWalk
      <4> QED BY <4>1, <4>2
    <3> QED BY <3>1, <3>2 DEF IsWalk
  <2>7. z = Along(v, k)
    <3>1. x.seen = {w[i].dir : i \in 0 .. k - 1}
      BY <2>3 DEF Along
    <3>2. {v[i].dir : i \in 0 .. k} = {w[i].dir : i \in 0 .. k - 1} \union {y.dir}
      <4>1. \A i \in 0 .. k : i \in 0 .. k - 1 \/ i = k
        OBVIOUS
      <4>2. \A i \in 0 .. k - 1 : i \in 0 .. k
        OBVIOUS
      <4>3. k \in 0 .. k
        OBVIOUS
      <4> QED BY <2>4, <4>1, <4>2, <4>3
    <3> QED BY <2>2, <2>4, <3>1, <3>2 DEF Along
  <2> QED BY <2>6, <2>7
<1>2. ASSUME NEW w, IsWalk(c, p.from, p.path, k, w), z = Along(w, k)
      PROVE  z \in FollowStep(p.config, X, n)
  <2> DEFINE x == Along(w, k - 1)
             y == w[k]
  <2>1. x \in X
    <3>1. IsWalk(c, p.from, p.path, k - 1, w)
      BY <1>2 DEF IsWalk
    <3> QED BY <1>0, <3>1
  <2>2. StepsTo(c, x, n, y)
    <3>1. StepsTo(c, w[k - 1], n, w[k])
      BY <1>2 DEF IsWalk, n
    <3>2. x.dir = w[k - 1].dir /\ x.overrides = w[k - 1].overrides
      BY DEF Along
    <3> HIDE DEF x
    <3> QED BY <3>1, <3>2 DEF StepsTo, CallsOf
  <2>3. z = [dir |-> y.dir, overrides |-> y.overrides, seen |-> x.seen \union {y.dir}]
    <3>1. {w[i].dir : i \in 0 .. k} = {w[i].dir : i \in 0 .. k - 1} \union {w[k].dir}
      <4>1. \A i \in 0 .. k : i \in 0 .. k - 1 \/ i = k
        OBVIOUS
      <4>2. \A i \in 0 .. k - 1 : i \in 0 .. k
        OBVIOUS
      <4>3. k \in 0 .. k
        OBVIOUS
      <4> QED BY <4>1, <4>2, <4>3
    <3> QED BY <1>2, <3>1 DEF Along
  <2> HIDE DEF x, y
  <2>4. z \in ChildrenIn(c, x, n)
    BY <2>2, <2>3, ChildrenAre
  <2> QED BY <2>1, <2>4 DEF FollowStep, c
<1> QED BY <1>1, <1>2 DEF c

LEMMA FollowIs ==
    ASSUME NEW d, NEW o, NEW path \in Seq(Name), NEW x
    PROVE  x \in Follow(d, o, path) <=>
             \E w : IsWalk(config, End(d, o), path, Len(path), w) /\ x = Along(w, Len(path))
<1> DEFINE p == [config |-> config, from |-> End(d, o), path |-> path]
           n == Len(path)
           base == {Place(d, o)}
<1>1. Follow(d, o, path) = Following!Folded(config, base, path)
  <2>2. Follow(d, o, path) = FoldLeft(LAMBDA X, m : FollowStep(config, X, m), base, path)
    BY DEF Follow, FollowStep, Children, ChildrenIn, LocalCalls, Parsed, Loads
  <2>3. Following!Folded(config, base, path) = FoldLeft(LAMBDA X, m : FollowStep(config, X, m), base, path)
    BY DEF Following!Folded, Following!Greatest, FoldLeft, MapThenFoldSet, Max
  <2> QED BY <2>2, <2>3
<1>2. n \in Nat /\ DOMAIN path = 1 .. n
  BY PathIs
<1>3. FollowedSoFar(p, 0, base)
  <2> SUFFICES ASSUME NEW z
               PROVE  z = Place(d, o) <=> \E w : IsWalk(config, End(d, o), path, 0, w) /\ z = Along(w, 0)
    BY DEF FollowedSoFar
  <2>1. 1 .. 0 = {} /\ 0 .. 0 = {0}
    OBVIOUS
  <2>2. ASSUME NEW w, w[0] = End(d, o) PROVE Along(w, 0) = Place(d, o)
    <3>0. w[0].dir = d /\ w[0].overrides = o
      BY <2>2 DEF End
    <3>1. {w[i].dir : i \in 0 .. 0} = {d}
      BY <2>1, <3>0
    <3> QED BY <3>0, <3>1 DEF Along, Place
  <2>3. ASSUME z = Place(d, o) PROVE \E w : IsWalk(config, End(d, o), path, 0, w) /\ z = Along(w, 0)
    <3> DEFINE v == [i \in {0} |-> End(d, o)]
    <3>1. v[0] = End(d, o)
      OBVIOUS
    <3> HIDE DEF v
    <3>2. IsWalk(config, End(d, o), path, 0, v)
      BY <2>1, <3>1 DEF IsWalk
    <3> QED BY <2>2, <2>3, <3>1, <3>2
  <2>4. ASSUME NEW w, IsWalk(config, End(d, o), path, 0, w), z = Along(w, 0) PROVE z = Place(d, o)
    BY <2>2, <2>4 DEF IsWalk
  <2> QED BY <2>3, <2>4
<1>4. \A k \in 1 .. n : \A X : FollowedSoFar(p, k - 1, X) => FollowedSoFar(p, k, FollowStep(config, X, path[k]))
  <2> SUFFICES ASSUME NEW k \in 1 .. n, NEW X, FollowedSoFar(p, k - 1, X)
               PROVE  FollowedSoFar(p, k, FollowStep(config, X, path[k]))
    OBVIOUS
  <2>1. k \in Nat \ {0} /\ p.path = path /\ p.config = config
    BY <1>2
  <2> HIDE DEF p
  <2> QED BY <2>1, FollowMore
<1>5. FollowedSoFar(p, n, Following!Folded(config, base, path))
  <2> HIDE DEF p, n, base
  <2> QED BY <1>2, <1>3, <1>4, Following!FoldInduction
<1> QED BY <1>1, <1>5 DEF FollowedSoFar

(* A walk from a callee is one from the caller, one step later.              *)
LEMMA WalkBelow ==
    ASSUME NEW c, NEW x, NEW n \in Name, NEW y, StepsTo(c, x, n, y), NEW path \in Seq(Name)
    PROVE  /\ \A z : LeadsTo(c, y, path, z) => LeadsTo(c, x, <<n>> \o path, z)
<1> DEFINE m == Len(path)
           q == <<n>> \o path
<1>1. m \in Nat /\ Len(q) = m + 1 /\ q[1] = n /\ \A i \in 1 .. m : q[i + 1] = path[i]
  OBVIOUS
<1> HIDE DEF q, m
<1> SUFFICES ASSUME NEW w, IsWalk(c, y, path, m, w) PROVE LeadsTo(c, x, q, w[m])
  BY DEF LeadsTo, q, m
<1> DEFINE v == [i \in 0 .. m + 1 |-> IF i = 0 THEN x ELSE w[i - 1]]
<1>2. v[0] = x /\ \A i \in 0 .. m : v[i + 1] = w[i]
  <2>1. \A i \in 0 .. m : i + 1 \in 0 .. m + 1 /\ i + 1 # 0 /\ (i + 1) - 1 = i
    BY <1>1
  <2>2. 0 \in 0 .. m + 1
    BY <1>1
  <2> QED BY <2>1, <2>2
<1> HIDE DEF v
<1>3. ASSUME NEW i \in 1 .. m + 1 PROVE StepsTo(c, v[i - 1], q[i], v[i])
  <2>1. CASE i = 1
    <3>1. v[1] = w[0] /\ w[0] = y /\ i - 1 = 0
      <4>1. v[0 + 1] = w[0]
        BY <1>1, <1>2
      <4> QED BY <2>1, <4>1 DEF IsWalk
    <3> QED BY <1>1, <1>2, <2>1, <3>1
  <2>2. CASE i # 1
    <3> DEFINE j == i - 1
    <3>1. j \in 1 .. m /\ j \in 0 .. m /\ j - 1 \in 0 .. m /\ i = j + 1 /\ (j - 1) + 1 = j
      BY <1>1, <2>2
    <3> HIDE DEF j
    <3>2. v[i] = w[j] /\ v[j] = w[j - 1] /\ q[i] = path[j]
      BY <1>1, <1>2, <3>1
    <3>3. StepsTo(c, w[j - 1], path[j], w[j])
      BY <3>1 DEF IsWalk
    <3> QED BY <3>2, <3>3 DEF j
  <2> QED BY <2>1, <2>2
<1>4. IsWalk(c, x, q, m + 1, v) /\ v[m + 1] = w[m]
  BY <1>1, <1>2, <1>3 DEF IsWalk
<1> QED BY <1>1, <1>4 DEF LeadsTo

(* A walk that is not over at once begins with a step.                       *)
LEMMA WalkFirst ==
    ASSUME NEW c, NEW x, NEW path \in Seq(Name), path # <<>>, NEW z, LeadsTo(c, x, path, z)
    PROVE  /\ path[1] \in Name /\ Tail(path) \in Seq(Name) /\ path = <<path[1]>> \o Tail(path)
           /\ \E y : StepsTo(c, x, path[1], y) /\ LeadsTo(c, y, Tail(path), z)
<1> DEFINE m == Len(path) - 1
           t == Tail(path)
<1>1. /\ m \in Nat /\ Len(path) = m + 1 /\ Len(t) = m /\ t \in Seq(Name) /\ path[1] \in Name
      /\ \A i \in 1 .. m : t[i] = path[i + 1]
      /\ path = <<path[1]>> \o t
  OBVIOUS
<1> HIDE DEF m, t
<1>2. PICK w : IsWalk(c, x, path, m + 1, w) /\ w[m + 1] = z
  BY <1>1 DEF LeadsTo
<1> DEFINE v == [i \in 0 .. m |-> w[i + 1]]
<1>3. StepsTo(c, x, path[1], w[1])
  <2>1. 1 \in 1 .. m + 1 /\ 1 - 1 = 0
    BY <1>1
  <2> QED BY <1>2, <2>1 DEF IsWalk
<1>4. \A i \in 0 .. m : v[i] = w[i + 1]
  OBVIOUS
<1> HIDE DEF v
<1>5. ASSUME NEW i \in 1 .. m PROVE StepsTo(c, v[i - 1], t[i], v[i])
  <2>1. i + 1 \in 1 .. m + 1 /\ (i + 1) - 1 = i /\ i - 1 \in 0 .. m /\ (i - 1) + 1 = i /\ i \in 0 .. m
    BY <1>1
  <2>2. StepsTo(c, w[i], path[i + 1], w[i + 1])
    BY <1>2, <2>1 DEF IsWalk
  <2>3. v[i - 1] = w[i] /\ v[i] = w[i + 1]
    BY <1>4, <2>1
  <2> QED BY <1>1, <2>2, <2>3
<1>6. v[0] = w[1] /\ v[m] = z
  <2>1. v[0] = w[0 + 1]
    BY <1>1, <1>4
  <2> QED BY <1>1, <1>2, <1>4, <2>1
<1>7. LeadsTo(c, w[1], t, z)
  BY <1>1, <1>5, <1>6 DEF LeadsTo, IsWalk
<1> QED BY <1>1, <1>3, <1>7 DEF t

LEMMA NoSteps ==
    ASSUME NEW c, NEW x, NEW z
    PROVE  LeadsTo(c, x, <<>>, z) <=> z = x
<1>1. Len(<<>>) = 0 /\ 1 .. 0 = {}
  OBVIOUS
<1>2. ASSUME z = x PROVE LeadsTo(c, x, <<>>, z)
  <2> DEFINE v == [i \in {0} |-> x]
  <2>1. v[0] = x
    OBVIOUS
  <2> HIDE DEF v
  <2> QED BY <1>1, <1>2, <2>1 DEF LeadsTo, IsWalk
<1> QED BY <1>1, <1>2 DEF LeadsTo, IsWalk

(* The calls lead to directories and arguments there are.                    *)
LEMMA StepIn ==
    ASSUME NEW c \in Configs, NEW x \in Ends, NEW call \in CallsOf(c, x)
    PROVE  /\ call.name \in Name /\ call.pos \in Nat /\ call.local \in BOOLEAN
           /\ call.local => Callee(x.dir, call) \in Ends /\ Join(x.dir, call.source) \in Dir
           /\ call.local /\ LoadsIn(c, Join(x.dir, call.source)) =>
                StepsTo(c, x, call.name, Callee(x.dir, call))
<1>1. x.dir \in Dir /\ x.overrides \in Override
  BY DEF Ends
<1>2. call \in ToSet(parsed[c[x.dir]][x.overrides].modules)
  BY DEF CallsOf
<1>3. call.name \in Name /\ call.pos \in Nat /\ call.local \in BOOLEAN
  BY <1>1, <1>2, OwnCalls
<1>4. call.local => Join(x.dir, call.source) \in Dir /\ literalOverrides(call) \in Override
  BY <1>1, <1>2, CallsAssumption
<1>5. call.local => Callee(x.dir, call) \in Ends
  BY <1>4 DEF Callee, End, Ends
<1> QED BY <1>3, <1>4, <1>5 DEF StepsTo

(* So walks stay among them.                                                 *)
PlacesSoFar(p, k, w) == w[k] \in Ends

Staying == INSTANCE FoldProofs WITH FoldStep <- FollowStep, FoldHolds <- PlacesSoFar

LEMMA WalkStays ==
    ASSUME NEW c \in Configs, NEW x \in Ends, NEW path, NEW k \in Nat, NEW w, IsWalk(c, x, path, k, w)
    PROVE  \A i \in 0 .. k : w[i] \in Ends
<1>1. PlacesSoFar(c, 0, w)
  BY DEF PlacesSoFar, IsWalk
<1>2. ASSUME NEW i \in 1 .. k, PlacesSoFar(c, i - 1, w) PROVE PlacesSoFar(c, i, w)
  <2> DEFINE v == w[i - 1]
  <2>1. v \in Ends
    BY <1>2 DEF PlacesSoFar
  <2>2. StepsTo(c, v, path[i], w[i])
    BY DEF IsWalk
  <2> HIDE DEF v
  <2>3. w[i] \in Ends
    BY <2>1, <2>2, StepIn DEF StepsTo
  <2> QED BY <2>3 DEF PlacesSoFar
<1>3. \A i \in 0 .. k : PlacesSoFar(c, i, w)
  BY <1>1, <1>2, Staying!Induction
<1> QED BY <1>3 DEF PlacesSoFar

LEMMA EndStays ==
    ASSUME NEW c \in Configs, NEW x \in Ends, NEW path \in Seq(Name), NEW y, LeadsTo(c, x, path, y)
    PROVE  y \in Ends
<1>1. Len(path) \in Nat /\ Len(path) \in 0 .. Len(path)
  BY PathIs
<1>2. PICK w : IsWalk(c, x, path, Len(path), w) /\ w[Len(path)] = y
  BY DEF LeadsTo
<1> QED BY <1>1, <1>2, WalkStays

-----------------------------------------------------------------------------
(* What a template has, as sets: the rows R and the warnings G of the        *)
(* expansion of x, with the first k - 1 calls followed.                      *)

CallList(c, x) == parsed[c[x.dir]][x.overrides].modules

At(path, row) == [row EXCEPT !.path = path]

AreRows(R) == \A row \in R : IsRow(row) /\ RowShape(row)

RealRows(c, x, R, G) ==
    \A row \in R : \E y : /\ LeadsTo(c, x, row.path, y)
                           /\ At(<<>>, row) \in RowsOf(c, y) /\ DiagsOf(c, y) \subseteq G

FullRows(c, x, k, R) ==
    /\ RowsOf(c, x) \subseteq R
    /\ \A i \in 1 .. k - 1 :
         LET call == CallList(c, x)[i]
         IN  call.local /\ LoadsIn(c, Join(x.dir, call.source)) =>
               \A path \in Seq(Name) : \A y : LeadsTo(c, Callee(x.dir, call), path, y) =>
                   \A b \in RowsOf(c, y) : At(<<call.name>> \o path, b) \in R

AllRows(c, x, R) ==
    \A path \in Seq(Name) : \A y : LeadsTo(c, x, path, y) => \A b \in RowsOf(c, y) : At(path, b) \in R

LEMMA UnderIs ==
    ASSUME NEW row, IsRow(row), RowShape(row), NEW n \in Name
    PROVE  /\ IsRow(Under(n, row)) /\ RowShape(Under(n, row))
           /\ Under(n, row).path = <<n>> \o row.path /\ Under(n, row).block = row.block
           /\ \A path : At(path, Under(n, row)) = At(path, row)
           /\ \A path : At(path, row).path = path
           /\ At(row.path, row) = row
           /\ \A path : Under(n, At(path, row)) = At(<<n>> \o path, row)
           /\ Under(n, row).path \in Seq(Name) /\ Under(n, row).path # <<>> /\ Under(n, row).path[1] = n
           /\ Tail(Under(n, row).path) = row.path
<1>1. row = [kind |-> row.kind, type |-> row.type, block |-> row.block, path |-> row.path,
             attrs |-> row.attrs, reasons |-> row.reasons, preventDestroy |-> row.preventDestroy]
  BY DEF RowShape
<1>3. \A path : At(path, row) = [kind |-> row.kind, type |-> row.type, block |-> row.block, path |-> path,
                                 attrs |-> row.attrs, reasons |-> row.reasons,
                                 preventDestroy |-> row.preventDestroy]
  BY <1>1 DEF At
<1>2a. \A r : Under(n, r) = At(<<n>> \o r.path, r)
  BY DEF Under, At
<1> DEFINE u == Under(n, row)
<1>2. u = [kind |-> row.kind, type |-> row.type, block |-> row.block, path |-> <<n>> \o row.path,
           attrs |-> row.attrs, reasons |-> row.reasons, preventDestroy |-> row.preventDestroy]
  BY <1>2a, <1>3
<1> HIDE DEF u
<1>4. row.path \in Seq(Name)
  BY DEF IsRow
<1> DEFINE q == <<n>> \o row.path
<1>5. q \in Seq(Name) /\ q # <<>> /\ q[1] = n /\ Tail(q) = row.path
  BY <1>4
<1> HIDE DEF q
<1>6. u.path = q /\ u.block = row.block
  BY <1>2 DEF q
<1>7. IsRow(u) /\ RowShape(u)
  BY <1>2, <1>5 DEF IsRow, RowShape, q
<1>8. \A path : At(path, u) = At(path, row)
  BY <1>2, <1>3 DEF At
<1>9. \A path : At(path, row).path = path
  BY <1>3
<1>10. At(row.path, row) = row
  BY <1>1, <1>3
<1>11. ASSUME NEW path PROVE Under(n, At(path, row)) = At(<<n>> \o path, row)
  <2>1. Under(n, At(path, row)) = At(<<n>> \o At(path, row).path, At(path, row))
    BY <1>2a
  <2>2. \A p : At(p, At(path, row)) = At(p, row)
    BY <1>3 DEF At
  <2> QED BY <1>9, <2>1, <2>2
<1> QED BY <1>5, <1>6, <1>7, <1>8, <1>9, <1>10, <1>11 DEF u, q

(* The rows of a directory are rows without a path.                          *)
LEMMA OwnAre ==
    ASSUME NEW c \in Configs, NEW x \in Ends
    PROVE  /\ AreRows(RowsOf(c, x)) /\ \A row \in RowsOf(c, x) : row.path = <<>>
           /\ x.dir \in Dir /\ x.overrides \in Override /\ x = End(x.dir, x.overrides)
           /\ IsList(CallList(c, x)) /\ CallsOf(c, x) = ToSet(CallList(c, x))
           /\ \A i \in DOMAIN CallList(c, x) : CallList(c, x)[i] \in CallsOf(c, x)
           /\ DOMAIN CallList(c, x) = 1 .. Len(CallList(c, x)) /\ Len(CallList(c, x)) \in Nat
<1>1. x.dir \in Dir /\ x.overrides \in Override /\ x = End(x.dir, x.overrides)
  BY DEF Ends, End
<1>2. \A row \in RowsOf(c, x) : IsRow(row) /\ row.path = <<>> /\ RowShape(row)
  BY <1>1, OwnRows DEF RowsOf
<1>3. IsList(CallList(c, x)) /\ CallsOf(c, x) = ToSet(CallList(c, x))
  BY <1>1, OwnCalls DEF CallList, CallsOf
<1>4. DOMAIN CallList(c, x) = 1 .. Len(CallList(c, x)) /\ Len(CallList(c, x)) \in Nat
  BY <1>3 DEF IsList
<1>5. \A i \in DOMAIN CallList(c, x) : CallList(c, x)[i] \in CallsOf(c, x)
  BY <1>3 DEF ToSet
<1> QED BY <1>1, <1>2, <1>3, <1>4, <1>5 DEF AreRows

(* The rows taken over from a callee are real, and complete if they were.    *)
LEMMA RealMore ==
    ASSUME NEW c \in Configs, NEW x \in Ends, NEW call \in CallsOf(c, x),
           call.local, LoadsIn(c, Join(x.dir, call.source)),
           NEW R, NEW G, RealRows(c, x, R, G),
           NEW S, NEW H, AreRows(S), RealRows(c, Callee(x.dir, call), S, H)
    PROVE  RealRows(c, x, R \union {Under(call.name, row) : row \in S}, G \union H)
<1> DEFINE n == call.name
           e == Callee(x.dir, call)
<1>1. n \in Name /\ StepsTo(c, x, n, e)
  BY StepIn
<1> HIDE DEF n, e
<1>2. ASSUME NEW row \in S
      PROVE  \E y : /\ LeadsTo(c, x, Under(n, row).path, y)
                     /\ At(<<>>, Under(n, row)) \in RowsOf(c, y) /\ DiagsOf(c, y) \subseteq G \union H
  <2>1. IsRow(row) /\ RowShape(row) /\ row.path \in Seq(Name)
    BY DEF AreRows, IsRow
  <2>2. PICK y : LeadsTo(c, e, row.path, y) /\ At(<<>>, row) \in RowsOf(c, y) /\ DiagsOf(c, y) \subseteq H
    BY DEF RealRows, e
  <2>3. Under(n, row).path = <<n>> \o row.path /\ At(<<>>, Under(n, row)) = At(<<>>, row)
    BY <1>1, <2>1, UnderIs
  <2>4. LeadsTo(c, x, <<n>> \o row.path, y)
    BY <1>1, <2>1, <2>2, WalkBelow
  <2> QED BY <2>2, <2>3, <2>4
<1> QED BY <1>2 DEF RealRows, n

LEMMA FullMore ==
    ASSUME NEW c \in Configs, NEW x \in Ends, NEW k \in DOMAIN CallList(c, x),
           NEW R, FullRows(c, x, k, R)
    PROVE  LET call == CallList(c, x)[k]
           IN  /\ ~call.local \/ ~LoadsIn(c, Join(x.dir, call.source)) => FullRows(c, x, k + 1, R)
               /\ call.local => \A S : AllRows(c, Callee(x.dir, call), S)
                         => FullRows(c, x, k + 1, R \union {Under(call.name, row) : row \in S})
<1> DEFINE call == CallList(c, x)[k]
<1>0. k \in Nat \ {0} /\ \A i \in 1 .. (k + 1) - 1 : i \in 1 .. k - 1 \/ i = k
  BY OwnAre
<1>1. ASSUME ~call.local \/ ~LoadsIn(c, Join(x.dir, call.source)) PROVE FullRows(c, x, k + 1, R)
  BY <1>0, <1>1 DEF FullRows
<1>2. ASSUME call.local, NEW S, AllRows(c, Callee(x.dir, call), S)
      PROVE  FullRows(c, x, k + 1, R \union {Under(call.name, row) : row \in S})
  <2> DEFINE T == R \union {Under(call.name, row) : row \in S}
             e == Callee(x.dir, call)
  <2>1. call.name \in Name /\ e \in Ends
    <3>1. call \in CallsOf(c, x)
      BY OwnAre
    <3> HIDE DEF call
    <3> QED BY <1>2, <3>1, StepIn
  <2> HIDE DEF e
  <2>2. ASSUME NEW path \in Seq(Name), NEW y, LeadsTo(c, e, path, y), NEW b \in RowsOf(c, y)
        PROVE  At(<<call.name>> \o path, b) \in T
    <3>1. At(path, b) \in S
      BY <1>2, <2>2 DEF AllRows, e
    <3>2. y \in Ends
      BY <2>1, <2>2, EndStays
    <3>3. IsRow(b) /\ RowShape(b)
      BY <3>2, OwnAre DEF AreRows
    <3>4. Under(call.name, At(path, b)) = At(<<call.name>> \o path, b)
      BY <2>1, <3>3, UnderIs
    <3> QED BY <3>1, <3>4
  <2>3. RowsOf(c, x) \subseteq T
    BY DEF FullRows
  <2>4. ASSUME NEW i \in 1 .. (k + 1) - 1, CallList(c, x)[i].local, LoadsIn(c, Join(x.dir, CallList(c, x)[i].source)),
               NEW path \in Seq(Name), NEW y, LeadsTo(c, Callee(x.dir, CallList(c, x)[i]), path, y),
               NEW b \in RowsOf(c, y)
        PROVE  At(<<CallList(c, x)[i].name>> \o path, b) \in T
    <3>1. CASE i \in 1 .. k - 1
      <4>1. At(<<CallList(c, x)[i].name>> \o path, b) \in R
        BY <2>4, <3>1 DEF FullRows
      <4> QED BY <4>1
    <3>2. CASE i = k
      BY <2>2, <2>4, <3>2 DEF e
    <3> QED BY <1>0, <3>1, <3>2
  <2> HIDE DEF T, call
  <2> QED BY <2>3, <2>4 DEF FullRows, T
<1> QED BY <1>1, <1>2

LEMMA FullAll ==
    ASSUME NEW c \in Configs, NEW x \in Ends, NEW R, FullRows(c, x, Len(CallList(c, x)) + 1, R)
    PROVE  AllRows(c, x, R)
<1> SUFFICES ASSUME NEW path \in Seq(Name), NEW y, LeadsTo(c, x, path, y), NEW b \in RowsOf(c, y)
             PROVE  At(path, b) \in R
  BY DEF AllRows
<1>1. CASE path = <<>>
  <2>1. y = x /\ b \in RowsOf(c, x) /\ b \in R
    BY <1>1, NoSteps DEF FullRows
  <2>2. IsRow(b) /\ RowShape(b) /\ b.path = <<>>
    BY <2>1, OwnAre DEF AreRows
  <2>3. At(<<>>, b) = b
    BY <2>2 DEF At, RowShape
  <2> QED BY <1>1, <2>1, <2>3
<1>2. CASE path # <<>>
  <2> DEFINE n == path[1]
             t == Tail(path)
  <2>1. n \in Name /\ t \in Seq(Name) /\ path = <<n>> \o t
    BY <1>2, WalkFirst
  <2>2. PICK z : StepsTo(c, x, n, z) /\ LeadsTo(c, z, t, y)
    BY <1>2, WalkFirst
  <2> HIDE DEF n, t
  <2>3. PICK call \in CallsOf(c, x) : /\ call.local /\ call.name = n /\ LoadsIn(c, Join(x.dir, call.source))
                                      /\ z = Callee(x.dir, call)
    BY <2>2 DEF StepsTo
  <2>4. PICK i \in DOMAIN CallList(c, x) : CallList(c, x)[i] = call
    BY <2>3, OwnAre DEF ToSet
  <2>5. i \in 1 .. (Len(CallList(c, x)) + 1) - 1
    BY OwnAre
  <2>6. At(<<n>> \o t, b) \in R
    BY <2>1, <2>2, <2>3, <2>4, <2>5 DEF FullRows
  <2> QED BY <2>1, <2>6
<1> QED BY <1>1, <1>2

-----------------------------------------------------------------------------
(* The calls of a directory have the same names whatever its arguments, so   *)
(* where they follow the source order a name says which call it is.          *)
Tidy(c) ==
    \A d \in Dir : \A i, j \in DOMAIN parsed[c[d]][NoArgs].modules :
        i < j => parsed[c[d]][NoArgs].modules[i].name < parsed[c[d]][NoArgs].modules[j].name

LEMMA TidyNames ==
    ASSUME NEW c \in Configs, Tidy(c), NEW x \in Ends
    PROVE  /\ \A i, j \in DOMAIN CallList(c, x) : i < j => CallList(c, x)[i].name < CallList(c, x)[j].name
           /\ \A i, j \in DOMAIN CallList(c, x) : CallList(c, x)[i].name = CallList(c, x)[j].name => i = j
<1>0. x.dir \in Dir /\ x.overrides \in Override /\ NoArgs \in Override
  BY OwnAre, ConfigsAssumption
<1>1. ASSUME NEW i \in DOMAIN CallList(c, x), NEW j \in DOMAIN CallList(c, x), i < j
      PROVE  CallList(c, x)[i].name < CallList(c, x)[j].name
  <2>1. \E a, b \in DOMAIN parsed[c[x.dir]][NoArgs].modules :
          /\ a < b
          /\ parsed[c[x.dir]][NoArgs].modules[a].name = CallList(c, x)[i].name
          /\ parsed[c[x.dir]][NoArgs].modules[b].name = CallList(c, x)[j].name
    BY <1>0, <1>1, NamesAgree DEF CallList
  <2> QED BY <1>0, <2>1 DEF Tidy
<1>2. ASSUME NEW i \in DOMAIN CallList(c, x), NEW j \in DOMAIN CallList(c, x),
             CallList(c, x)[i].name = CallList(c, x)[j].name
      PROVE  i = j
  <2>1. CallList(c, x)[i].name \in Nat /\ CallList(c, x)[j].name \in Nat
    BY OwnAre, StepIn, NamesAssumption
  <2>2. i \in Nat /\ j \in Nat
    BY OwnAre
  <2> QED BY <1>1, <1>2, <2>1, <2>2
<1> QED BY <1>1, <1>2

-----------------------------------------------------------------------------
AnsweredIn(c, y, call, path, R, G) ==
    \/ call.local /\ LoadsIn(c, Join(y.dir, call.source)) /\ RowsOf(c, Callee(y.dir, call)) = {}
    \/ \E row \in R : row.path = Append(path, call.name)
    \/ \E g \in G : g.pos = call.pos /\ g.kind \in {"cycle", "load", "non-local"}

AnsweredBelow(c, x, R, G) ==
    \A row \in R : row.path # <<>> =>
        \A y : LeadsTo(c, x, row.path, y) => \A call \in CallsOf(c, y) : AnsweredIn(c, y, call, row.path, R, G)

AnsweredHere(c, x, k, R, G) == \A i \in 1 .. k - 1 : AnsweredIn(c, x, CallList(c, x)[i], <<>>, R, G)

AllAnswered(c, x, R, G) ==
    \A row \in R : \A y : LeadsTo(c, x, row.path, y) =>
        \A call \in CallsOf(c, y) : AnsweredIn(c, y, call, row.path, R, G)

(* An answer stays one when more is found.                                   *)
LEMMA AnsweredStays ==
    ASSUME NEW c, NEW x, NEW k, NEW R, NEW G, NEW S, NEW H, R \subseteq S, G \subseteq H
    PROVE  /\ \A y, call, path : AnsweredIn(c, y, call, path, R, G) => AnsweredIn(c, y, call, path, S, H)
           /\ AnsweredHere(c, x, k, R, G) => AnsweredHere(c, x, k, S, H)
           /\ AnsweredBelow(c, x, R, G) => AnsweredBelow(c, x, R, H)
<1>1. \A y, call, path : AnsweredIn(c, y, call, path, R, G) => AnsweredIn(c, y, call, path, S, H)
  BY DEF AnsweredIn
<1>2. \A y, call, path : AnsweredIn(c, y, call, path, R, G) => AnsweredIn(c, y, call, path, R, H)
  BY DEF AnsweredIn
<1>3. AnsweredHere(c, x, k, R, G) => AnsweredHere(c, x, k, S, H)
  BY <1>1 DEF AnsweredHere
<1>4. AnsweredBelow(c, x, R, G) => AnsweredBelow(c, x, R, H)
  BY <1>2 DEF AnsweredBelow
<1> QED BY <1>1, <1>3, <1>4

LEMMA HereMore ==
    ASSUME NEW c \in Configs, NEW x \in Ends, NEW k \in DOMAIN CallList(c, x), NEW R, NEW G,
           AnsweredHere(c, x, k, R, G), AnsweredIn(c, x, CallList(c, x)[k], <<>>, R, G)
    PROVE  AnsweredHere(c, x, k + 1, R, G)
<1>1. \A i \in 1 .. (k + 1) - 1 : i \in 1 .. k - 1 \/ i = k
  BY OwnAre
<1> QED BY <1>1 DEF AnsweredHere

LEMMA AnsweredAll ==
    ASSUME NEW c \in Configs, NEW x \in Ends, NEW R, NEW G,
           AnsweredHere(c, x, Len(CallList(c, x)) + 1, R, G), AnsweredBelow(c, x, R, G)
    PROVE  AllAnswered(c, x, R, G)
<1> SUFFICES ASSUME NEW row \in R, NEW y, LeadsTo(c, x, row.path, y), NEW call \in CallsOf(c, y)
             PROVE  AnsweredIn(c, y, call, row.path, R, G)
  BY DEF AllAnswered
<1>1. CASE row.path = <<>>
  <2>1. y = x
    BY <1>1, NoSteps
  <2>2. PICK i \in DOMAIN CallList(c, x) : CallList(c, x)[i] = call
    BY <2>1, OwnAre DEF ToSet
  <2>3. i \in 1 .. (Len(CallList(c, x)) + 1) - 1
    BY OwnAre
  <2> QED BY <1>1, <2>1, <2>2, <2>3 DEF AnsweredHere
<1>2. CASE row.path # <<>>
  BY <1>2 DEF AnsweredBelow
<1> QED BY <1>1, <1>2

(* Where names say which call it is, what a callee answers is answered.      *)
LEMMA AnsweredMore ==
    ASSUME NEW c \in Configs, Tidy(c), NEW x \in Ends, NEW k \in DOMAIN CallList(c, x),
           CallList(c, x)[k].local, LoadsIn(c, Join(x.dir, CallList(c, x)[k].source)),
           NEW R, NEW G, AnsweredHere(c, x, k, R, G), AnsweredBelow(c, x, R, G),
           NEW S, NEW H, AreRows(S), AllAnswered(c, Callee(x.dir, CallList(c, x)[k]), S, H),
           RowsOf(c, Callee(x.dir, CallList(c, x)[k])) \subseteq S
    PROVE  LET T == R \union {Under(CallList(c, x)[k].name, row) : row \in S}
               F == G \union H
           IN  AnsweredHere(c, x, k + 1, T, F) /\ AnsweredBelow(c, x, T, F)
<1> DEFINE call == CallList(c, x)[k]
           n == call.name
           e == Callee(x.dir, call)
           T == R \union {Under(n, row) : row \in S}
           F == G \union H
<1>1. call \in CallsOf(c, x) /\ n \in Name /\ e \in Ends /\ StepsTo(c, x, n, e)
  <2>1. call \in CallsOf(c, x)
    BY OwnAre
  <2> HIDE DEF call
  <2> QED BY <2>1, StepIn DEF call
<1>2. \A y : StepsTo(c, x, n, y) => y = e
  <2> SUFFICES ASSUME NEW y, StepsTo(c, x, n, y) PROVE y = e
    OBVIOUS
  <2>1. PICK other \in CallsOf(c, x) : other.name = n /\ y = Callee(x.dir, other)
    BY DEF StepsTo
  <2>2. PICK i \in DOMAIN CallList(c, x) : CallList(c, x)[i] = other
    BY <2>1, OwnAre DEF ToSet
  <2>3. i = k
    BY <2>1, <2>2, TidyNames
  <2> QED BY <2>1, <2>2, <2>3
<1>3. \A row \in S : /\ IsRow(row) /\ RowShape(row) /\ row.path \in Seq(Name)
  BY DEF AreRows, IsRow
<1>4. AllAnswered(c, e, S, H) /\ RowsOf(c, e) \subseteq S
  OBVIOUS
<1> HIDE DEF n, e, T, F
<1>10. \A row \in S : Under(n, row).path = <<n>> \o row.path
  BY <1>1, <1>3, UnderIs
<1>5. AnsweredIn(c, x, call, <<>>, T, F)
  <2>1. CASE RowsOf(c, e) = {}
    BY <2>1 DEF AnsweredIn, e
  <2>2. CASE RowsOf(c, e) # {}
    <3>1. PICK row \in RowsOf(c, e) : TRUE
      BY <2>2
    <3>2. row \in S /\ row.path = <<>>
      BY <1>1, <1>4, <3>1, OwnAre
    <3>3. Under(n, row).path = Append(<<>>, n) /\ Under(n, row) \in T
      <4>0. Under(n, row).path = <<n>> \o row.path
        BY <1>3, <1>10, <3>2
      <4>1. Under(n, row).path = <<n>> \o <<>>
        BY <3>2, <4>0
      <4>2. <<n>> \o <<>> = Append(<<>>, n)
        OBVIOUS
      <4> QED BY <3>2, <4>1, <4>2 DEF T
    <3> QED BY <3>3 DEF AnsweredIn, n
  <2> QED BY <2>1, <2>2
<1>6. AnsweredHere(c, x, k + 1, T, F)
  <2>1. R \subseteq T /\ G \subseteq F
    BY DEF T, F
  <2>2. AnsweredHere(c, x, k, T, F)
    BY <2>1, AnsweredStays
  <2> HIDE DEF call
  <2> QED BY <1>5, <2>2, HereMore DEF call
<1>7. ASSUME NEW row \in R, row.path # <<>>, NEW y, LeadsTo(c, x, row.path, y), NEW f \in CallsOf(c, y)
      PROVE  AnsweredIn(c, y, f, row.path, T, F)
  <2>1. R \subseteq T /\ G \subseteq F
    BY DEF T, F
  <2>2. AnsweredIn(c, y, f, row.path, R, G)
    BY <1>7 DEF AnsweredBelow
  <2> QED BY <2>1, <2>2, AnsweredStays
<1>8. ASSUME NEW row \in S, NEW y, LeadsTo(c, x, Under(n, row).path, y), NEW f \in CallsOf(c, y)
      PROVE  AnsweredIn(c, y, f, Under(n, row).path, T, F)
  <2> DEFINE p == row.path
             q == Under(n, row).path
  <2>1. q \in Seq(Name) /\ q # <<>> /\ q[1] = n /\ Tail(q) = p /\ q = <<n>> \o p /\ p \in Seq(Name)
    BY <1>1, <1>3, UnderIs
  <2> HIDE DEF q, p
  <2>2. LeadsTo(c, x, q, y)
    BY <1>8 DEF q
  <2>3. PICK z : StepsTo(c, x, q[1], z) /\ LeadsTo(c, z, Tail(q), y)
    BY <2>1, <2>2, WalkFirst
  <2>4. LeadsTo(c, e, p, y)
    BY <1>2, <2>1, <2>3
  <2>5. y \in Ends
    BY <1>1, <2>1, <2>4, EndStays
  <2>6. AnsweredIn(c, y, f, p, S, H)
    BY <1>4, <1>8, <2>4 DEF AllAnswered, p
  <2>7. CASE \E other \in S : other.path = Append(p, f.name)
    <3>1. PICK other \in S : other.path = Append(p, f.name)
      BY <2>7
    <3>2. f.name \in Name
      BY <1>8, <2>5, StepIn
    <3>3. <<n>> \o Append(p, f.name) = Append(<<n>> \o p, f.name)
      BY <1>1, <2>1, <3>2
    <3>4. Under(n, other).path = Append(q, f.name)
      <4>1. Under(n, other).path = <<n>> \o other.path
        BY <1>3, <1>10, <3>1
      <4> QED BY <2>1, <3>1, <3>3, <4>1
    <3>5. Under(n, other) \in T
      BY DEF T
    <3> QED BY <3>4, <3>5 DEF AnsweredIn, q
  <2>8. CASE \E g \in H : g.pos = f.pos /\ g.kind \in {"cycle", "load", "non-local"}
    BY <2>8 DEF AnsweredIn, F
  <2>9. CASE f.local /\ LoadsIn(c, Join(y.dir, f.source)) /\ RowsOf(c, Callee(y.dir, f)) = {}
    BY <2>9 DEF AnsweredIn
  <2> QED BY <2>6, <2>7, <2>8, <2>9 DEF AnsweredIn
<1>9. AnsweredBelow(c, x, T, F)
  BY <1>7, <1>8 DEF AnsweredBelow, T
<1> QED BY <1>6, <1>9 DEF T, F, n, e

-----------------------------------------------------------------------------
(* The rows in order, and those below a call are below one followed.         *)
RowBefore(r, s) == LexLess(r.path, s.path) \/ (r.path = s.path /\ r.block # s.block)

Ordered(rows) == \A i, j \in DOMAIN rows : i < j => RowBefore(rows[i], rows[j])

HeadsBelow(c, x, k, R) ==
    \A row \in R : row.path = <<>> \/ \E i \in 1 .. k - 1 : row.path[1] = CallList(c, x)[i].name

LEMMA PathsUnder ==
    ASSUME NEW n \in Name
    PROVE  /\ \A p, q \in Seq(Name) : LexLess(p, q) => LexLess(<<n>> \o p, <<n>> \o q)
           /\ \A q \in Seq(Name) : LexLess(<<>>, <<n>> \o q)
           /\ \A p, q \in Seq(Name) : p # <<>> /\ p[1] < n => LexLess(p, <<n>> \o q)
<1>1. ASSUME NEW p \in Seq(Name), NEW q \in Seq(Name), LexLess(p, q) PROVE LexLess(<<n>> \o p, <<n>> \o q)
  <2> DEFINE u == <<n>> \o p
             v == <<n>> \o q
  <2>1. PICK d \in Nat \ {0} : DiffersAt(p, q, d) /\ d <= Len(q) /\ (d <= Len(p) => p[d] < q[d])
    BY <1>1, PathsCompare
  <2>2. /\ u \in Seq(Name) /\ v \in Seq(Name) /\ Len(u) = Len(p) + 1 /\ Len(v) = Len(q) + 1
        /\ Len(p) \in Nat /\ Len(q) \in Nat
        /\ u[1] = n /\ v[1] = n
        /\ \A j \in 1 .. Len(p) : u[j + 1] = p[j]
        /\ \A j \in 1 .. Len(q) : v[j + 1] = q[j]
    OBVIOUS
  <2> HIDE DEF u, v
  <2>3. \A j \in 1 .. (d + 1) - 1 : u[j] = v[j]
    <3> TAKE j \in 1 .. (d + 1) - 1
    <3>1. CASE j = 1
      BY <2>2, <3>1
    <3>2. CASE j # 1
      <4> DEFINE i == j - 1
      <4>1. i \in 1 .. d - 1 /\ j = i + 1 /\ i \in 1 .. Len(p) /\ i \in 1 .. Len(q)
        BY <2>1, <2>2, <3>2 DEF DiffersAt
      <4> HIDE DEF i
      <4> QED BY <2>1, <2>2, <4>1 DEF DiffersAt
    <3> QED BY <3>1, <3>2
  <2>4. d + 1 <= Len(u) => d \in 1 .. Len(p) /\ u[d + 1] = p[d]
    BY <2>2
  <2>5. d + 1 <= Len(v) /\ d \in 1 .. Len(q) /\ v[d + 1] = q[d]
    BY <2>1, <2>2
  <2>6. DiffersAt(u, v, d + 1)
    <3>1. d + 1 <= Len(u) + 1 /\ d + 1 <= Len(v) + 1
      BY <2>1, <2>2 DEF DiffersAt
    <3>2. \/ d + 1 = Len(u) + 1 /\ d + 1 <= Len(v)
          \/ d + 1 <= Len(u) /\ d + 1 <= Len(v) /\ u[d + 1] # v[d + 1]
      BY <2>1, <2>2, <2>4, <2>5 DEF DiffersAt
    <3> QED BY <2>3, <3>1, <3>2 DEF DiffersAt
  <2>7. d + 1 \in Nat \ {0} /\ (d + 1 <= Len(u) => u[d + 1] < v[d + 1])
    BY <2>1, <2>4, <2>5
  <2>8. LexLess(u, v)
    BY <2>2, <2>5, <2>6, <2>7, PathsCompare
  <2> QED BY <2>8 DEF u, v
<1>2. ASSUME NEW q \in Seq(Name) PROVE LexLess(<<>>, <<n>> \o q)
  <2>1. Len(<<>>) = 0 /\ Len(<<n>> \o q) = Len(q) + 1 /\ Len(q) \in Nat /\ DOMAIN <<>> = {}
    OBVIOUS
  <2> QED BY <2>1 DEF LexLess
<1>3. ASSUME NEW p \in Seq(Name), NEW q \in Seq(Name), p # <<>>, p[1] < n PROVE LexLess(p, <<n>> \o q)
  <2>1. 1 \in DOMAIN p /\ 1 \in DOMAIN (<<n>> \o q) /\ (<<n>> \o q)[1] = n /\ 1 .. 1 - 1 = {}
    BY <1>3
  <2> QED BY <1>3, <2>1 DEF LexLess
<1> QED BY <1>1, <1>2, <1>3

LEMMA HeadsMore ==
    ASSUME NEW c \in Configs, NEW x \in Ends, NEW k \in DOMAIN CallList(c, x), NEW R, HeadsBelow(c, x, k, R)
    PROVE  /\ HeadsBelow(c, x, k + 1, R)
           /\ \A S : AreRows(S) => HeadsBelow(c, x, k + 1, R \union {Under(CallList(c, x)[k].name, row) : row \in S})
<1>0. k \in Nat /\ k \in 1 .. (k + 1) - 1 /\ \A i \in 1 .. k - 1 : i \in 1 .. (k + 1) - 1
  BY OwnAre
<1>1. HeadsBelow(c, x, k + 1, R)
  BY <1>0 DEF HeadsBelow
<1>2. ASSUME NEW S, AreRows(S), NEW row \in S
      PROVE  Under(CallList(c, x)[k].name, row).path[1] = CallList(c, x)[k].name
  <2>1. CallList(c, x)[k].name \in Name
    BY OwnAre, StepIn
  <2> QED BY <1>2, <2>1, UnderIs DEF AreRows
<1>3. ASSUME NEW S, AreRows(S)
      PROVE  HeadsBelow(c, x, k + 1, R \union {Under(CallList(c, x)[k].name, row) : row \in S})
  <2> DEFINE n == CallList(c, x)[k].name
  <2> SUFFICES ASSUME NEW u \in R \union {Under(n, row) : row \in S}
               PROVE  u.path = <<>> \/ \E i \in 1 .. (k + 1) - 1 : u.path[1] = CallList(c, x)[i].name
    BY DEF HeadsBelow
  <2>1. CASE u \in R
    BY <1>1, <2>1 DEF HeadsBelow
  <2>2. CASE \E row \in S : u = Under(n, row)
    <3>1. u.path[1] = CallList(c, x)[k].name
      BY <1>2, <1>3, <2>2
    <3> QED BY <1>0, <3>1
  <2> QED BY <2>1, <2>2
<1> QED BY <1>1, <1>3

(* Appending the rows of a later call keeps the order.                       *)
LEMMA OrderedMore ==
    ASSUME NEW c \in Configs, Tidy(c), NEW x \in Ends, NEW k \in DOMAIN CallList(c, x),
           NEW rows, IsList(rows), AreRows(ToSet(rows)), Ordered(rows), HeadsBelow(c, x, k, ToSet(rows)),
           NEW more, IsList(more), AreRows(ToSet(more)), Ordered(more)
    PROVE  Ordered(rows \o Prefixed(more, CallList(c, x)[k].name))
<1> DEFINE n == CallList(c, x)[k].name
           P == Prefixed(more, n)
           all == rows \o P
           l == Len(rows)
<1>1. n \in Name /\ k \in Nat
  BY OwnAre, StepIn
<1> HIDE DEF n
<1>2. /\ IsList(P) /\ DOMAIN P = DOMAIN more /\ Len(P) = Len(more)
      /\ \A i \in DOMAIN more : P[i] = Under(n, more[i])
  BY <1>1, PrefixedIs
<1> HIDE DEF P
<1>3. /\ IsList(all) /\ Len(all) = l + Len(more) /\ l \in Nat /\ Len(more) \in Nat
      /\ DOMAIN all = 1 .. l + Len(more) /\ DOMAIN more = 1 .. Len(more) /\ DOMAIN rows = 1 .. l
      /\ \A i \in 1 .. l : all[i] = rows[i]
      /\ \A i \in DOMAIN all : i \in 1 .. l \/ (i - l \in 1 .. Len(more) /\ all[i] = P[i - l])
  BY <1>2, JoinedLists DEF IsList
<1> HIDE DEF all, l
<1>4. \A i \in DOMAIN more : more[i] \in ToSet(more) /\ IsRow(more[i]) /\ RowShape(more[i]) /\ more[i].path \in Seq(Name)
  BY DEF AreRows, ToSet, IsRow
<1>5. \A i \in DOMAIN rows : rows[i] \in ToSet(rows) /\ rows[i].path \in Seq(Name)
  BY DEF AreRows, ToSet, IsRow
<1>6. \A i \in DOMAIN more : Under(n, more[i]).path = <<n>> \o more[i].path /\ Under(n, more[i]).block = more[i].block
  BY <1>1, <1>4, UnderIs
<1>7. ASSUME NEW i \in DOMAIN rows, NEW j \in DOMAIN more PROVE RowBefore(rows[i], P[j])
  <2>1. LexLess(rows[i].path, <<n>> \o more[j].path)
    <3>1. CASE rows[i].path = <<>>
      BY <1>1, <1>4, <3>1, PathsUnder
    <3>2. CASE rows[i].path # <<>>
      <4>1. PICK h \in 1 .. k - 1 : rows[i].path[1] = CallList(c, x)[h].name
        BY <1>5, <3>2 DEF HeadsBelow
      <4>2. h \in DOMAIN CallList(c, x) /\ h < k
        BY <1>1, OwnAre
      <4>3. CallList(c, x)[h].name < n
        BY <4>2, TidyNames DEF n
      <4> QED BY <1>1, <1>4, <1>5, <3>2, <4>1, <4>3, PathsUnder
    <3> QED BY <3>1, <3>2
  <2> QED BY <1>2, <1>6, <2>1 DEF RowBefore
<1>8. ASSUME NEW i \in DOMAIN more, NEW j \in DOMAIN more, i < j PROVE RowBefore(P[i], P[j])
  <2>1. RowBefore(more[i], more[j])
    BY <1>8 DEF Ordered
  <2>2. LexLess(more[i].path, more[j].path) => LexLess(<<n>> \o more[i].path, <<n>> \o more[j].path)
    BY <1>1, <1>4, PathsUnder
  <2> QED BY <1>2, <1>6, <2>1, <2>2 DEF RowBefore
<1>9. ASSUME NEW i \in DOMAIN all, NEW j \in DOMAIN all, i < j PROVE RowBefore(all[i], all[j])
  <2>1. CASE i \in 1 .. l /\ j \in 1 .. l
    BY <1>3, <1>9, <2>1 DEF Ordered
  <2>2. CASE i \in 1 .. l /\ j \notin 1 .. l
    BY <1>3, <1>7, <2>2
  <2>3. CASE i \notin 1 .. l
    <3>1. j \notin 1 .. l /\ i - l < j - l
      BY <1>3, <1>9, <2>3
    <3> QED BY <1>3, <1>8, <2>3, <3>1
  <2> QED BY <2>1, <2>2, <2>3
<1>10. Ordered(all)
  BY <1>9 DEF Ordered
<1> QED BY <1>10 DEF all, P, n

-----------------------------------------------------------------------------
(* Recursion in the tree: the directories and calls of a cycle.              *)
EdgeIn(c, d, e) ==
    /\ d \in Dir /\ LoadsIn(c, d)
    /\ \E o \in Override : \E call \in CallsOf(c, End(d, o)) : call.local /\ e = Join(d, call.source)

RecursiveIn(c) ==
    \E n \in 1 .. Cardinality(Dir) : \E walk \in [1 .. n + 1 -> Dir] :
        walk[1] = walk[n + 1] /\ \A i \in 1 .. n : EdgeIn(c, walk[i], walk[i + 1])

RealCycle(c, cycle) ==
    /\ cycle \in Seq(Dir) /\ Len(cycle) >= 2 /\ cycle[1] = cycle[Len(cycle)]
    /\ \A i \in 1 .. Len(cycle) - 1 : EdgeIn(c, cycle[i], cycle[i + 1])
    /\ \A i, j \in 1 .. Len(cycle) - 1 : cycle[i] = cycle[j] => i = j

(* A cycle that passes no directory twice is as long as recursion has to be. *)
LEMMA CycleRecurs ==
    ASSUME NEW c, NEW cycle, RealCycle(c, cycle)
    PROVE  RecursiveIn(c)
<1> DEFINE n == Len(cycle) - 1
           S == 1 .. n
           f == [i \in S |-> cycle[i]]
<1>1. n \in Nat \ {0} /\ Len(cycle) = n + 1 /\ cycle \in [1 .. n + 1 -> Dir]
  BY DEF RealCycle
<1>2. \A i, j \in S : cycle[i] = cycle[j] => i = j
  BY DEF RealCycle
<1>3. IsFiniteSet(S) /\ Cardinality(S) = n
  <2> HIDE DEF n
  <2>1. IsFiniteSet(1 .. n) /\ Cardinality(1 .. n) = IF 1 > n THEN 0 ELSE n - 1 + 1
    BY <1>1, FS_Interval
  <2> QED BY <1>1, <2>1
<1> HIDE DEF n
<1>4. f \in Injection(S, Dir)
  <2>1. S \subseteq 1 .. n + 1
    BY <1>1
  <2>2. f \in [S -> Dir]
    BY <1>1, <2>1
  <2> QED BY <1>2, <2>2 DEF Injection, IsInjective
<1>5. n \in 1 .. Cardinality(Dir)
  <2>1. IsFiniteSet(Dir)
    BY TextAssumption
  <2> HIDE DEF S, f
  <2>2. Cardinality(S) <= Cardinality(Dir)
    BY <1>4, <2>1, FS_Injection
  <2>3. Cardinality(Dir) \in Nat
    BY <2>1, FS_CardinalityType
  <2> QED BY <1>1, <1>3, <2>2, <2>3
<1>6. cycle[1] = cycle[n + 1] /\ \A i \in 1 .. n : EdgeIn(c, cycle[i], cycle[i + 1])
  BY <1>1 DEF RealCycle, n
<1> QED BY <1>1, <1>5, <1>6 DEF RecursiveIn

-----------------------------------------------------------------------------
(* The template of an expansion of x whose next call is the k-th: well       *)
(* formed; its cycles and instances real; what the directory itself has is   *)
(* there; and for tidy trees the calls followed are answered and the rows in *)
(* order, for trees without recursion no instance is missing.                *)
WellFormed(t) ==
    /\ t = [resources |-> t.resources, modules |-> t.modules, diags |-> t.diags]
    /\ IsList(t.resources) /\ AreRows(ToSet(t.resources))
    /\ t.modules \in Seq(SiteRow) /\ NoRepeats(t.modules)
    /\ t.diags \in Seq(Warning)

Sound(c, x, R, G) ==
    /\ \A g \in G : g.kind = "cycle" => RealCycle(c, g.cycle)
    /\ RealRows(c, x, R, G)
    /\ RowsOf(c, x) \subseteq R
    /\ ToSet(parsed[c[x.dir]][x.overrides].diags) \subseteq G

Answering(c, x, k, rows, G) ==
    /\ AnsweredHere(c, x, k, ToSet(rows), G) /\ AnsweredBelow(c, x, ToSet(rows), G)
    /\ Ordered(rows) /\ HeadsBelow(c, x, k, ToSet(rows))

Partial(c, x, k, t) ==
    /\ WellFormed(t)
    /\ Sound(c, x, ToSet(t.resources), ToSet(t.diags))
    /\ Tidy(c) => Answering(c, x, k, t.resources, ToSet(t.diags))
    /\ ~RecursiveIn(c) => FullRows(c, x, k, ToSet(t.resources))

SitesInOrder(sites) == \A i, j \in DOMAIN sites : i < j => SiteLess(sites[i], sites[j])

Whole(c, x, t) == Partial(c, x, Len(CallList(c, x)) + 1, t) /\ SitesInOrder(t.modules)

(* The site of a call of the directory itself.                               *)
LEMMA OwnSite == \A p \in Nat : [pos |-> p, path |-> <<>>] \in SiteRow
<1>1. <<>> \in Seq(Name)
  OBVIOUS
<1> DEFINE q == <<>>
<1> HIDE DEF q
<1>2. q \in Seq(Name)
  BY <1>1 DEF q
<1>3. \A p \in Nat : [pos |-> p, path |-> q] \in SiteRow
  BY <1>2 DEF SiteRow
<1> QED BY <1>3 DEF q

(* What a directory has by itself is where an expansion begins.              *)
LEMMA PartialStart ==
    ASSUME NEW c \in Configs, NEW x \in Ends
    PROVE  Partial(c, x, 1, [parsed[c[x.dir]][x.overrides] EXCEPT !.modules = Sites(@)])
<1> DEFINE own == parsed[c[x.dir]][x.overrides]
           t == [own EXCEPT !.modules = Sites(@)]
           rows == own.resources
           calls == own.modules
<1>0. x.dir \in Dir /\ x.overrides \in Override
  BY OwnAre
<1>1. /\ own = [resources |-> rows, modules |-> calls, diags |-> own.diags]
      /\ IsList(calls)
      /\ \A call \in ToSet(calls) : call.pos \in Nat
      /\ \A i, j \in DOMAIN calls : calls[i].pos = calls[j].pos => i = j
      /\ own.diags \in Seq(OwnDiag)
  <2> DEFINE d == x.dir
             o == x.overrides
             it == parsed[c[d]][o]
  <2>1. d \in Dir /\ o \in Override
    BY <1>0
  <2> HIDE DEF d, o
  <2>2. /\ it = [resources |-> it.resources, modules |-> it.modules, diags |-> it.diags]
        /\ IsList(it.modules)
        /\ \A call \in ToSet(it.modules) : call.pos \in Nat
        /\ \A i, j \in DOMAIN it.modules : it.modules[i].pos = it.modules[j].pos => i = j
        /\ it.diags \in Seq(OwnDiag)
    BY <2>1, OwnCalls
  <2>3. own = it
    BY DEF d, o
  <2> HIDE DEF it, own
  <2> QED BY <2>2, <2>3
<1>2. /\ IsList(rows)
      /\ \A row \in ToSet(rows) : IsRow(row) /\ row.path = <<>> /\ RowShape(row)
      /\ \A i, j \in DOMAIN rows : rows[i].block = rows[j].block => i = j
  BY <1>0, OwnRows
<1>3. ToSet(rows) = RowsOf(c, x)
  BY DEF RowsOf
<1> HIDE DEF own
<1>4. t = [resources |-> rows, modules |-> Sites(calls), diags |-> own.diags]
  BY <1>1
<1> HIDE DEF t, rows, calls
<1>5. Sites(calls) \in Seq(SiteRow) /\ NoRepeats(Sites(calls))
  <2> DEFINE s == Sites(calls)
             n == Len(calls)
  <2>1. n \in Nat /\ DOMAIN calls = 1 .. n /\ \A i \in 1 .. n : calls[i].pos \in Nat
    BY <1>1 DEF IsList, ToSet
  <2>2. s = [i \in 1 .. n |-> [pos |-> calls[i].pos, path |-> <<>>]]
    BY <2>1 DEF Sites
  <2> HIDE DEF s, n
  <2>3. \A i \in 1 .. n : s[i] = [pos |-> calls[i].pos, path |-> <<>>]
    BY <2>2
  <2>4. \A i \in 1 .. n : s[i] \in SiteRow
    BY <2>1, <2>3, OwnSite
  <2>5. DOMAIN s = 1 .. n
    BY <2>2
  <2>6. s \in Seq(SiteRow)
    <3> HIDE DEF SiteRow
    <3>1. s \in [1 .. n -> SiteRow]
      BY <2>2, <2>3, <2>4
    <3> QED BY <2>1, <3>1
  <2>7. NoRepeats(s)
    BY <1>1, <2>1, <2>3, <2>5 DEF NoRepeats
  <2> QED BY <2>6, <2>7 DEF s
<1>6. own.diags \in Seq(Warning) /\ \A g \in ToSet(own.diags) : g.kind # "cycle"
  <2>1. \A g \in OwnDiag : g \in Warning /\ g.kind # "cycle"
    <3> TAKE g \in OwnDiag
    <3>1. /\ g = [kind |-> g.kind, pos |-> g.pos, cycle |-> g.cycle]
          /\ g.kind \in {"non-local", "unresolved"} /\ g.pos \in Nat /\ g.cycle = <<>>
      BY DEF OwnDiag
    <3>2. g.cycle \in Seq(Dir)
      BY <3>1
    <3> QED BY <3>1, <3>2 DEF Warning
  <2>2. \A g \in ToSet(own.diags) : g \in OwnDiag
    BY <1>1, TypedList
  <2> QED BY <1>1, <2>1, <2>2, TypedList
<1>7. WellFormed(t)
  BY <1>2, <1>4, <1>5, <1>6 DEF WellFormed, AreRows
<1>8. RealRows(c, x, ToSet(rows), ToSet(own.diags))
  <2> SUFFICES ASSUME NEW row \in ToSet(rows)
               PROVE  LeadsTo(c, x, row.path, x) /\ At(<<>>, row) \in RowsOf(c, x)
    BY DEF RealRows, DiagsOf, own
  <2>1. row.path = <<>> /\ At(<<>>, row) = row
    BY <1>2 DEF At, RowShape
  <2> QED BY <1>3, <2>1, NoSteps
<1>9. Sound(c, x, ToSet(rows), ToSet(own.diags))
  BY <1>3, <1>6, <1>8 DEF Sound, own
<1>10. Answering(c, x, 1, rows, ToSet(own.diags))
  <2>1. 1 .. 1 - 1 = {}
    OBVIOUS
  <2>2. AnsweredHere(c, x, 1, ToSet(rows), ToSet(own.diags))
    BY <2>1 DEF AnsweredHere
  <2>3. AnsweredBelow(c, x, ToSet(rows), ToSet(own.diags))
    BY <1>2 DEF AnsweredBelow
  <2>4. Ordered(rows)
    <3> SUFFICES ASSUME NEW i \in DOMAIN rows, NEW j \in DOMAIN rows, i < j PROVE RowBefore(rows[i], rows[j])
      BY DEF Ordered
    <3>1. rows[i] \in ToSet(rows) /\ rows[j] \in ToSet(rows) /\ i # j
      BY <1>2, ListIs DEF ToSet
    <3> QED BY <1>2, <3>1 DEF RowBefore
  <2>5. HeadsBelow(c, x, 1, ToSet(rows))
    BY <1>2 DEF HeadsBelow
  <2> QED BY <2>2, <2>3, <2>4, <2>5 DEF Answering
<1>11. FullRows(c, x, 1, ToSet(rows))
  <2>1. 1 .. 1 - 1 = {}
    OBVIOUS
  <2> QED BY <1>3, <2>1 DEF FullRows
<1>12. t.resources = rows /\ t.diags = own.diags
  BY <1>4
<1>13. Partial(c, x, 1, t)
  BY <1>7, <1>9, <1>10, <1>11, <1>12 DEF Partial
<1> QED BY <1>13 DEF t, own

(* A call that is not local has been warned about before.                    *)
LEMMA PartialPassed ==
    ASSUME NEW c \in Configs, NEW x \in Ends, NEW k \in DOMAIN CallList(c, x), NEW t, Partial(c, x, k, t),
           ~CallList(c, x)[k].local
    PROVE  Partial(c, x, k + 1, t)
<1> DEFINE R == ToSet(t.resources)
           G == ToSet(t.diags)
           call == CallList(c, x)[k]
<1>0. x.dir \in Dir /\ x.overrides \in Override /\ call \in CallsOf(c, x)
  BY OwnAre
<1>1. AnsweredIn(c, x, call, <<>>, R, G)
  <2>1. PICK g \in ToSet(parsed[c[x.dir]][x.overrides].diags) : g.kind = "non-local" /\ g.pos = call.pos
    <3> HIDE DEF call
    <3>1. ~call.local /\ call \in ToSet(parsed[c[x.dir]][x.overrides].modules)
      BY <1>0 DEF call, CallsOf
    <3> DEFINE d == x.dir
               o == x.overrides
    <3>2. d \in Dir /\ o \in Override /\ call \in ToSet(parsed[c[d]][o].modules)
      BY <1>0, <3>1
    <3> HIDE DEF d, o
    <3>3. \A f \in ToSet(parsed[c[d]][o].modules) : ~f.local =>
             \E g \in ToSet(parsed[c[d]][o].diags) : g.kind = "non-local" /\ g.pos = f.pos
      BY ZenonT(30), <3>2, OwnCalls
    <3>4. \E g \in ToSet(parsed[c[d]][o].diags) : g.kind = "non-local" /\ g.pos = call.pos
      BY <3>1, <3>2, <3>3
    <3> QED BY <3>4 DEF d, o
  <2>2. g \in G
    BY <2>1 DEF Partial, Sound
  <2> QED BY <2>1, <2>2 DEF AnsweredIn
<1>2. Tidy(c) => Answering(c, x, k + 1, t.resources, G)
  <2> SUFFICES ASSUME Tidy(c) PROVE Answering(c, x, k + 1, t.resources, G)
    OBVIOUS
  <2>1. Answering(c, x, k, t.resources, G)
    BY DEF Partial
  <2> HIDE DEF G, call
  <2> QED BY <1>1, <2>1, HereMore, HeadsMore DEF Answering, call
<1>3. ~RecursiveIn(c) => FullRows(c, x, k + 1, R)
  BY FullMore DEF Partial
<1> QED BY <1>2, <1>3 DEF Partial

(* A warning about a call answers it.                                        *)
LEMMA PartialWarned ==
    ASSUME NEW c \in Configs, NEW x \in Ends, NEW k \in DOMAIN CallList(c, x), NEW t, Partial(c, x, k, t),
           NEW g \in Warning, g.pos = CallList(c, x)[k].pos,
           \/ g.kind = "cycle" /\ RealCycle(c, g.cycle)
           \/ g.kind = "load" /\ ~LoadsIn(c, Join(x.dir, CallList(c, x)[k].source))
    PROVE  Partial(c, x, k + 1, [t EXCEPT !.diags = Append(@, g)])
<1> DEFINE R == ToSet(t.resources)
           G == ToSet(t.diags)
           u == [t EXCEPT !.diags = Append(@, g)]
           H == ToSet(u.diags)
           call == CallList(c, x)[k]
<1>1. /\ t = [resources |-> t.resources, modules |-> t.modules, diags |-> t.diags]
      /\ IsList(t.resources) /\ AreRows(R)
      /\ t.modules \in Seq(SiteRow) /\ NoRepeats(t.modules) /\ t.diags \in Seq(Warning)
  BY DEF Partial, WellFormed
<1>2. u = [resources |-> t.resources, modules |-> t.modules, diags |-> Append(t.diags, g)]
  <2> DEFINE q == Append(t.diags, g)
  <2>1. u = [t EXCEPT !.diags = q]
    OBVIOUS
  <2> HIDE DEF u, q
  <2>2. u = [resources |-> t.resources, modules |-> t.modules, diags |-> q]
    BY <1>1, <2>1
  <2> QED BY <2>2 DEF q
<1>3. IsList(t.diags) /\ \A f \in G : f \in Warning
  BY <1>1, TypedList
<1> HIDE DEF u
<1>4. IsList(u.diags) /\ H = G \union {g} /\ u.diags \in Seq(Warning)
  <2>1. IsList(u.diags) /\ ToSet(u.diags) = ToSet(t.diags) \union {g}
    BY <1>2, <1>3, LongerList
  <2>2. \A f \in ToSet(u.diags) : f \in Warning
    BY <1>3, <2>1
  <2> QED BY <2>1, <2>2, TypedList
<1> HIDE DEF H
<1>5. WellFormed(u)
  BY <1>1, <1>2, <1>4 DEF WellFormed
<1>6. Sound(c, x, R, H)
  <2>1. Sound(c, x, R, G)
    BY DEF Partial
  <2>2. RealRows(c, x, R, H)
    BY <1>4, <2>1 DEF Sound, RealRows
  <2> QED BY <1>4, <2>1, <2>2 DEF Sound
<1>7. Tidy(c) => Answering(c, x, k + 1, t.resources, H)
  <2> SUFFICES ASSUME Tidy(c) PROVE Answering(c, x, k + 1, t.resources, H)
    OBVIOUS
  <2>1. Answering(c, x, k, t.resources, G)
    BY DEF Partial
  <2>2. AnsweredIn(c, x, call, <<>>, R, H)
    BY <1>4 DEF AnsweredIn
  <2>3. AnsweredHere(c, x, k, R, H) /\ AnsweredBelow(c, x, R, H)
    <3>1. G \subseteq H /\ R \subseteq R
      BY <1>4
    <3> HIDE DEF G, R
    <3> QED BY <2>1, <3>1, AnsweredStays DEF Answering, G, R
  <2>4. AnsweredHere(c, x, k + 1, R, H)
    <3> HIDE DEF R
    <3> QED BY <2>2, <2>3, HereMore
  <2> QED BY <2>1, <2>3, <2>4, HeadsMore DEF Answering
<1>8. ~RecursiveIn(c) => FullRows(c, x, k + 1, R)
  BY FullMore, CycleRecurs DEF Partial
<1>9. u.resources = t.resources
  BY <1>2
<1>10. Partial(c, x, k + 1, u)
  BY <1>5, <1>6, <1>7, <1>8, <1>9 DEF Partial, H
<1> QED BY <1>10 DEF u

(* A callee's template is taken over below the name of the call.             *)
LEMMA PartialJoined ==
    ASSUME NEW c \in Configs, NEW x \in Ends, NEW k \in DOMAIN CallList(c, x), NEW t, Partial(c, x, k, t),
           CallList(c, x)[k].local, LoadsIn(c, Join(x.dir, CallList(c, x)[k].source)),
           NEW child, Whole(c, Callee(x.dir, CallList(c, x)[k]), child)
    PROVE  Partial(c, x, k + 1,
                   [resources |-> t.resources \o Prefixed(child.resources, CallList(c, x)[k].name),
                    modules |-> AddSites(t.modules, Prefixed(child.modules, CallList(c, x)[k].name)),
                    diags |-> t.diags \o child.diags])
<1> DEFINE call == CallList(c, x)[k]
           n == call.name
           e == Callee(x.dir, call)
           R == ToSet(t.resources)
           G == ToSet(t.diags)
           S == ToSet(child.resources)
           H == ToSet(child.diags)
           rows == t.resources \o Prefixed(child.resources, n)
           sites == AddSites(t.modules, Prefixed(child.modules, n))
           diags == t.diags \o child.diags
           u == [resources |-> rows, modules |-> sites, diags |-> diags]
           T == R \union {Under(n, row) : row \in S}
<1>0. call \in CallsOf(c, x) /\ call.local /\ LoadsIn(c, Join(x.dir, call.source)) /\ n \in Name /\ e \in Ends
  <2>1. call \in CallsOf(c, x)
    BY OwnAre
  <2> HIDE DEF call
  <2> QED BY <2>1, StepIn DEF call
<1>1. /\ IsList(t.resources) /\ AreRows(R)
      /\ t.modules \in Seq(SiteRow) /\ NoRepeats(t.modules) /\ t.diags \in Seq(Warning)
      /\ Sound(c, x, R, G)
  BY DEF Partial, WellFormed
<1>2. /\ IsList(child.resources) /\ AreRows(S)
      /\ child.modules \in Seq(SiteRow) /\ child.diags \in Seq(Warning)
      /\ Sound(c, e, S, H)
  BY DEF Whole, Partial, WellFormed
<1>3. /\ Tidy(c) => Answering(c, x, k, t.resources, G) /\ Answering(c, e, Len(CallList(c, e)) + 1, child.resources, H)
      /\ ~RecursiveIn(c) => FullRows(c, x, k, R) /\ FullRows(c, e, Len(CallList(c, e)) + 1, S)
  BY DEF Whole, Partial
<1> HIDE DEF call, e
<1>4. IsList(rows) /\ ToSet(rows) = T
  <2> DEFINE P == Prefixed(child.resources, n)
  <2>1. IsList(P) /\ \A y : y \in ToSet(P) <=> \E row \in S : y = Under(n, row)
    <3> HIDE DEF n
    <3> QED BY <1>0, <1>2, PrefixedIs
  <2> HIDE DEF P
  <2>2. IsList(t.resources \o P) /\ \A y : y \in ToSet(t.resources \o P) <=> y \in R \/ y \in ToSet(P)
    BY <1>1, <2>1, JoinedLists
  <2>3. ToSet(t.resources \o P) = T
    BY <2>1, <2>2
  <2> QED BY <2>2, <2>3 DEF P
<1>5. IsList(diags) /\ ToSet(diags) = G \union H /\ diags \in Seq(Warning)
  <2>1. IsList(t.diags) /\ IsList(child.diags) /\ (\A g \in G : g \in Warning) /\ (\A g \in H : g \in Warning)
    BY <1>1, <1>2, TypedList
  <2>2. IsList(diags) /\ \A g : g \in ToSet(diags) <=> g \in G \/ g \in H
    BY <2>1, JoinedLists
  <2> HIDE DEF diags
  <2>3. \A g \in ToSet(diags) : g \in Warning
    BY <2>1, <2>2
  <2>4. ToSet(diags) = G \union H
    BY <2>2
  <2> QED BY <2>2, <2>3, <2>4, TypedList
<1>6. sites \in Seq(SiteRow) /\ NoRepeats(sites)
  <2> DEFINE P == Prefixed(child.modules, n)
  <2>1. IsList(child.modules) /\ \A s \in ToSet(child.modules) : s \in SiteRow
    BY <1>2, TypedList
  <2>2. IsList(P) /\ \A y : y \in ToSet(P) <=> \E s \in ToSet(child.modules) : y = Under(n, s)
    <3> HIDE DEF n
    <3> QED BY <1>0, <2>1, PrefixedIs
  <2> HIDE DEF P
  <2>3. \A s \in SiteRow : Under(n, s) \in SiteRow
    <3> TAKE s \in SiteRow
    <3> DEFINE q == <<n>> \o s.path
    <3>1. s = [pos |-> s.pos, path |-> s.path] /\ s.pos \in Nat /\ s.path \in Seq(Name)
      BY DEF SiteRow
    <3>2. q \in Seq(Name)
      BY <1>0, <3>1
    <3>3. Under(n, s) = [s EXCEPT !.path = q]
      BY DEF Under
    <3> HIDE DEF q
    <3>4. [s EXCEPT !.path = q] = [pos |-> s.pos, path |-> q]
      BY <3>1
    <3> QED BY <3>1, <3>2, <3>3, <3>4 DEF SiteRow
  <2>4. P \in Seq(SiteRow)
    BY <2>1, <2>2, <2>3, TypedList
  <2>5. AddSites(t.modules, P) \in Seq(SiteRow) /\ NoRepeats(AddSites(t.modules, P))
    BY <1>1, <2>4, SitesAreAdded
  <2> QED BY <2>5 DEF P
<1>7. AreRows(T)
  <2>1. \A row \in S : IsRow(Under(n, row)) /\ RowShape(Under(n, row))
    BY <1>0, <1>2, UnderIs DEF AreRows
  <2> QED BY <1>1, <2>1 DEF AreRows
<1>8. Sound(c, x, T, G \union H)
  <2>1. RealRows(c, x, T, G \union H)
    <3> HIDE DEF R, S, G, H
    <3> QED BY <1>0, <1>1, <1>2, RealMore DEF Sound, e
  <2> QED BY <1>1, <1>2, <2>1 DEF Sound
<1>9. Tidy(c) => Answering(c, x, k + 1, rows, G \union H)
  <2> SUFFICES ASSUME Tidy(c) PROVE Answering(c, x, k + 1, rows, G \union H)
    OBVIOUS
  <2>1. /\ AnsweredHere(c, x, k, R, G) /\ AnsweredBelow(c, x, R, G) /\ Ordered(t.resources) /\ HeadsBelow(c, x, k, R)
        /\ AnsweredHere(c, e, Len(CallList(c, e)) + 1, S, H) /\ AnsweredBelow(c, e, S, H) /\ Ordered(child.resources)
    BY <1>3 DEF Answering
  <2>2. AllAnswered(c, e, S, H)
    <3> HIDE DEF S, H
    <3> QED BY <1>0, <2>1, AnsweredAll
  <2>3. AnsweredHere(c, x, k + 1, T, G \union H) /\ AnsweredBelow(c, x, T, G \union H)
    <3>1. RowsOf(c, e) \subseteq S
      BY <1>2 DEF Sound
    <3> HIDE DEF S, H, R, G
    <3> QED BY <1>0, <1>2, <2>1, <2>2, <3>1, AnsweredMore DEF call, e
  <2>4. Ordered(rows)
    BY <1>1, <1>2, <2>1, OrderedMore DEF call
  <2>5. HeadsBelow(c, x, k + 1, T)
    <3> HIDE DEF S, R
    <3> QED BY <1>2, <2>1, HeadsMore DEF call
  <2> HIDE DEF rows, T
  <2> QED BY <1>4, <2>3, <2>4, <2>5 DEF Answering
<1>10. ~RecursiveIn(c) => FullRows(c, x, k + 1, T)
  <2> SUFFICES ASSUME ~RecursiveIn(c) PROVE FullRows(c, x, k + 1, T)
    OBVIOUS
  <2> HIDE DEF S, R
  <2>1. AllRows(c, e, S)
    BY <1>0, <1>3, FullAll
  <2> QED BY <1>0, <1>3, <2>1, FullMore DEF call, e
<1> HIDE DEF rows, sites, diags, T, G, H
<1>11. u.resources = rows /\ u.modules = sites /\ u.diags = diags
       /\ u = [resources |-> u.resources, modules |-> u.modules, diags |-> u.diags]
  OBVIOUS
<1> HIDE DEF u
<1>12. WellFormed(u)
  BY <1>4, <1>5, <1>6, <1>7, <1>11 DEF WellFormed
<1>13. Partial(c, x, k + 1, u)
  BY <1>4, <1>5, <1>8, <1>9, <1>10, <1>11, <1>12 DEF Partial
<1> QED BY <1>13 DEF u, rows, sites, diags, call

(* With every call followed the template is whole once its sites are sorted. *)
LEMMA PartialClosed ==
    ASSUME NEW c \in Configs, NEW x \in Ends, NEW t, Partial(c, x, Len(CallList(c, x)) + 1, t)
    PROVE  Whole(c, x, [t EXCEPT !.modules = SortSites(@)])
<1> DEFINE u == [t EXCEPT !.modules = SortSites(@)]
           k == Len(CallList(c, x)) + 1
<1>1. /\ t = [resources |-> t.resources, modules |-> t.modules, diags |-> t.diags]
      /\ IsList(t.resources) /\ AreRows(ToSet(t.resources))
      /\ t.modules \in Seq(SiteRow) /\ NoRepeats(t.modules) /\ t.diags \in Seq(Warning)
  BY DEF Partial, WellFormed
<1>2. u = [resources |-> t.resources, modules |-> SortSites(t.modules), diags |-> t.diags]
  BY <1>1
<1> DEFINE s == SortSites(t.modules)
<1>3. s \in Seq(SiteRow) /\ SitesInOrder(s)
  BY <1>1, SitesSorted DEF SitesInOrder, NoRepeats
<1> HIDE DEF s, u, k
<1>4. NoRepeats(s)
  <2>1. \A i \in DOMAIN s : s[i] \in SiteRow /\ i \in Nat
    BY <1>3
  <2>2. \A i, j \in DOMAIN s : i < j => s[i] # s[j]
    BY <1>3, <2>1, SiteLessOrders DEF SitesInOrder
  <2>3. \A i, j \in DOMAIN s : i < j \/ i = j \/ j < i
    BY <2>1
  <2> QED BY <2>2, <2>3 DEF NoRepeats
<1>5. u.resources = t.resources /\ u.modules = s /\ u.diags = t.diags
      /\ u = [resources |-> u.resources, modules |-> u.modules, diags |-> u.diags]
  BY <1>2 DEF s
<1>6. WellFormed(u)
  BY <1>1, <1>3, <1>4, <1>5 DEF WellFormed
<1>7. Partial(c, x, k, u)
  BY <1>5, <1>6 DEF Partial, k
<1> QED BY <1>3, <1>5, <1>7 DEF Whole, u, k

-----------------------------------------------------------------------------
(* Cache keys: no two expansions share one.                                  *)
LEMMA Listed ==
    ASSUME NEW S, IsFiniteSet(S)
    PROVE  /\ Cardinality(S) \in Nat /\ DOMAIN SetToSeq(S) = 1 .. Cardinality(S)
           /\ \A i \in 1 .. Cardinality(S) : SetToSeq(S)[i] \in S
           /\ \A y \in S : \E i \in 1 .. Cardinality(S) : SetToSeq(S)[i] = y
<1> DEFINE n == Cardinality(S)
           T == 1 .. n
           f == SetToSeq(S)
<1>1. n \in Nat /\ ExistsBijection(T, S)
  BY FS_CardinalityType
<1>2. IsFiniteSet(T) /\ Cardinality(T) = n
  <2> HIDE DEF n
  <2>1. IsFiniteSet(1 .. n) /\ Cardinality(1 .. n) = IF 1 > n THEN 0 ELSE n - 1 + 1
    BY <1>1, FS_Interval
  <2> QED BY <1>1, <2>1
<1>3. f \in [T -> S] /\ IsInjective(f)
  <2>1. PICK g : g \in Bijection(T, S)
    BY <1>1 DEF ExistsBijection
  <2>2. g \in [T -> S] /\ IsInjective(g)
    BY <2>1 DEF Bijection, Injection
  <2>3. \E h \in [T -> S] : IsInjective(h)
    BY <2>2
  <2>4. f = CHOOSE h \in [T -> S] : IsInjective(h)
    BY DEF SetToSeq
  <2> HIDE DEF f, T
  <2> QED BY <2>3, <2>4
<1> HIDE DEF f, T
<1>4. f \in Injection(T, S)
  BY <1>3 DEF Injection
<1>5. f \in Surjection(T, S)
  BY <1>2, <1>4, FS_Injection DEF n
<1>6. \A y \in S : \E i \in T : f[i] = y
  BY <1>5 DEF Surjection
<1> QED BY <1>1, <1>3, <1>6 DEF f, T, n

(* A string, also for the prover, which knows of no string that it is one.   *)
Text == STRING \union {"|", "="}

RenderStep(o, acc, n) == acc \o <<"|", n, "=", ToString(o[n])>>

RenderedSoFar(o, k, acc) ==
    /\ acc \in Seq(Text) /\ Len(acc) = 4 * k
    /\ \A j \in 1 .. k : /\ acc[4 * j - 2] = SetToSeq(DOMAIN o)[j]
                         /\ acc[4 * j] = ToString(o[SetToSeq(DOMAIN o)[j]])

Rendering == INSTANCE FoldProofs WITH FoldStep <- RenderStep, FoldHolds <- RenderedSoFar

LEMMA Concatenated ==
    ASSUME NEW S, NEW u \in Seq(S), NEW v \in Seq(S)
    PROVE  /\ u \o v \in Seq(S) /\ Len(u \o v) = Len(u) + Len(v)
           /\ \A i \in 1 .. Len(u) : (u \o v)[i] = u[i]
           /\ \A i \in 1 .. Len(v) : (u \o v)[Len(u) + i] = v[i]
OBVIOUS

LEMMA FourMore ==
    ASSUME NEW k \in Nat, NEW S, NEW a \in Seq(S), Len(a) = 4 * k - 4,
           NEW s1 \in S, NEW s2 \in S, NEW s3 \in S, NEW s4 \in S
    PROVE  LET b == a \o <<s1, s2, s3, s4>>
           IN  /\ b \in Seq(S) /\ Len(b) = 4 * k
               /\ \A i \in 1 .. 4 * k - 4 : b[i] = a[i]
               /\ b[4 * k - 2] = s2 /\ b[4 * k] = s4
<1> DEFINE t == <<s1, s2, s3, s4>>
<1>1. t \in Seq(S) /\ Len(t) = 4
  OBVIOUS
<1>2. t[2] = s2 /\ t[4] = s4
  OBVIOUS
<1> HIDE DEF t
<1>3. t \in Seq(S)
  BY <1>1
<1>4. /\ a \o t \in Seq(S) /\ Len(a \o t) = Len(a) + Len(t)
      /\ \A i \in 1 .. Len(a) : (a \o t)[i] = a[i]
      /\ \A i \in 1 .. Len(t) : (a \o t)[Len(a) + i] = t[i]
  BY <1>3, Concatenated
<1> DEFINE b == a \o t
<1> HIDE DEF b
<1>5. Len(a) + 2 = 4 * k - 2 /\ Len(a) + 4 = 4 * k /\ 2 \in 1 .. 4 /\ 4 \in 1 .. 4
  OBVIOUS
<1>6. b[4 * k - 2] = s2 /\ b[4 * k] = s4
  BY <1>1, <1>2, <1>4, <1>5 DEF b
<1>7. b \in Seq(S) /\ Len(b) = 4 * k
  BY <1>1, <1>4, <1>5 DEF b
<1>8. \A i \in 1 .. 4 * k - 4 : b[i] = a[i]
  BY <1>4 DEF b
<1> QED BY <1>6, <1>7, <1>8 DEF b, t

LEMMA RenderedIs ==
    ASSUME NEW o \in Override
    PROVE  RenderedSoFar(o, Cardinality(DOMAIN o), Rendered(o)) /\ Cardinality(DOMAIN o) \in Nat
<1> DEFINE ns == SetToSeq(DOMAIN o)
           n == Cardinality(DOMAIN o)
<1>1. /\ IsFiniteSet(DOMAIN o) /\ DOMAIN o \subseteq STRING
      /\ \A m \in DOMAIN o : ToString(o[m]) \in STRING
  BY TextAssumption
<1>2. n \in Nat /\ DOMAIN ns = 1 .. n /\ \A i \in 1 .. n : ns[i] \in DOMAIN o
  BY <1>1, Listed
<1>3. Rendered(o) = Rendering!Folded(o, <<>>, ns)
  <2>1. Rendered(o) = FoldLeft(LAMBDA acc, m : RenderStep(o, acc, m), <<>>, ns)
    BY DEF Rendered, RenderStep
  <2>2. Rendering!Folded(o, <<>>, ns) = FoldLeft(LAMBDA acc, m : RenderStep(o, acc, m), <<>>, ns)
    BY DEF Rendering!Folded, Rendering!Greatest, FoldLeft, MapThenFoldSet, Max
  <2> QED BY <2>1, <2>2
<1>4. RenderedSoFar(o, 0, <<>>)
  <2>1. <<>> \in Seq(Text) /\ Len(<<>>) = 0 /\ 1 .. 0 = {}
    OBVIOUS
  <2> QED BY <2>1 DEF RenderedSoFar
<1>5. ASSUME NEW k \in 1 .. n, NEW a, RenderedSoFar(o, k - 1, a) PROVE RenderedSoFar(o, k, RenderStep(o, a, ns[k]))
  <2> DEFINE m == ns[k]
             v == ToString(o[m])
             more == <<"|", m, "=", v>>
             b == a \o more
  <2>1. k \in Nat /\ m \in Text /\ v \in Text /\ "|" \in Text /\ "=" \in Text
    BY <1>1, <1>2 DEF Text
  <2>2. a \in Seq(Text) /\ Len(a) = 4 * k - 4
    BY <2>1, <1>5 DEF RenderedSoFar
  <2> HIDE DEF m, v
  <2>4. /\ b \in Seq(Text) /\ Len(b) = 4 * k
        /\ \A i \in 1 .. 4 * k - 4 : b[i] = a[i]
        /\ b[4 * k - 2] = m /\ b[4 * k] = v
    BY <2>1, <2>2, FourMore
  <2>5. RenderStep(o, a, m) = b
    BY DEF RenderStep, v
  <2> HIDE DEF b
  <2>6. ASSUME NEW j \in 1 .. k PROVE b[4 * j - 2] = ns[j] /\ b[4 * j] = ToString(o[ns[j]])
    <3>1. CASE j = k
      BY <2>4, <3>1 DEF m, v
    <3>2. CASE j # k
      <4>1. j \in 1 .. k - 1 /\ 4 * j - 2 \in 1 .. 4 * k - 4 /\ 4 * j \in 1 .. 4 * k - 4
        BY <2>1, <3>2
      <4>2. a[4 * j - 2] = ns[j] /\ a[4 * j] = ToString(o[ns[j]])
        BY <1>5, <4>1 DEF RenderedSoFar
      <4> QED BY <2>4, <4>1, <4>2
    <3> QED BY <3>1, <3>2
  <2>7. RenderedSoFar(o, k, b)
    BY <2>4, <2>6 DEF RenderedSoFar
  <2> QED BY <2>5, <2>7 DEF m
<1>6. RenderedSoFar(o, n, Rendering!Folded(o, <<>>, ns))
  <2> HIDE DEF n, ns
  <2> QED BY <1>2, <1>4, <1>5, Rendering!FoldInduction
<1> QED BY <1>2, <1>3, <1>6

LEMMA RenderedTells ==
    ASSUME NEW o \in Override, NEW q \in Override, Rendered(o) = Rendered(q)
    PROVE  o = q
<1> DEFINE n == Cardinality(DOMAIN o)
           m == Cardinality(DOMAIN q)
           r == Rendered(o)
<1>1. RenderedSoFar(o, n, r) /\ RenderedSoFar(q, m, r) /\ n \in Nat /\ m \in Nat
  BY RenderedIs
<1>2. /\ IsFiniteSet(DOMAIN o) /\ IsFiniteSet(DOMAIN q)
      /\ o = [x \in DOMAIN o |-> o[x]] /\ q = [x \in DOMAIN q |-> q[x]]
      /\ \A x \in DOMAIN o \intersect DOMAIN q : ToString(o[x]) = ToString(q[x]) => o[x] = q[x]
  BY TextAssumption
<1>3. /\ \A i \in 1 .. n : SetToSeq(DOMAIN o)[i] \in DOMAIN o
      /\ \A x \in DOMAIN o : \E i \in 1 .. n : SetToSeq(DOMAIN o)[i] = x
      /\ \A i \in 1 .. m : SetToSeq(DOMAIN q)[i] \in DOMAIN q
      /\ \A x \in DOMAIN q : \E i \in 1 .. m : SetToSeq(DOMAIN q)[i] = x
  BY <1>2, Listed
<1> HIDE DEF n, m, r
<1>4. n = m
  <2>1. Len(r) = 4 * n /\ Len(r) = 4 * m
    BY <1>1 DEF RenderedSoFar
  <2> QED BY <1>1, <2>1
<1>5. \A i \in 1 .. n : /\ SetToSeq(DOMAIN o)[i] = SetToSeq(DOMAIN q)[i]
                        /\ ToString(o[SetToSeq(DOMAIN o)[i]]) = ToString(q[SetToSeq(DOMAIN o)[i]])
  BY <1>1, <1>4 DEF RenderedSoFar
<1>6. DOMAIN o = DOMAIN q
  BY <1>3, <1>4, <1>5
<1>7. \A x \in DOMAIN o : o[x] = q[x]
  <2> TAKE x \in DOMAIN o
  <2>1. PICK i \in 1 .. n : SetToSeq(DOMAIN o)[i] = x
    BY <1>3
  <2>2. ToString(o[x]) = ToString(q[x])
    BY <1>5, <2>1
  <2> QED BY <1>2, <1>6, <2>2
<1> QED BY <1>2, <1>6, <1>7

(* The lengths say where the directory ends, the slash that there is one.    *)
THEOREM KeysTell ==
    ASSUME NEW d \in Dir, NEW e \in Dir, NEW o \in Override, NEW q \in Override,
           buildCacheKey(d, o) = buildCacheKey(e, q)
    PROVE  d = e /\ o = q
<1>1. /\ d \in Seq(Text) /\ e \in Seq(Text) /\ d # <<>> /\ e # <<>> /\ d[1] = "/" /\ e[1] = "/"
      /\ ToString(Len(d)) \in Text /\ ToString(Len(d)) # "/"
      /\ ToString(Len(e)) \in Text /\ ToString(Len(e)) # "/"
      /\ ToString(Len(d)) = ToString(Len(e)) => Len(d) = Len(e)
  <2>1. /\ d \in Seq(STRING) /\ e \in Seq(STRING) /\ d # <<>> /\ e # <<>> /\ d[1] = "/" /\ e[1] = "/"
        /\ ToString(Len(d)) \in STRING /\ ToString(Len(d)) # "/"
        /\ ToString(Len(e)) \in STRING /\ ToString(Len(e)) # "/"
        /\ ToString(Len(d)) = ToString(Len(e)) => Len(d) = Len(e)
    BY TextAssumption
  <2>2. \A x \in STRING : x \in Text
    BY DEF Text
  <2>3. d \in Seq(Text) /\ e \in Seq(Text)
    BY <2>1, <2>2, TypedList
  <2> QED BY <2>1, <2>2, <2>3
<1> DEFINE r == Rendered(o)
           s == Rendered(q)
           Key1 == <<ToString(Len(d))>> \o d \o r
           Key2 == <<ToString(Len(e))>> \o e \o s
<1>2. r \in Seq(Text) /\ s \in Seq(Text)
  BY RenderedIs DEF RenderedSoFar
<1> DEFINE a == ToString(Len(d))
           b == ToString(Len(e))
<1> HIDE DEF r, s, a, b
<1>3. /\ Len(Key1) = 1 + Len(d) + Len(r) /\ Key1[1] = a
      /\ \A i \in 1 .. Len(d) : Key1[i + 1] = d[i]
      /\ \A i \in 1 .. Len(r) : Key1[Len(d) + 1 + i] = r[i]
  BY SMTT(30), <1>1, <1>2 DEF a
<1>4. /\ Len(Key2) = 1 + Len(e) + Len(s) /\ Key2[1] = b
      /\ \A i \in 1 .. Len(e) : Key2[i + 1] = e[i]
      /\ \A i \in 1 .. Len(s) : Key2[Len(e) + 1 + i] = s[i]
  BY SMTT(30), <1>1, <1>2 DEF b
<1>5. /\ buildCacheKey(d, o) = IF o = NoArgs THEN d ELSE Key1
      /\ buildCacheKey(e, q) = IF q = NoArgs THEN e ELSE Key2
  BY DEF buildCacheKey, r, s
<1> HIDE DEF Key1, Key2
<1>6. CASE o = NoArgs /\ q = NoArgs
  BY <1>5, <1>6
<1>7. CASE o = NoArgs /\ q # NoArgs
  <2>1. d = Key2
    BY <1>5, <1>7
  <2> QED BY <1>1, <1>4, <2>1 DEF b
<1>8. CASE o # NoArgs /\ q = NoArgs
  <2>1. e = Key1
    BY <1>5, <1>8
  <2> QED BY <1>1, <1>3, <2>1 DEF a
<1>9. CASE o # NoArgs /\ q # NoArgs
  <2>1. Key1 = Key2
    BY <1>5, <1>9
  <2>2. Len(d) = Len(e) /\ Len(d) \in Nat /\ Len(r) \in Nat /\ Len(s) \in Nat
    BY <1>1, <1>2, <1>3, <1>4, <2>1 DEF a, b
  <2>3. Len(r) = Len(s)
    BY <1>3, <1>4, <2>1, <2>2
  <2>4. d = e
    <3>1. \A i \in 1 .. Len(d) : d[i] = e[i]
      BY <1>3, <1>4, <2>1, <2>2
    <3> QED BY <1>1, <2>2, <3>1
  <2>5. r = s
    <3>1. \A i \in 1 .. Len(r) : r[i] = s[i]
      BY <1>3, <1>4, <2>1, <2>2, <2>3
    <3> QED BY <1>2, <2>2, <2>3, <3>1
  <2> QED BY <2>4, <2>5, RenderedTells DEF r, s
<1> QED BY <1>6, <1>7, <1>8, <1>9

-----------------------------------------------------------------------------
(* The stack of activations: each has the calls of its directory and what    *)
(* was gathered up to the next one, and each but the innermost is at the     *)
(* call that the following one expands.                                      *)
EndOf(f) == End(f.dir, f.overrides)

FrameOk(c, f) ==
    /\ f = [dir |-> f.dir, overrides |-> f.overrides, calls |-> f.calls, next |-> f.next, template |-> f.template]
    /\ EndOf(f) \in Ends /\ LoadsIn(c, f.dir)
    /\ f.calls = CallList(c, EndOf(f)) /\ f.next \in 1 .. Len(f.calls) + 1
    /\ Partial(c, EndOf(f), f.next, f.template)

Calling(f) == f.next \in DOMAIN f.calls /\ f.calls[f.next].local

CalleeOf(f) == Callee(f.dir, f.calls[f.next])

Calls(f, g) == Calling(f) /\ EndOf(g) = CalleeOf(f)

(* Where the next activation belongs, and that the stack is at a call.       *)
PlaceOf(fs) == IF fs = <<>> THEN End(Root, NoArgs) ELSE CalleeOf(fs[Len(fs)])

Waiting(fs) == fs # <<>> => Calling(fs[Len(fs)])

StackOk(c, fs) ==
    /\ IsList(fs)
    /\ \A i \in DOMAIN fs : FrameOk(c, fs[i])
    /\ \A i \in 1 .. Len(fs) - 1 : Calls(fs[i], fs[i + 1])
    /\ \A i, j \in DOMAIN fs : fs[i].dir = fs[j].dir => i = j
    /\ fs # <<>> => EndOf(fs[1]) = End(Root, NoArgs)

LEMMA EmptyStack == ASSUME NEW c PROVE StackOk(c, <<>>)
<1>1. IsList(<<>>) /\ DOMAIN <<>> = {} /\ 1 .. Len(<<>>) - 1 = {}
  BY DEF IsList
<1> QED BY <1>1 DEF StackOk

LEMMA FrameIs ==
    ASSUME NEW c \in Configs, NEW f, FrameOk(c, f)
    PROVE  /\ f.dir \in Dir /\ f.overrides \in Override
           /\ EndOf(f).dir = f.dir /\ EndOf(f).overrides = f.overrides
           /\ DOMAIN f.calls = 1 .. Len(f.calls) /\ Len(f.calls) \in Nat /\ f.next \in Nat
           /\ \A i \in DOMAIN f.calls : f.calls[i] \in CallsOf(c, EndOf(f))
           /\ Calling(f) => CalleeOf(f) \in Ends /\ CalleeOf(f) = Callee(EndOf(f).dir, f.calls[f.next])
           /\ Calling(f) => EdgeIn(c, f.dir, CalleeOf(f).dir)
<1>1. /\ EndOf(f) \in Ends /\ f.calls = CallList(c, EndOf(f)) /\ f.next \in 1 .. Len(f.calls) + 1 /\ LoadsIn(c, f.dir)
  BY DEF FrameOk
<1>2. EndOf(f).dir = f.dir /\ EndOf(f).overrides = f.overrides
  BY DEF EndOf, End
<1> DEFINE x == EndOf(f)
<1> HIDE DEF x
<1>3. /\ x.dir \in Dir /\ x.overrides \in Override
      /\ DOMAIN f.calls = 1 .. Len(f.calls) /\ Len(f.calls) \in Nat
      /\ \A i \in DOMAIN f.calls : f.calls[i] \in CallsOf(c, x)
  BY <1>1, OwnAre DEF x
<1>4. f.next \in Nat
  BY <1>1, <1>3
<1>5. ASSUME Calling(f) PROVE CalleeOf(f) \in Ends /\ EdgeIn(c, f.dir, CalleeOf(f).dir)
  <2> DEFINE call == f.calls[f.next]
  <2>1. call \in CallsOf(c, x) /\ call.local
    BY <1>3, <1>5 DEF Calling
  <2> HIDE DEF call
  <2>2. Callee(x.dir, call) \in Ends
    BY <1>1, <2>1, StepIn DEF x
  <2>3. CalleeOf(f) = Callee(x.dir, call)
    BY <1>2 DEF CalleeOf, call, x
  <2>4. CalleeOf(f).dir = Join(f.dir, call.source)
    BY DEF CalleeOf, Callee, End, call
  <2>5. x = End(f.dir, f.overrides)
    BY DEF x, EndOf
  <2> QED BY <1>1, <1>2, <1>3, <2>1, <2>2, <2>3, <2>4, <2>5 DEF EdgeIn, x
<1>6. CalleeOf(f) = Callee(EndOf(f).dir, f.calls[f.next])
  BY <1>2 DEF CalleeOf
<1> QED BY <1>2, <1>3, <1>4, <1>5, <1>6 DEF x

(* The innermost activation goes on with its next call.                      *)
LEMMA StackResumed ==
    ASSUME NEW c \in Configs, NEW fs, StackOk(c, fs), fs # <<>>, NEW t,
           fs[Len(fs)].next \in DOMAIN fs[Len(fs)].calls,
           Partial(c, EndOf(fs[Len(fs)]), fs[Len(fs)].next + 1, t)
    PROVE  LET gs == [fs EXCEPT ![Len(fs)].next = @ + 1, ![Len(fs)].template = t]
           IN  StackOk(c, gs) /\ gs # <<>>
<1> DEFINE n == Len(fs)
           f == fs[n]
           g == [f EXCEPT !.next = @ + 1, !.template = t]
           gs == [fs EXCEPT ![n].next = @ + 1, ![n].template = t]
<1>1. n \in Nat /\ DOMAIN fs = 1 .. n /\ fs = [i \in 1 .. n |-> fs[i]] /\ n # 0
  <2>1. IsList(fs)
    BY DEF StackOk
  <2>2. n = 0 => fs = <<>>
    BY <2>1 DEF IsList
  <2> QED BY <2>1, <2>2, ListIs DEF IsList
<1>2. n \in 1 .. n
  BY <1>1
<1>3. FrameOk(c, f)
  BY <1>1, <1>2 DEF StackOk
<1>4. f = [dir |-> f.dir, overrides |-> f.overrides, calls |-> f.calls, next |-> f.next, template |-> f.template]
  BY <1>3 DEF FrameOk
<1>5. /\ DOMAIN gs = 1 .. n /\ gs[n] = g /\ \A i \in 1 .. n : i # n => gs[i] = fs[i]
      /\ gs = [i \in 1 .. n |-> gs[i]]
  BY <1>1, <1>2
<1> HIDE DEF gs
<1>6. g = [dir |-> f.dir, overrides |-> f.overrides, calls |-> f.calls, next |-> f.next + 1, template |-> t]
  <2> DEFINE q == f.next + 1
  <2> HIDE DEF f
  <2>1. g = [f EXCEPT !.next = q, !.template = t]
    OBVIOUS
  <2> HIDE DEF q, g
  <2>2. g = [dir |-> f.dir, overrides |-> f.overrides, calls |-> f.calls, next |-> q, template |-> t]
    BY <1>4, <2>1
  <2> QED BY <2>2 DEF q
<1> HIDE DEF g
<1>7. FrameOk(c, g) /\ EndOf(g) = EndOf(f) /\ g.dir = f.dir
  <2>1. g.dir = f.dir /\ g.overrides = f.overrides /\ g.calls = f.calls /\ g.next = f.next + 1 /\ g.template = t
    BY <1>6
  <2>2. EndOf(g) = EndOf(f)
    BY <2>1 DEF EndOf
  <2>3. f.next + 1 \in 1 .. Len(f.calls) + 1
    BY <1>3, FrameIs
  <2>4. EndOf(f) \in Ends /\ LoadsIn(c, f.dir) /\ f.calls = CallList(c, EndOf(f))
    BY <1>3 DEF FrameOk
  <2> HIDE DEF f
  <2>5. Partial(c, EndOf(f), f.next + 1, t)
    BY DEF f
  <2> QED BY <1>6, <2>1, <2>2, <2>3, <2>4, <2>5 DEF FrameOk
<1> HIDE DEF f
<1>8. Len(gs) = n /\ IsList(gs)
  BY <1>1, <1>5, MadeList
<1>9. \A i \in 1 .. n : FrameOk(c, gs[i]) /\ EndOf(gs[i]) = EndOf(fs[i]) /\ gs[i].dir = fs[i].dir
  <2> TAKE i \in 1 .. n
  <2>1. CASE i = n
    BY <1>5, <1>7, <2>1 DEF f
  <2>2. CASE i # n
    BY <1>1, <1>5, <2>2 DEF StackOk
  <2> QED BY <2>1, <2>2
<1>10. ASSUME NEW i \in 1 .. n - 1 PROVE Calls(gs[i], gs[i + 1])
  <2>1. i \in 1 .. n /\ i # n /\ i + 1 \in 1 .. n
    BY <1>1
  <2>2. Calls(fs[i], fs[i + 1])
    BY DEF StackOk
  <2>3. gs[i] = fs[i] /\ EndOf(gs[i + 1]) = EndOf(fs[i + 1])
    BY <1>5, <1>9, <2>1
  <2> QED BY <2>2, <2>3 DEF Calls
<1>11. \A i, j \in 1 .. n : gs[i].dir = gs[j].dir => i = j
  BY <1>1, <1>9 DEF StackOk
<1>12. gs # <<>>
  BY <1>2, <1>5
<1>13. EndOf(gs[1]) = End(Root, NoArgs)
  <2>1. 1 \in 1 .. n
    BY <1>1
  <2>2. fs # <<>> => EndOf(fs[1]) = End(Root, NoArgs)
    BY DEF StackOk
  <2> QED BY <1>9, <2>1, <2>2
<1> HIDE DEF n
<1>14. StackOk(c, gs)
  BY <1>5, <1>8, <1>9, <1>10, <1>11, <1>13 DEF StackOk
<1> QED BY <1>12, <1>14 DEF gs, n

(* The callee is expanded, if it is not on the stack.                        *)
LEMMA StackPushed ==
    ASSUME NEW c, NEW fs, StackOk(c, fs), NEW f, FrameOk(c, f),
           Waiting(fs), EndOf(f) = PlaceOf(fs), \A i \in DOMAIN fs : fs[i].dir # f.dir
    PROVE  StackOk(c, Append(fs, f)) /\ Append(fs, f) # <<>>
<1> DEFINE n == Len(fs)
           gs == Append(fs, f)
<1>1. IsList(fs) /\ n \in Nat /\ DOMAIN fs = 1 .. n
  BY DEF StackOk, IsList
<1>2. /\ IsList(gs) /\ Len(gs) = n + 1 /\ gs[n + 1] = f /\ \A i \in 1 .. n : gs[i] = fs[i]
  BY <1>1, LongerList
<1>3. DOMAIN gs = 1 .. n + 1 /\ \A i \in 1 .. n + 1 : i \in 1 .. n \/ i = n + 1
  BY <1>1, <1>2 DEF IsList
<1> HIDE DEF gs
<1>4. n # 0 => fs # <<>>
  OBVIOUS
<1>9. n # 0 => Calls(fs[n], f)
  <2>1. fs # <<>> => Calling(fs[Len(fs)]) /\ PlaceOf(fs) = CalleeOf(fs[Len(fs)])
    BY DEF Waiting, PlaceOf
  <2> QED BY <1>4, <2>1 DEF Calls
<1>10. EndOf(gs[1]) = End(Root, NoArgs)
  <2>1. CASE n = 0
    <3>1. fs = <<>>
      BY <1>1, <2>1 DEF IsList
    <3>2. gs[1] = f
      BY <1>2, <2>1
    <3> QED BY <3>1, <3>2 DEF PlaceOf
  <2>2. CASE n # 0
    <3>1. gs[1] = fs[1]
      BY <1>1, <1>2, <2>2
    <3> QED BY <1>4, <2>2, <3>1 DEF StackOk
  <2> QED BY <2>1, <2>2
<1> HIDE DEF n
<1>5. \A i \in DOMAIN gs : FrameOk(c, gs[i])
  BY <1>1, <1>2, <1>3 DEF StackOk
<1>6. ASSUME NEW i \in 1 .. Len(gs) - 1 PROVE Calls(gs[i], gs[i + 1])
  <2>1. i \in 1 .. n /\ (i = n \/ (i \in 1 .. n - 1 /\ i + 1 \in 1 .. n))
    BY <1>1, <1>2
  <2>2. CASE i = n
    <3>1. n # 0 /\ gs[i] = fs[n] /\ gs[i + 1] = f
      BY <1>1, <1>2, <2>1, <2>2
    <3> QED BY <1>9, <3>1
  <2>3. CASE i \in 1 .. n - 1 /\ i + 1 \in 1 .. n
    BY <1>2, <2>1, <2>3 DEF StackOk, n
  <2> QED BY <2>1, <2>2, <2>3
<1>7. \A i, j \in DOMAIN gs : gs[i].dir = gs[j].dir => i = j
  BY <1>1, <1>2, <1>3 DEF StackOk
<1>8. gs # <<>>
  <2>1. n + 1 \in DOMAIN gs
    BY <1>1, <1>3
  <2> QED BY <2>1
<1> QED BY <1>2, <1>5, <1>6, <1>7, <1>8, <1>10 DEF StackOk, gs

(* A return: what is below the innermost activation waits for it.            *)
LEMMA StackPopped ==
    ASSUME NEW c, NEW fs, StackOk(c, fs), fs # <<>>
    PROVE  LET gs == SubSeq(fs, 1, Len(fs) - 1)
           IN  /\ StackOk(c, gs) /\ Len(gs) = Len(fs) - 1 /\ Len(fs) \in Nat \ {0}
               /\ Waiting(gs) /\ EndOf(fs[Len(fs)]) = PlaceOf(gs)
<1> DEFINE n == Len(fs)
           m == n - 1
           gs == SubSeq(fs, 1, n - 1)
<1>1. n \in Nat /\ DOMAIN fs = 1 .. n /\ n # 0 /\ m \in Nat
  <2>1. IsList(fs)
    BY DEF StackOk
  <2>2. n = 0 => fs = <<>>
    BY <2>1 DEF IsList
  <2> QED BY <2>1, <2>2 DEF IsList
<1>2. gs = [i \in 1 .. m |-> fs[i]]
  <2> DEFINE T == ToSet(fs)
  <2>1. fs \in Seq(T)
    BY DEF StackOk, IsList
  <2> HIDE DEF T
  <2> QED BY <1>1, <2>1
<1>3. DOMAIN gs = 1 .. m /\ \A i \in 1 .. m : gs[i] = fs[i]
  BY <1>2
<1>4. gs = [i \in 1 .. m |-> gs[i]]
  BY <1>2, <1>3
<1> HIDE DEF gs
<1>5. IsList(gs) /\ Len(gs) = m
  BY <1>1, <1>4, MadeList
<1>6. \A i \in 1 .. m : i \in 1 .. n
  BY <1>1
<1>7. StackOk(c, gs)
  <2>1. \A i \in 1 .. Len(gs) - 1 : i \in 1 .. n - 1 /\ i \in 1 .. m /\ i + 1 \in 1 .. m
    BY <1>1, <1>5
  <2>2. \A i \in 1 .. Len(gs) - 1 : Calls(gs[i], gs[i + 1])
    BY <1>3, <2>1 DEF StackOk
  <2> HIDE DEF m, n
  <2>3. \A i \in DOMAIN gs : FrameOk(c, gs[i])
    BY <1>1, <1>3, <1>6 DEF StackOk
  <2>4. \A i, j \in DOMAIN gs : gs[i].dir = gs[j].dir => i = j
    BY <1>1, <1>3, <1>6 DEF StackOk
  <2>5. gs # <<>> => EndOf(gs[1]) = End(Root, NoArgs)
    <3> SUFFICES ASSUME gs # <<>> PROVE EndOf(gs[1]) = End(Root, NoArgs)
      OBVIOUS
    <3>1. m # 0
      BY <1>3 DEF m
    <3>2. 1 \in 1 .. m
      BY <1>1, <3>1
    <3>3. fs # <<>> => EndOf(fs[1]) = End(Root, NoArgs)
      BY DEF StackOk
    <3> QED BY <1>3, <3>2, <3>3
  <2> QED BY <1>5, <2>2, <2>3, <2>4, <2>5 DEF StackOk
<1>8. gs # <<>> => Calls(gs[Len(gs)], fs[n])
  <2> SUFFICES ASSUME gs # <<>> PROVE Calls(gs[m], fs[n])
    BY <1>5
  <2>1. m # 0
    BY <1>3
  <2>2. m \in 1 .. n - 1 /\ m \in 1 .. m /\ m + 1 = n
    BY <1>1, <2>1
  <2>3. Calls(fs[m], fs[m + 1])
    BY <2>2 DEF StackOk
  <2> QED BY <1>3, <2>2, <2>3
<1>9. gs = <<>> => n = 1
  <2>1. Len(<<>>) = 0
    OBVIOUS
  <2>2. gs = <<>> => m = 0
    BY <1>5, <2>1
  <2> QED BY <1>1, <2>2
<1>10. Waiting(gs) /\ EndOf(fs[n]) = PlaceOf(gs)
  <2>1. CASE gs = <<>>
    <3>1. n = 1 /\ EndOf(fs[1]) = End(Root, NoArgs)
      BY <1>9, <2>1 DEF StackOk
    <3> QED BY <2>1, <3>1 DEF Waiting, PlaceOf
  <2>2. CASE gs # <<>>
    BY <1>8, <2>2 DEF Waiting, PlaceOf, Calls
  <2> QED BY <2>1, <2>2
<1> QED BY <1>1, <1>5, <1>7, <1>10 DEF gs, n, m

-----------------------------------------------------------------------------
(* What buildModuleTemplate may return for x: a whole template, or why there *)
(* is none.                                                                  *)
Answers(c, x, r) ==
    \/ r.kind = "template" /\ LoadsIn(c, x.dir) /\ Whole(c, x, r.template)
    \/ r.kind \in {"walk", "parse"} /\ ~LoadsIn(c, x.dir)

CacheOk(c, m) ==
    \A k \in DOMAIN m : \E x \in Ends :
        LoadsIn(c, x.dir) /\ k = buildCacheKey(x.dir, x.overrides) /\ Whole(c, x, m[k])

Recursed(c, fs, r) == fs # <<>> /\ r.kind = "cycle" /\ RealCycle(c, r.cycle)

(***************************************************************************)
(* The inductive invariant: the stack is in order, what is pending is the  *)
(* call of the innermost activation, what is returned answers it, and each *)
(* template cached is whole for the directory and arguments of its key.    *)
(***************************************************************************)
LoaderInv ==
    /\ config \in Configs /\ StackOk(config, frames) /\ CacheOk(config, cache)
    /\ pc \in {"enter", "loop", "return", "done"}
    /\ pending = IF pc = "enter" THEN PlaceOf(frames) ELSE Nothing
    /\ pc = "loop" => frames # <<>>
    /\ pc \in {"enter", "return"} => Waiting(frames)
    /\ pc = "return" => Answers(config, PlaceOf(frames), ret) \/ Recursed(config, frames, ret)
    /\ pc = "done" => frames = <<>> /\ Answers(config, End(Root, NoArgs), result)

LEMMA TopIs ==
    ASSUME NEW c \in Configs, NEW fs, StackOk(c, fs), fs # <<>>
    PROVE  LET f == fs[Len(fs)]
           IN  /\ Len(fs) \in DOMAIN fs /\ FrameOk(c, f)
               /\ EndOf(f) \in Ends /\ EndOf(f).dir = f.dir /\ EndOf(f).overrides = f.overrides
               /\ f.calls = CallList(c, EndOf(f)) /\ f.next \in 1 .. Len(f.calls) + 1
               /\ DOMAIN f.calls = 1 .. Len(f.calls) /\ Len(f.calls) \in Nat
               /\ Partial(c, EndOf(f), f.next, f.template) /\ LoadsIn(c, f.dir)
               /\ Calling(f) => /\ f.next \in DOMAIN CallList(c, EndOf(f)) /\ CallList(c, EndOf(f))[f.next].local
                                /\ PlaceOf(fs) = Callee(EndOf(f).dir, CallList(c, EndOf(f))[f.next])
<1> DEFINE f == fs[Len(fs)]
<1>1. IsList(fs)
  BY DEF StackOk
<1>2. Len(fs) = 0 => fs = <<>>
  BY <1>1 DEF IsList
<1>3. Len(fs) \in DOMAIN fs
  BY <1>1, <1>2 DEF IsList
<1>4. FrameOk(c, f)
  BY <1>3 DEF StackOk
<1>5. PlaceOf(fs) = CalleeOf(f)
  BY DEF PlaceOf
<1> HIDE DEF f
<1>6. EndOf(f).dir = f.dir /\ EndOf(f).overrides = f.overrides
  BY DEF EndOf, End
<1>7. /\ EndOf(f) \in Ends /\ f.calls = CallList(c, EndOf(f)) /\ f.next \in 1 .. Len(f.calls) + 1
      /\ Partial(c, EndOf(f), f.next, f.template) /\ LoadsIn(c, f.dir)
  BY <1>4 DEF FrameOk
<1>8. DOMAIN f.calls = 1 .. Len(f.calls) /\ Len(f.calls) \in Nat
  BY <1>7, OwnAre
<1>9. Calling(f) => /\ f.next \in DOMAIN CallList(c, EndOf(f)) /\ CallList(c, EndOf(f))[f.next].local
                    /\ PlaceOf(fs) = Callee(EndOf(f).dir, CallList(c, EndOf(f))[f.next])
  BY <1>5, <1>6, <1>7 DEF Calling, CalleeOf
<1> QED BY <1>3, <1>4, <1>6, <1>7, <1>8, <1>9 DEF f

(* Where the next activation belongs is a directory with arguments.          *)
LEMMA PlaceIs ==
    ASSUME NEW c \in Configs, NEW fs, StackOk(c, fs), Waiting(fs)
    PROVE  PlaceOf(fs) \in Ends /\ PlaceOf(fs) # Nothing
<1>1. CASE fs = <<>>
  <2>1. PlaceOf(fs) = [dir |-> Root, overrides |-> NoArgs]
    BY <1>1 DEF PlaceOf, End
  <2> QED BY <2>1, ConfigsAssumption, NothingAssumption DEF Ends
<1>2. CASE fs # <<>>
  <2> DEFINE f == fs[Len(fs)]
  <2>1. FrameOk(c, f) /\ Calling(f) /\ PlaceOf(fs) = CalleeOf(f)
    BY <1>2, TopIs DEF Waiting, PlaceOf
  <2> HIDE DEF f
  <2>2. CalleeOf(f) \in Ends
    BY <2>1, FrameIs
  <2> QED BY <2>1, <2>2, NothingAssumption DEF Ends
<1> QED BY <1>1, <1>2

-----------------------------------------------------------------------------
LEMMA LoaderStarts == Init => LoaderInv
<1> SUFFICES ASSUME Init PROVE LoaderInv
  OBVIOUS
<1>1. /\ config \in Configs /\ pc = "enter" /\ pending = [dir |-> Root, overrides |-> NoArgs]
      /\ frames = <<>> /\ cache = <<>>
  BY DEF Init
<1>2. StackOk(config, frames)
  BY <1>1, EmptyStack
<1>3. CacheOk(config, cache)
  BY <1>1 DEF CacheOk
<1>4. pending = PlaceOf(frames) /\ Waiting(frames)
  BY <1>1 DEF PlaceOf, Waiting, End
<1> QED BY <1>1, <1>2, <1>3, <1>4 DEF LoaderInv

(* A key found is that of the call, and of no other directory or arguments.  *)
LEMMA HitAnswers == LoaderInv /\ CacheHit => LoaderInv'
<1> SUFFICES ASSUME LoaderInv, CacheHit PROVE LoaderInv'
  OBVIOUS
<1> DEFINE x == PlaceOf(frames)
           t == cache[Key]
<1>1. /\ pc = "enter" /\ Key \in DOMAIN cache /\ pc' = "return" /\ pending' = Nothing
      /\ ret' = [kind |-> "template", template |-> t]
      /\ config' = config /\ frames' = frames /\ cache' = cache
  BY DEF CacheHit, Return
<1>2. config \in Configs /\ StackOk(config, frames) /\ CacheOk(config, cache) /\ pending = x /\ Waiting(frames)
  BY <1>1 DEF LoaderInv
<1>3. x \in Ends
  BY <1>2, PlaceIs
<1>4. Key = buildCacheKey(x.dir, x.overrides)
  BY <1>2 DEF Key
<1>5. PICK y \in Ends : LoadsIn(config, y.dir) /\ Key = buildCacheKey(y.dir, y.overrides) /\ Whole(config, y, t)
  BY <1>1, <1>2 DEF CacheOk
<1>6. x.dir \in Dir /\ y.dir \in Dir /\ x.overrides \in Override /\ y.overrides \in Override
      /\ x = End(x.dir, x.overrides) /\ y = End(y.dir, y.overrides)
  BY <1>2, <1>3, OwnAre
<1>7. x = y
  <2>1. x.dir = y.dir /\ x.overrides = y.overrides
    BY <1>4, <1>5, <1>6, KeysTell
  <2> QED BY <1>6, <2>1
<1> HIDE DEF x, t
<1>8. Answers(config, x, ret')
  BY <1>1, <1>5, <1>7 DEF Answers
<1>9. PlaceOf(frames') = x
  BY <1>1 DEF x
<1> QED BY <1>1, <1>2, <1>8, <1>9 DEF LoaderInv

(* The root is expanded with an empty stack, and is no recursion.            *)
LEMMA CycleAnswers == LoaderInv /\ CycleFound => LoaderInv'
<1> SUFFICES ASSUME LoaderInv, CycleFound PROVE LoaderInv'
  OBVIOUS
<1> DEFINE n == Len(frames)
<1>1. /\ pc = "enter" /\ pc' = "return" /\ pending' = Nothing
      /\ config' = config /\ frames' = frames /\ cache' = cache
  BY DEF CycleFound, Return
<1>2. config \in Configs /\ StackOk(config, frames) /\ CacheOk(config, cache) /\ pending = PlaceOf(frames) /\ Waiting(frames)
  BY <1>1 DEF LoaderInv
<1>3. PICK i \in DOMAIN frames : frames[i].dir = pending.dir /\ ret' = [kind |-> "cycle", cycle |-> CycleFrom(i)]
  BY DEF CycleFound, Return
<1>4. n \in Nat /\ DOMAIN frames = 1 .. n /\ i \in 1 .. n
  BY <1>2, <1>3 DEF StackOk, IsList
<1>5. frames # <<>>
  BY <1>3
<1>6. pending = CalleeOf(frames[n]) /\ Calling(frames[n])
  BY <1>2, <1>5 DEF PlaceOf, Waiting
<1> DEFINE m == n - i + 1
           head == [j \in 1 .. m |-> frames[i + j - 1].dir]
           cycle == head \o <<pending.dir>>
<1>7. m \in Nat /\ m >= 1 /\ \A j \in 1 .. m : i + j - 1 \in 1 .. n
  BY <1>4
<1>8. \A k \in 1 .. n : FrameOk(config, frames[k]) /\ frames[k].dir \in Dir
  <2> TAKE k \in 1 .. n
  <2>1. FrameOk(config, frames[k])
    BY <1>2, <1>4 DEF StackOk
  <2> QED BY <1>2, <2>1, FrameIs
<1>9. pending.dir \in Dir
  BY <1>3, <1>4, <1>8
<1>10. head \in Seq(Dir) /\ Len(head) = m /\ \A j \in 1 .. m : head[j] = frames[i + j - 1].dir
  <2>1. \A j \in 1 .. m : frames[i + j - 1].dir \in Dir
    BY <1>7, <1>8
  <2> HIDE DEF m
  <2> QED BY <1>7, <2>1
<1> HIDE DEF head
<1>11. /\ cycle \in Seq(Dir) /\ Len(cycle) = m + 1
       /\ \A j \in 1 .. m : cycle[j] = frames[i + j - 1].dir
       /\ cycle[m + 1] = pending.dir
  <2> HIDE DEF m
  <2> QED BY <1>7, <1>9, <1>10
<1>12. cycle = CycleFrom(i)
  BY DEF CycleFrom, head
<1> HIDE DEF cycle
<1>13. cycle[1] = cycle[m + 1]
  <2>1. 1 \in 1 .. m /\ i + 1 - 1 = i
    BY <1>4, <1>7
  <2> HIDE DEF m
  <2> QED BY <1>3, <1>11, <2>1
<1>14. ASSUME NEW j \in 1 .. m PROVE EdgeIn(config, cycle[j], cycle[j + 1])
  <2> DEFINE k == i + j - 1
  <2>1. k \in 1 .. n /\ cycle[j] = frames[k].dir /\ FrameOk(config, frames[k])
    BY <1>7, <1>8, <1>11
  <2>2. CASE j = m
    <3>1. k = n
      BY <1>4, <2>2
    <3>2. cycle[j + 1] = CalleeOf(frames[k]).dir /\ Calling(frames[k])
      BY <1>6, <1>11, <2>2, <3>1
    <3> HIDE DEF k, m
    <3> QED BY <1>2, <2>1, <3>2, FrameIs
  <2>3. CASE j # m
    <3>1. k \in 1 .. n - 1 /\ j + 1 \in 1 .. m /\ i + (j + 1) - 1 = k + 1
      BY <1>4, <2>3
    <3>2. Calls(frames[k], frames[k + 1])
      BY <1>2, <3>1 DEF StackOk
    <3>3. cycle[j + 1] = frames[k + 1].dir
      BY <1>11, <3>1
    <3> HIDE DEF k, m
    <3>4. EndOf(frames[k + 1]).dir = frames[k + 1].dir
      BY DEF EndOf, End
    <3>5. Calling(frames[k]) /\ CalleeOf(frames[k]).dir = frames[k + 1].dir
      BY <3>2, <3>4 DEF Calls
    <3> QED BY <1>2, <2>1, <3>3, <3>5, FrameIs
  <2> QED BY <2>2, <2>3
<1>15. \A j, k \in 1 .. m : cycle[j] = cycle[k] => j = k
  <2> TAKE j, k \in 1 .. m
  <2> SUFFICES ASSUME cycle[j] = cycle[k] PROVE j = k
    OBVIOUS
  <2> DEFINE a == i + j - 1
             b == i + k - 1
  <2>1. a \in DOMAIN frames /\ b \in DOMAIN frames /\ frames[a].dir = frames[b].dir
    BY <1>4, <1>7, <1>11
  <2>2. a = b
    <3> HIDE DEF a, b
    <3> QED BY <1>2, <2>1 DEF StackOk
  <2> QED BY <1>4, <2>2
<1>16. RealCycle(config, cycle)
  <2>1. Len(cycle) >= 2 /\ 1 .. Len(cycle) - 1 = 1 .. m
    BY <1>7, <1>11
  <2> HIDE DEF m
  <2> QED BY <1>11, <1>13, <1>14, <1>15, <2>1 DEF RealCycle
<1>17. Recursed(config, frames, ret')
  BY <1>3, <1>5, <1>12, <1>16 DEF Recursed
<1> QED BY <1>1, <1>2, <1>17 DEF LoaderInv

LEMMA FailureAnswers == LoaderInv /\ LoadFails => LoaderInv'
<1> SUFFICES ASSUME LoaderInv, LoadFails PROVE LoaderInv'
  OBVIOUS
<1>1. /\ pc = "enter" /\ pc' = "return" /\ pending' = Nothing
      /\ LoadError(config[pending.dir]) # "none"
      /\ ret' = [kind |-> LoadError(config[pending.dir])]
      /\ config' = config /\ frames' = frames /\ cache' = cache
  BY DEF LoadFails, Return
<1>2. config \in Configs /\ StackOk(config, frames) /\ CacheOk(config, cache) /\ pending = PlaceOf(frames) /\ Waiting(frames)
  BY <1>1 DEF LoaderInv
<1>3. LoadError(config[pending.dir]) \in {"walk", "parse", "none"}
  BY DEF LoadError
<1>4. Answers(config, PlaceOf(frames), ret')
  BY <1>1, <1>2, <1>3 DEF Answers, LoadsIn
<1> QED BY <1>1, <1>2, <1>4 DEF LoaderInv

(* A directory is pushed only if it is not on the stack.                     *)
LEMMA ExpandFits == LoaderInv /\ Expand => LoaderInv'
<1> SUFFICES ASSUME LoaderInv, Expand PROVE LoaderInv'
  OBVIOUS
<1> DEFINE x == PlaceOf(frames)
           own == parsed[config[x.dir]][x.overrides]
           f == [dir |-> x.dir, overrides |-> x.overrides, calls |-> own.modules, next |-> 1,
                 template |-> [own EXCEPT !.modules = Sites(@)]]
<1>1. /\ pc = "enter" /\ pc' = "loop" /\ pending' = Nothing /\ config' = config /\ cache' = cache
      /\ pending.dir \notin StackDirs /\ LoadError(config[pending.dir]) = "none"
  BY DEF Expand
<1>2. config \in Configs /\ StackOk(config, frames) /\ CacheOk(config, cache) /\ pending = x /\ Waiting(frames)
  BY <1>1 DEF LoaderInv
<1>3. frames' = Append(frames, f)
  BY <1>2 DEF Expand, Parsed
<1>4. x \in Ends
  BY <1>2, PlaceIs
<1>5. LoadsIn(config, x.dir)
  BY <1>1, <1>2 DEF LoadsIn
<1>6. Partial(config, x, 1, f.template)
  BY <1>2, <1>4, PartialStart
<1>7. x = End(x.dir, x.overrides) /\ Len(CallList(config, x)) \in Nat
  BY <1>2, <1>4, OwnAre
<1>8. own.modules = CallList(config, x)
  BY DEF CallList
<1>9. /\ f.dir = x.dir /\ f.overrides = x.overrides /\ f.calls = CallList(config, x) /\ f.next = 1
      /\ f = [dir |-> f.dir, overrides |-> f.overrides, calls |-> f.calls, next |-> f.next, template |-> f.template]
  BY <1>8
<1> HIDE DEF f, x, own
<1>10. EndOf(f) = x
  BY <1>7, <1>9 DEF EndOf
<1>11. FrameOk(config, f)
  <2>1. f.next \in 1 .. Len(f.calls) + 1
    BY <1>7, <1>9
  <2> QED BY <1>4, <1>5, <1>6, <1>9, <1>10, <2>1 DEF FrameOk
<1>12. \A i \in DOMAIN frames : frames[i].dir # f.dir
  BY <1>1, <1>2, <1>9 DEF StackDirs
<1>13. StackOk(config, frames') /\ frames' # <<>>
  BY <1>2, <1>3, <1>10, <1>11, <1>12, StackPushed DEF x
<1> QED BY <1>1, <1>2, <1>13 DEF LoaderInv

(* The innermost activation is at the call that returned.                    *)
LEMMA ResumeFits ==
    ASSUME LoaderInv, frames # <<>>, Top.next \in DOMAIN Top.calls,
           NEW t, Partial(config, EndOf(Top), Top.next + 1, t), Resume(t),
           pc' = "loop", pending' = Nothing, config' = config, cache' = cache
    PROVE  LoaderInv'
<1>1. config \in Configs /\ StackOk(config, frames) /\ CacheOk(config, cache)
  BY DEF LoaderInv
<1>2. StackOk(config, frames') /\ frames' # <<>>
  BY <1>1, StackResumed DEF Resume, Top
<1> QED BY <1>1, <1>2 DEF LoaderInv

LEMMA SkipFits == LoaderInv /\ SkipNonLocal => LoaderInv'
<1> SUFFICES ASSUME LoaderInv, SkipNonLocal PROVE LoaderInv'
  OBVIOUS
<1>1. /\ pc = "loop" /\ pc' = pc /\ pending' = pending /\ config' = config /\ cache' = cache
      /\ Top.next <= Len(Top.calls) /\ ~Top.calls[Top.next].local /\ Resume(Top.template)
  BY DEF SkipNonLocal, AtCall, CurrentCall
<1>2. config \in Configs /\ StackOk(config, frames) /\ frames # <<>> /\ pending = Nothing
  BY <1>1 DEF LoaderInv
<1> DEFINE f == Top
<1>3. /\ EndOf(f) \in Ends /\ f.calls = CallList(config, EndOf(f)) /\ f.next \in 1 .. Len(f.calls) + 1
      /\ DOMAIN f.calls = 1 .. Len(f.calls) /\ Len(f.calls) \in Nat
      /\ Partial(config, EndOf(f), f.next, f.template)
  BY <1>2, TopIs DEF Top
<1>4. f.next \in DOMAIN f.calls
  BY <1>1, <1>3
<1>5. Partial(config, EndOf(f), f.next + 1, f.template)
  <2> HIDE DEF f
  <2>1. f.next \in DOMAIN CallList(config, EndOf(f)) /\ ~CallList(config, EndOf(f))[f.next].local
    BY <1>1, <1>3, <1>4 DEF f
  <2> QED BY <1>2, <1>3, <2>1, PartialPassed
<1> QED BY <1>1, <1>2, <1>4, <1>5, ResumeFits

LEMMA EnterFits == LoaderInv /\ EnterCall => LoaderInv'
<1> SUFFICES ASSUME LoaderInv, EnterCall PROVE LoaderInv'
  OBVIOUS
<1>1. /\ pc = "loop" /\ pc' = "enter" /\ config' = config /\ cache' = cache /\ frames' = frames
      /\ Top.next <= Len(Top.calls) /\ Top.calls[Top.next].local
      /\ pending' = Callee(Top.dir, Top.calls[Top.next])
  BY DEF EnterCall, AtCall, CurrentCall, Callee, End
<1>2. config \in Configs /\ StackOk(config, frames) /\ CacheOk(config, cache) /\ frames # <<>>
  BY <1>1 DEF LoaderInv
<1>3. Top.next \in 1 .. Len(Top.calls) + 1 /\ DOMAIN Top.calls = 1 .. Len(Top.calls) /\ Len(Top.calls) \in Nat
  BY <1>2, TopIs DEF Top
<1>4. Calling(Top)
  BY <1>1, <1>3 DEF Calling
<1>5. Waiting(frames) /\ pending' = PlaceOf(frames)
  BY <1>1, <1>2, <1>4 DEF Waiting, PlaceOf, CalleeOf, Top
<1>6. Waiting(frames') /\ pending' = PlaceOf(frames')
  BY <1>1, <1>5
<1> QED BY <1>1, <1>2, <1>6 DEF LoaderInv

(* What the innermost activation knows when its call has returned.           *)
LEMMA ReturnedIs ==
    ASSUME LoaderInv, Returned
    PROVE  LET x == EndOf(Top)
               k == Top.next
           IN  /\ config \in Configs /\ frames # <<>> /\ x \in Ends
               /\ k \in DOMAIN Top.calls /\ k \in DOMAIN CallList(config, x) /\ k \in Nat
               /\ CurrentCall = CallList(config, x)[k] /\ CallList(config, x)[k].local
               /\ Partial(config, x, k, Top.template)
               /\ PlaceOf(frames) = Callee(x.dir, CallList(config, x)[k])
               /\ PlaceOf(frames).dir = Join(x.dir, CallList(config, x)[k].source)
               /\ Answers(config, PlaceOf(frames), ret) \/ Recursed(config, frames, ret)
<1>1. /\ config \in Configs /\ StackOk(config, frames) /\ frames # <<>> /\ Waiting(frames)
      /\ Answers(config, PlaceOf(frames), ret) \/ Recursed(config, frames, ret)
  BY DEF LoaderInv, Returned
<1>2. Calling(Top)
  BY <1>1 DEF Waiting, Top
<1> DEFINE f == Top
<1>3. /\ EndOf(f) \in Ends /\ f.calls = CallList(config, EndOf(f)) /\ f.next \in 1 .. Len(f.calls) + 1
      /\ DOMAIN f.calls = 1 .. Len(f.calls) /\ Len(f.calls) \in Nat
      /\ Partial(config, EndOf(f), f.next, f.template)
      /\ f.next \in DOMAIN CallList(config, EndOf(f)) /\ CallList(config, EndOf(f))[f.next].local
      /\ PlaceOf(frames) = Callee(EndOf(f).dir, CallList(config, EndOf(f))[f.next])
  BY <1>1, <1>2, TopIs DEF Top
<1>4. CurrentCall = f.calls[f.next]
  BY DEF CurrentCall
<1> HIDE DEF f
<1>5. PlaceOf(frames).dir = Join(EndOf(f).dir, CallList(config, EndOf(f))[f.next].source)
  BY <1>3 DEF Callee, End
<1>6. f.next \in Nat
  BY <1>3
<1>7. f.next \in DOMAIN f.calls /\ CurrentCall = CallList(config, EndOf(f))[f.next]
  BY <1>3, <1>4
<1> QED BY <1>1, <1>3, <1>5, <1>6, <1>7 DEF f

LEMMA WarnCycleFits == LoaderInv /\ WarnCycle => LoaderInv'
<1> SUFFICES ASSUME LoaderInv, WarnCycle PROVE LoaderInv'
  OBVIOUS
<1> DEFINE x == EndOf(Top)
           k == Top.next
           g == Diag("cycle", CurrentCall.pos, ret.cycle)
           t == Top.template
<1>1. /\ Returned /\ ret.kind = "cycle" /\ Resume(Warned(g))
      /\ pc' = "loop" /\ pending' = pending /\ config' = config /\ cache' = cache
  BY DEF WarnCycle
<1>2. /\ config \in Configs /\ frames # <<>> /\ x \in Ends
      /\ k \in DOMAIN Top.calls /\ k \in DOMAIN CallList(config, x)
      /\ CurrentCall = CallList(config, x)[k]
      /\ Partial(config, x, k, t)
      /\ Answers(config, PlaceOf(frames), ret) \/ Recursed(config, frames, ret)
  BY <1>1, ReturnedIs
<1>3. RealCycle(config, ret.cycle)
  BY <1>1, <1>2 DEF Answers, Recursed
<1>4. Warned(g) = [t EXCEPT !.diags = Append(@, g)]
  BY DEF Warned
<1>5. pending = Nothing
  BY <1>1 DEF LoaderInv, Returned
<1> HIDE DEF x, k, t
<1>6. CurrentCall.pos \in Nat
  <2>1. CallList(config, x)[k] \in CallsOf(config, x)
    BY <1>2, OwnAre
  <2> QED BY <1>2, <2>1, StepIn
<1>7. ret.cycle \in Seq(Dir)
  BY <1>3 DEF RealCycle
<1>8. g.kind = "cycle" /\ g.pos = CallList(config, x)[k].pos /\ g.cycle = ret.cycle /\ g \in Warning
  BY <1>2, <1>6, <1>7 DEF Diag, Warning
<1> HIDE DEF g
<1>9. Partial(config, x, k + 1, [t EXCEPT !.diags = Append(@, g)])
  BY <1>2, <1>3, <1>8, PartialWarned
<1> QED BY <1>1, <1>2, <1>4, <1>5, <1>9, ResumeFits DEF x, k

LEMMA WarnLoadFits == LoaderInv /\ WarnLoad => LoaderInv'
<1> SUFFICES ASSUME LoaderInv, WarnLoad PROVE LoaderInv'
  OBVIOUS
<1> DEFINE x == EndOf(Top)
           k == Top.next
           g == Diag("load", CurrentCall.pos, <<>>)
           t == Top.template
<1>1. /\ Returned /\ ret.kind \in {"walk", "parse"} /\ Resume(Warned(g))
      /\ pc' = "loop" /\ pending' = pending /\ config' = config /\ cache' = cache
  BY DEF WarnLoad
<1>2. /\ config \in Configs /\ frames # <<>> /\ x \in Ends
      /\ k \in DOMAIN Top.calls /\ k \in DOMAIN CallList(config, x)
      /\ CurrentCall = CallList(config, x)[k]
      /\ Partial(config, x, k, t)
      /\ PlaceOf(frames).dir = Join(x.dir, CallList(config, x)[k].source)
      /\ Answers(config, PlaceOf(frames), ret) \/ Recursed(config, frames, ret)
  BY <1>1, ReturnedIs
<1>3. ~LoadsIn(config, PlaceOf(frames).dir)
  BY <1>1, <1>2 DEF Answers, Recursed
<1>4. Warned(g) = [t EXCEPT !.diags = Append(@, g)]
  BY DEF Warned
<1>5. pending = Nothing
  BY <1>1 DEF LoaderInv, Returned
<1> HIDE DEF x, k, t
<1>6. CurrentCall.pos \in Nat
  <2>1. CallList(config, x)[k] \in CallsOf(config, x)
    BY <1>2, OwnAre
  <2> QED BY <1>2, <2>1, StepIn
<1>7. g.kind = "load" /\ g.pos = CallList(config, x)[k].pos /\ g \in Warning
  <2>1. \A p \in Nat : Diag("load", p, <<>>) \in Warning
    <3> DEFINE none == <<>>
    <3>1. none \in Seq(Dir)
      OBVIOUS
    <3> HIDE DEF none
    <3>2. \A p \in Nat : Diag("load", p, none) \in Warning
      BY <3>1 DEF Diag, Warning
    <3> QED BY <3>2 DEF none
  <2> QED BY <1>2, <1>6, <2>1 DEF Diag
<1> HIDE DEF g
<1>8. ~LoadsIn(config, Join(x.dir, CallList(config, x)[k].source))
  BY <1>2, <1>3
<1>9. Partial(config, x, k + 1, [t EXCEPT !.diags = Append(@, g)])
  BY <1>2, <1>7, <1>8, PartialWarned
<1> QED BY <1>1, <1>2, <1>4, <1>5, <1>9, ResumeFits DEF x, k

LEMMA InstantiateFits == LoaderInv /\ Instantiate => LoaderInv'
<1> SUFFICES ASSUME LoaderInv, Instantiate PROVE LoaderInv'
  OBVIOUS
<1> DEFINE x == EndOf(Top)
           k == Top.next
           t == Top.template
           child == ret.template
           call == CallList(config, x)[k]
           joined == [resources |-> t.resources \o Prefixed(child.resources, call.name),
                      modules |-> AddSites(t.modules, Prefixed(child.modules, call.name)),
                      diags |-> t.diags \o child.diags]
<1>1. /\ Returned /\ ret.kind = "template"
      /\ pc' = "loop" /\ pending' = pending /\ config' = config /\ cache' = cache
  BY DEF Instantiate
<1>2. /\ config \in Configs /\ frames # <<>> /\ x \in Ends
      /\ k \in DOMAIN Top.calls /\ k \in DOMAIN CallList(config, x)
      /\ CurrentCall = call /\ call.local
      /\ Partial(config, x, k, t)
      /\ PlaceOf(frames) = Callee(x.dir, call)
      /\ PlaceOf(frames).dir = Join(x.dir, call.source)
      /\ Answers(config, PlaceOf(frames), ret) \/ Recursed(config, frames, ret)
  BY <1>1, ReturnedIs
<1>3. LoadsIn(config, PlaceOf(frames).dir) /\ Whole(config, PlaceOf(frames), child)
  BY <1>1, <1>2 DEF Answers, Recursed
<1>4. Resume(joined)
  BY <1>2 DEF Instantiate
<1>5. pending = Nothing
  BY <1>1 DEF LoaderInv, Returned
<1> HIDE DEF x, k, t, child
<1>6. Partial(config, x, k + 1, joined)
  BY <1>2, <1>3, PartialJoined
<1> HIDE DEF joined
<1> QED BY <1>1, <1>2, <1>4, <1>5, <1>6, ResumeFits DEF x, k

(* What is closed answers the call of the activation below.                  *)
LEMMA CloseFits == LoaderInv /\ CloseModule => LoaderInv'
<1> SUFFICES ASSUME LoaderInv, CloseModule PROVE LoaderInv'
  OBVIOUS
<1> DEFINE f == Top
           x == EndOf(f)
           t == [f.template EXCEPT !.modules = SortSites(@)]
           key == buildCacheKey(f.dir, f.overrides)
           gs == SubSeq(frames, 1, Len(frames) - 1)
<1>1. /\ pc = "loop" /\ pc' = "return" /\ pending' = pending /\ config' = config
      /\ f.next > Len(f.calls) /\ frames' = gs
      /\ cache' = Put(cache, key, t) /\ ret' = [kind |-> "template", template |-> t]
  BY DEF CloseModule
<1>2. config \in Configs /\ StackOk(config, frames) /\ CacheOk(config, cache) /\ frames # <<>> /\ pending = Nothing
  BY <1>1 DEF LoaderInv
<1>3. /\ x \in Ends /\ x.dir = f.dir /\ x.overrides = f.overrides
      /\ f.calls = CallList(config, x) /\ f.next \in 1 .. Len(f.calls) + 1 /\ Len(f.calls) \in Nat
      /\ Partial(config, x, f.next, f.template) /\ LoadsIn(config, f.dir)
  BY <1>2, TopIs DEF Top
<1>4. StackOk(config, gs) /\ Waiting(gs) /\ x = PlaceOf(gs)
  BY <1>2, StackPopped DEF Top
<1> HIDE DEF f, x, gs
<1>5. Whole(config, x, t)
  <2>1. f.next = Len(CallList(config, x)) + 1
    BY <1>1, <1>3
  <2> QED BY <1>2, <1>3, <2>1, PartialClosed
<1> HIDE DEF t
<1>6. Answers(config, PlaceOf(frames'), ret')
  BY <1>1, <1>3, <1>4, <1>5 DEF Answers
<1>7. CacheOk(config, cache')
  <2> SUFFICES ASSUME NEW k \in DOMAIN cache'
               PROVE  \E y \in Ends : LoadsIn(config, y.dir) /\ k = buildCacheKey(y.dir, y.overrides)
                                      /\ Whole(config, y, cache'[k])
    BY DEF CacheOk
  <2>1. k \in DOMAIN cache \union {key} /\ cache'[k] = IF k = key THEN t ELSE cache[k]
    BY <1>1 DEF Put
  <2>2. CASE k = key
    BY <1>3, <1>5, <2>1, <2>2
  <2>3. CASE k # key
    BY <1>2, <2>1, <2>3 DEF CacheOk
  <2> QED BY <2>2, <2>3
<1> QED BY <1>1, <1>2, <1>4, <1>6, <1>7 DEF LoaderInv

LEMMA FinishFits == LoaderInv /\ Finish => LoaderInv'
<1> SUFFICES ASSUME LoaderInv, Finish PROVE LoaderInv'
  OBVIOUS
<1>1. /\ pc = "return" /\ pc' = "done" /\ frames = <<>> /\ frames' = frames /\ result' = ret
      /\ pending' = pending /\ config' = config /\ cache' = cache
  BY DEF Finish
<1>2. /\ config \in Configs /\ StackOk(config, frames) /\ CacheOk(config, cache) /\ pending = Nothing
      /\ Answers(config, PlaceOf(frames), ret) \/ Recursed(config, frames, ret)
  BY <1>1 DEF LoaderInv
<1>3. Answers(config, End(Root, NoArgs), result')
  BY <1>1, <1>2 DEF Recursed, PlaceOf
<1> QED BY <1>1, <1>2, <1>3 DEF LoaderInv

LEMMA LoaderSteps == LoaderInv /\ [Next]_vars => LoaderInv'
<1>1. LoaderInv /\ UNCHANGED vars => LoaderInv'
  BY DEF LoaderInv, vars
<1> QED BY <1>1, HitAnswers, CycleAnswers, FailureAnswers, ExpandFits, SkipFits, EnterFits, WarnCycleFits,
           WarnLoadFits, InstantiateFits, CloseFits, FinishFits DEF Next

-----------------------------------------------------------------------------
(* The properties speak of the file tree of the run.                         *)
LEMMA TreeIs ==
    /\ \A d : Loads(d) <=> LoadsIn(config, d)
    /\ \A x : Own(x.dir, x.overrides) = RowsOf(config, x)
    /\ \A x : ToSet(Parsed(x.dir, x.overrides).modules) = CallsOf(config, x)
    /\ \A x : LocalCalls(x.dir, x.overrides) = {call \in CallsOf(config, x) : call.local}
    /\ InSourceOrder <=> Tidy(config)
<1>1. \A d : Loads(d) <=> LoadsIn(config, d)
  BY DEF Loads, LoadsIn
<1>2. \A x : Own(x.dir, x.overrides) = RowsOf(config, x)
  BY DEF Own, Parsed, RowsOf
<1>3. \A x : ToSet(Parsed(x.dir, x.overrides).modules) = CallsOf(config, x)
  BY DEF Parsed, CallsOf
<1>4. \A x : LocalCalls(x.dir, x.overrides) = {call \in CallsOf(config, x) : call.local}
  BY DEF LocalCalls, Parsed, CallsOf
<1>5. InSourceOrder <=> Tidy(config)
  BY DEF InSourceOrder, Tidy, Parsed
<1> QED BY <1>1, <1>2, <1>3, <1>4, <1>5

LEMMA EdgesAre ==
    /\ \A d, e : EdgeIn(config, d, e) => <<d, e>> \in Edges
    /\ RecursiveIn(config) => Recursive
<1>1. ASSUME NEW d, NEW e, EdgeIn(config, d, e) PROVE <<d, e>> \in Edges
  <2>1. PICK o \in Override : \E call \in CallsOf(config, End(d, o)) : call.local /\ e = Join(d, call.source)
    BY <1>1 DEF EdgeIn
  <2>2. PICK call \in CallsOf(config, End(d, o)) : call.local /\ e = Join(d, call.source)
    BY <2>1
  <2>3. End(d, o).dir = d /\ End(d, o).overrides = o
    BY DEF End
  <2>4. call \in LocalCalls(d, o)
    <3>1. LocalCalls(End(d, o).dir, End(d, o).overrides) = {k \in CallsOf(config, End(d, o)) : k.local}
      BY TreeIs
    <3> QED BY <2>2, <2>3, <3>1
  <2>5. d \in {x \in Dir : Loads(x)}
    BY <1>1, TreeIs DEF EdgeIn
  <2>6. <<d, e>> \in {<<d, Join(d, k.source)>> : k \in LocalCalls(d, o)}
    BY <2>2, <2>4
  <2>7. <<d, e>> \in UNION {{<<d, Join(d, k.source)>> : k \in LocalCalls(d, q)} : q \in Override}
    BY <2>6
  <2> QED BY <2>5, <2>7 DEF Edges
<1>2. ASSUME RecursiveIn(config) PROVE Recursive
  <2>1. PICK n \in 1 .. Cardinality(Dir) : \E walk \in [1 .. n + 1 -> Dir] :
           walk[1] = walk[n + 1] /\ \A i \in 1 .. n : EdgeIn(config, walk[i], walk[i + 1])
    BY <1>2 DEF RecursiveIn
  <2>2. PICK walk \in [1 .. n + 1 -> Dir] :
           walk[1] = walk[n + 1] /\ \A i \in 1 .. n : EdgeIn(config, walk[i], walk[i + 1])
    BY <2>1
  <2>3. \A i \in 1 .. n : <<walk[i], walk[i + 1]>> \in Edges
    BY <1>1, <2>2
  <2> QED BY <2>2, <2>3 DEF Recursive
<1> QED BY <1>1, <1>2

(* Follow gathers the places that walks from there lead to.                  *)
LEMMA FollowLeads ==
    ASSUME NEW d, NEW o, NEW path \in Seq(Name)
    PROVE  /\ \A x \in Follow(d, o, path) :
                \E y : LeadsTo(config, End(d, o), path, y) /\ y.dir = x.dir /\ y.overrides = x.overrides
           /\ \A y : LeadsTo(config, End(d, o), path, y) =>
                \E x \in Follow(d, o, path) : x.dir = y.dir /\ x.overrides = y.overrides
<1>1. ASSUME NEW x \in Follow(d, o, path)
      PROVE  \E y : LeadsTo(config, End(d, o), path, y) /\ y.dir = x.dir /\ y.overrides = x.overrides
  <2>1. PICK w : IsWalk(config, End(d, o), path, Len(path), w) /\ x = Along(w, Len(path))
    BY <1>1, FollowIs
  <2>2. LeadsTo(config, End(d, o), path, w[Len(path)])
    BY <2>1 DEF LeadsTo
  <2> QED BY <2>1, <2>2 DEF Along
<1>2. ASSUME NEW y, LeadsTo(config, End(d, o), path, y)
      PROVE  \E x \in Follow(d, o, path) : x.dir = y.dir /\ x.overrides = y.overrides
  <2>1. PICK w : IsWalk(config, End(d, o), path, Len(path), w) /\ w[Len(path)] = y
    BY <1>2 DEF LeadsTo
  <2>2. Along(w, Len(path)) \in Follow(d, o, path)
    BY <2>1, FollowIs
  <2>3. Along(w, Len(path)).dir = y.dir /\ Along(w, Len(path)).overrides = y.overrides
    BY <2>1 DEF Along
  <2> QED BY <2>2, <2>3
<1> QED BY <1>1, <1>2

-----------------------------------------------------------------------------
(* Where nothing recurs a walk comes by no directory twice: the shortest way *)
(* back to one would be a cycle.                                             *)
WayBack(w, k, n) == \E i \in 0 .. k - n : w[i].dir = w[i + n].dir

LEMMA WalkEdges ==
    ASSUME NEW c \in Configs, NEW x \in Ends, LoadsIn(c, x.dir), NEW path, NEW k \in Nat, NEW w, IsWalk(c, x, path, k, w)
    PROVE  \A i \in 1 .. k : EdgeIn(c, w[i - 1].dir, w[i].dir)
<1>1. \A i \in 0 .. k : w[i] \in Ends
  BY WalkStays
<1>2. \A i \in 1 .. k : LoadsIn(c, w[i].dir)
  <2> TAKE i \in 1 .. k
  <2>1. StepsTo(c, w[i - 1], path[i], w[i])
    BY DEF IsWalk
  <2> QED BY <2>1 DEF StepsTo, Callee, End
<1> TAKE i \in 1 .. k
<1> DEFINE v == w[i - 1]
           z == w[i]
<1>3. StepsTo(c, v, path[i], z)
  BY DEF IsWalk
<1>4. v \in Ends /\ LoadsIn(c, v.dir)
  <2>1. i - 1 = 0 \/ i - 1 \in 1 .. k
    OBVIOUS
  <2>2. i - 1 \in 0 .. k
    OBVIOUS
  <2>3. LoadsIn(c, w[i - 1].dir)
    BY <1>2, <2>1 DEF IsWalk
  <2> QED BY <1>1, <2>2, <2>3
<1> HIDE DEF v, z
<1>5. PICK call \in CallsOf(c, v) : call.local /\ z = Callee(v.dir, call)
  BY <1>3 DEF StepsTo
<1>6. z.dir = Join(v.dir, call.source)
  BY <1>5 DEF Callee, End
<1>7. v.dir \in Dir /\ v.overrides \in Override /\ v = End(v.dir, v.overrides)
  BY <1>4, OwnAre
<1>8. call \in CallsOf(c, End(v.dir, v.overrides))
  BY <1>5, <1>7
<1>9. EdgeIn(c, v.dir, z.dir)
  BY <1>4, <1>5, <1>6, <1>7, <1>8 DEF EdgeIn
<1> QED BY <1>9 DEF v, z

LEMMA NoWayBack ==
    ASSUME NEW c \in Configs, ~RecursiveIn(c), NEW x \in Ends, LoadsIn(c, x.dir),
           NEW path, NEW k \in Nat, NEW w, IsWalk(c, x, path, k, w)
    PROVE  \A i, j \in 0 .. k : w[i].dir = w[j].dir => i = j
<1> DEFINE S == {n \in 1 .. k : WayBack(w, k, n)}
<1>1. ASSUME S # {} PROVE FALSE
  <2>1. S \in SUBSET (0 .. k)
    OBVIOUS
  <2>2. PICK n \in S : \A m \in S : n <= m
    <3> HIDE DEF S
    <3> QED BY <1>1, <2>1, Extremes
  <2>3. n \in 1 .. k /\ WayBack(w, k, n)
    BY <2>2
  <2>4. PICK i \in 0 .. k - n : w[i].dir = w[i + n].dir
    BY <2>3 DEF WayBack
  <2> DEFINE cycle == [m \in 1 .. n + 1 |-> w[i + m - 1].dir]
  <2>5. \A m \in 1 .. n + 1 : i + m - 1 \in 0 .. k
    BY <2>3, <2>4
  <2>6. \A m \in 1 .. n + 1 : w[i + m - 1].dir \in Dir
    BY <2>5, WalkStays DEF Ends
  <2>7. cycle \in Seq(Dir) /\ Len(cycle) = n + 1
    <3> HIDE DEF S
    <3> QED BY <2>3, <2>6
  <2>8. \A m \in 1 .. n + 1 : cycle[m] = w[i + m - 1].dir
    OBVIOUS
  <2> HIDE DEF cycle
  <2>9. cycle[1] = cycle[n + 1]
    <3>1. 1 \in 1 .. n + 1 /\ n + 1 \in 1 .. n + 1 /\ i + 1 - 1 = i /\ i + (n + 1) - 1 = i + n
      BY <2>3, <2>4
    <3> QED BY <2>4, <2>8, <3>1
  <2>10. ASSUME NEW m \in 1 .. n PROVE EdgeIn(c, cycle[m], cycle[m + 1])
    <3>1. m \in 1 .. n + 1 /\ m + 1 \in 1 .. n + 1 /\ i + m \in 1 .. k /\ i + (m + 1) - 1 = i + m
      BY <2>3, <2>4
    <3>2. cycle[m] = w[i + m - 1].dir /\ cycle[m + 1] = w[i + m].dir
      BY <2>8, <3>1
    <3>3. EdgeIn(c, w[i + m - 1].dir, w[i + m].dir)
      <4> DEFINE q == i + m
      <4>1. q \in 1 .. k
        BY <3>1
      <4> HIDE DEF q
      <4>2. EdgeIn(c, w[q - 1].dir, w[q].dir)
        BY <4>1, WalkEdges
      <4> QED BY <4>2 DEF q
    <3> QED BY <3>2, <3>3
  <2>11. ASSUME NEW a \in 1 .. n, NEW b \in 1 .. n, a < b, cycle[a] = cycle[b] PROVE FALSE
    <3> DEFINE m == b - a
               j == i + a - 1
    <3>1. m \in 1 .. k /\ m < n /\ j \in 0 .. k - m /\ j + m = i + b - 1 /\ a \in 1 .. n + 1 /\ b \in 1 .. n + 1
      BY <2>3, <2>4, <2>11
    <3>2. w[j].dir = w[j + m].dir
      <4>1. cycle[a] = w[i + a - 1].dir /\ cycle[b] = w[i + b - 1].dir
        BY <2>8, <3>1
      <4> QED BY <2>11, <3>1, <4>1
    <3> HIDE DEF m, j
    <3>3. m \in S
      BY <3>1, <3>2 DEF WayBack
    <3> QED BY <2>2, <2>3, <3>1, <3>3
  <2>12. \A a, b \in 1 .. n : cycle[a] = cycle[b] => a = b
    <3> TAKE a, b \in 1 .. n
    <3>1. a < b \/ b < a \/ a = b
      BY <2>3
    <3> QED BY <2>11, <3>1
  <2>13. Len(cycle) >= 2 /\ 1 .. Len(cycle) - 1 = 1 .. n /\ Len(cycle) = n + 1
    BY <2>3, <2>7
  <2>14. RealCycle(c, cycle)
    <3> HIDE DEF S
    <3> QED BY <2>7, <2>9, <2>10, <2>12, <2>13 DEF RealCycle
  <2> QED BY <2>14, CycleRecurs
<1>2. ASSUME NEW i \in 0 .. k, NEW j \in 0 .. k, i < j, w[i].dir = w[j].dir PROVE FALSE
  <2> DEFINE n == j - i
  <2>1. n \in 1 .. k /\ i \in 0 .. k - n /\ i + n = j
    BY <1>2
  <2> HIDE DEF n
  <2>2. n \in S
    BY <1>2, <2>1 DEF WayBack
  <2> QED BY <1>1, <2>2
<1> TAKE i, j \in 0 .. k
<1>3. i < j \/ j < i \/ i = j
  OBVIOUS
<1> QED BY <1>2, <1>3

(* So as many directories lie on its way as it has steps and one, and the    *)
(* tree has as many.                                                         *)
LEMMA WalkSeen ==
    ASSUME NEW c \in Configs, ~RecursiveIn(c), NEW x \in Ends, LoadsIn(c, x.dir),
           NEW path, NEW k \in Nat, NEW w, IsWalk(c, x, path, k, w)
    PROVE  Cardinality(Along(w, k).seen) = k + 1 /\ k \in 0 .. Cardinality(Dir) - 1
<1> DEFINE S == 0 .. k
           T == {w[i].dir : i \in S}
           f == [i \in S |-> w[i].dir]
<1>1. IsFiniteSet(S) /\ Cardinality(S) = k + 1
  <2>1. IsFiniteSet(0 .. k) /\ Cardinality(0 .. k) = IF 0 > k THEN 0 ELSE k - 0 + 1
    BY FS_Interval
  <2> QED BY <2>1
<1>2. \A i, j \in S : w[i].dir = w[j].dir => i = j
  BY NoWayBack
<1>3. \A i \in S : w[i].dir \in Dir
  BY WalkStays DEF Ends
<1>4. Along(w, k).seen = T
  BY DEF Along
<1> HIDE DEF S
<1>5. f \in Bijection(S, T)
  BY <1>2 DEF Bijection, Injection, Surjection, IsInjective
<1>6. T \in SUBSET Dir
  BY <1>3
<1> HIDE DEF T, f
<1>7. Cardinality(T) = k + 1
  <2>1. ExistsBijection(S, T)
    BY <1>5 DEF ExistsBijection
  <2> QED BY <1>1, <2>1, FS_Bijection
<1>8. Cardinality(T) <= Cardinality(Dir) /\ Cardinality(Dir) \in Nat
  BY <1>6, TextAssumption, FS_Subset, FS_CardinalityType
<1> QED BY <1>4, <1>7, <1>8

-----------------------------------------------------------------------------
(* What the invariant says of templates, cached or returned.                 *)
LEMMA WholeIs ==
    ASSUME NEW c \in Configs, NEW x \in Ends, NEW t, Whole(c, x, t)
    PROVE  /\ IsTemplate(t) /\ SitesInOrder(t.modules)
           /\ \A g \in ToSet(t.diags) : g.kind = "cycle" => RealCycle(c, g.cycle)
           /\ RealRows(c, x, ToSet(t.resources), ToSet(t.diags))
           /\ \A row \in ToSet(t.resources) : row.path \in Seq(Name)
           /\ Tidy(c) => AllAnswered(c, x, ToSet(t.resources), ToSet(t.diags)) /\ Ordered(t.resources)
           /\ ~RecursiveIn(c) => AllRows(c, x, ToSet(t.resources))
<1> DEFINE k == Len(CallList(c, x)) + 1
           R == ToSet(t.resources)
           G == ToSet(t.diags)
<1>1. Partial(c, x, k, t) /\ SitesInOrder(t.modules)
  BY DEF Whole
<1>2. /\ WellFormed(t) /\ Sound(c, x, R, G)
      /\ Tidy(c) => Answering(c, x, k, t.resources, G)
      /\ ~RecursiveIn(c) => FullRows(c, x, k, R)
  BY <1>1 DEF Partial
<1>3. IsTemplate(t) /\ \A row \in R : row.path \in Seq(Name)
  BY <1>2 DEF WellFormed, AreRows, IsTemplate, IsRow
<1>4. RealRows(c, x, R, G) /\ \A g \in G : g.kind = "cycle" => RealCycle(c, g.cycle)
  BY <1>2 DEF Sound
<1> HIDE DEF R, G
<1>5. Tidy(c) => AllAnswered(c, x, R, G) /\ Ordered(t.resources)
  <2>1. Tidy(c) => AnsweredHere(c, x, k, R, G) /\ AnsweredBelow(c, x, R, G) /\ Ordered(t.resources)
    BY <1>2 DEF Answering, R
  <2> QED BY <2>1, AnsweredAll
<1>6. ~RecursiveIn(c) => AllRows(c, x, R)
  BY <1>2, FullAll
<1> QED BY <1>1, <1>3, <1>4, <1>5, <1>6 DEF R, G

LEMMA DoneIs ==
    ASSUME LoaderInv, pc = "done"
    PROVE  /\ config \in Configs /\ End(Root, NoArgs) \in Ends
           /\ CacheOk(config, cache)
           /\ (result.kind = "template") <=> LoadsIn(config, Root)
           /\ result.kind = "template" => Whole(config, End(Root, NoArgs), result.template)
<1>1. config \in Configs /\ CacheOk(config, cache) /\ Answers(config, End(Root, NoArgs), result)
  BY DEF LoaderInv
<1>2. End(Root, NoArgs) \in Ends /\ End(Root, NoArgs).dir = Root
  BY ConfigsAssumption DEF End, Ends
<1> QED BY <1>1, <1>2 DEF Answers

-----------------------------------------------------------------------------
(***************************************************************************)
(* Every variable has its type in every reachable state, whatever tree is  *)
(* loaded: TypeOK of the run, for all constants.                           *)
(***************************************************************************)
LEMMA TypeHolds == LoaderInv => TypeOK
<1> SUFFICES ASSUME LoaderInv PROVE TypeOK
  OBVIOUS
<1> DEFINE n == Len(frames)
<1>1. /\ config \in Configs /\ StackOk(config, frames) /\ CacheOk(config, cache)
      /\ pc \in {"enter", "loop", "return", "done"}
      /\ pc = "loop" => frames # <<>>
  BY DEF LoaderInv
<1>2. IsTree(config)
  BY <1>1, ConfigsAssumption
<1>3. /\ (pc = "enter") = (pending # Nothing)
      /\ pc = "enter" => pending \in [dir: Dir, overrides: Override]
  <2>1. CASE pc = "enter"
    <3>1. pending = PlaceOf(frames) /\ Waiting(frames)
      BY <2>1 DEF LoaderInv
    <3>2. pending \in Ends /\ pending # Nothing
      BY <1>1, <3>1, PlaceIs
    <3> QED BY <2>1, <3>2 DEF Ends
  <2>2. CASE pc # "enter"
    BY <2>2 DEF LoaderInv
  <2> QED BY <2>1, <2>2
<1>4. n \in Nat /\ DOMAIN frames = 1 .. n
  BY <1>1 DEF StackOk, IsList
<1>5. ASSUME NEW i \in DOMAIN frames
      PROVE  /\ frames[i].dir \in Dir /\ frames[i].overrides \in Override
             /\ frames[i].calls = Parsed(frames[i].dir, frames[i].overrides).modules
             /\ frames[i].next \in 1 .. Len(frames[i].calls) + (IF pc = "loop" /\ i = Len(frames) THEN 1 ELSE 0)
             /\ IsTemplate(frames[i].template)
  <2> DEFINE f == frames[i]
  <2>1. FrameOk(config, f)
    BY <1>1 DEF StackOk
  <2>2. (pc = "loop" /\ i = n) \/ Calling(f)
    <3>1. CASE i = n
      <4>1. frames # <<>>
        OBVIOUS
      <4>2. pc \in {"enter", "return"} => Calling(f)
        BY <3>1, <4>1 DEF LoaderInv, Waiting
      <4>3. pc # "done"
        BY <4>1 DEF LoaderInv
      <4> QED BY <1>1, <3>1, <4>2, <4>3
    <3>2. CASE i # n
      <4>1. i \in 1 .. n - 1
        BY <1>4, <3>2
      <4> QED BY <1>1, <4>1 DEF StackOk, Calls
    <3> QED BY <3>1, <3>2
  <2> HIDE DEF f
  <2>3. /\ f.dir \in Dir /\ f.overrides \in Override /\ EndOf(f).dir = f.dir /\ EndOf(f).overrides = f.overrides
        /\ DOMAIN f.calls = 1 .. Len(f.calls) /\ Len(f.calls) \in Nat
    BY <1>1, <2>1, FrameIs
  <2>4. /\ f.calls = CallList(config, EndOf(f)) /\ f.next \in 1 .. Len(f.calls) + 1
        /\ Partial(config, EndOf(f), f.next, f.template)
    BY <2>1 DEF FrameOk
  <2>5. f.calls = Parsed(f.dir, f.overrides).modules
    BY <2>3, <2>4 DEF CallList, Parsed
  <2>6. f.next \in 1 .. Len(f.calls) + (IF pc = "loop" /\ i = n THEN 1 ELSE 0)
    BY <2>2, <2>3, <2>4 DEF Calling
  <2>7. IsTemplate(f.template)
    BY <2>4 DEF Partial, WellFormed, AreRows, IsTemplate
  <2> QED BY <2>3, <2>5, <2>6, <2>7 DEF f
<1>6. \A k \in DOMAIN cache : IsTemplate(cache[k])
  BY <1>1, WholeIs DEF CacheOk
<1>7. /\ pc = "return" => ret.kind \in {"template", "cycle", "walk", "parse"}
      /\ pc = "return" /\ ret.kind = "template" => IsTemplate(ret.template)
  <2> SUFFICES ASSUME pc = "return"
               PROVE  /\ ret.kind \in {"template", "cycle", "walk", "parse"}
                      /\ ret.kind = "template" => IsTemplate(ret.template)
    OBVIOUS
  <2>1. Waiting(frames) /\ (Answers(config, PlaceOf(frames), ret) \/ Recursed(config, frames, ret))
    BY DEF LoaderInv
  <2>2. PlaceOf(frames) \in Ends
    BY <1>1, <2>1, PlaceIs
  <2>3. ret.kind \in {"template", "cycle", "walk", "parse"}
    BY <2>1 DEF Answers, Recursed
  <2>4. ret.kind = "template" => Whole(config, PlaceOf(frames), ret.template)
    BY <2>1 DEF Answers, Recursed
  <2> QED BY <1>1, <2>2, <2>3, <2>4, WholeIs
<1> QED BY <1>1, <1>2, <1>3, <1>5, <1>6, <1>7 DEF TypeOK

LEMMA NestingHolds == LoaderInv => NoNestedExpansion
BY DEF LoaderInv, StackOk, NoNestedExpansion

LEMMA ModulesHold == LoaderInv => ModulesInOrder
<1> SUFFICES ASSUME LoaderInv, pc = "done", result.kind = "template"
             PROVE  SitesInOrder(result.template.modules)
  BY DEF ModulesInOrder, Ok, SitesInOrder, SiteLess
<1> QED BY DoneIs, WholeIs

LEMMA CyclesHold == LoaderInv => CyclesAreReal
<1> SUFFICES ASSUME LoaderInv, pc = "done", NEW k \in DOMAIN cache, NEW g \in ToSet(cache[k].diags), g.kind = "cycle"
             PROVE  /\ Len(g.cycle) >= 2 /\ g.cycle[1] = g.cycle[Len(g.cycle)]
                    /\ \A i \in 1 .. Len(g.cycle) - 1 : <<g.cycle[i], g.cycle[i + 1]>> \in Edges
  BY DEF CyclesAreReal
<1>1. config \in Configs /\ \E x \in Ends : Whole(config, x, cache[k])
  BY DEF LoaderInv, CacheOk
<1>2. RealCycle(config, g.cycle)
  BY <1>1, WholeIs
<1> QED BY <1>2, EdgesAre DEF RealCycle

LEMMA InstancesHold == LoaderInv => InstancesAreReal
<1> SUFFICES ASSUME LoaderInv, pc = "done", result.kind = "template", NEW row \in ToSet(result.template.resources)
             PROVE  \E x \in Follow(Root, NoArgs, row.path) : [row EXCEPT !.path = <<>>] \in Own(x.dir, x.overrides)
  BY DEF InstancesAreReal, Ok
<1> DEFINE r == End(Root, NoArgs)
           R == ToSet(result.template.resources)
<1>1. RealRows(config, r, R, ToSet(result.template.diags)) /\ row.path \in Seq(Name)
  BY DoneIs, WholeIs
<1>2. PICK y : LeadsTo(config, r, row.path, y) /\ At(<<>>, row) \in RowsOf(config, y)
  BY <1>1 DEF RealRows
<1>3. PICK x \in Follow(Root, NoArgs, row.path) : x.dir = y.dir /\ x.overrides = y.overrides
  BY <1>1, <1>2, FollowLeads
<1>4. Own(x.dir, x.overrides) = RowsOf(config, y)
  BY <1>3, TreeIs
<1>5. [row EXCEPT !.path = <<>>] \in Own(x.dir, x.overrides)
  BY <1>2, <1>4 DEF At
<1> QED BY <1>5

LEMMA AnswersHold == LoaderInv => EveryCallAnswered
<1> SUFFICES ASSUME LoaderInv, pc = "done"
             PROVE  /\ (result.kind = "template") = Loads(Root)
                    /\ Ok /\ InSourceOrder =>
                         \A row \in ToSet(result.template.resources) :
                             \A x \in Follow(Root, NoArgs, row.path) :
                                 \A c \in ToSet(Parsed(x.dir, x.overrides).modules) : Answered(x, c, row.path)
  BY DEF EveryCallAnswered
<1>1. (result.kind = "template") = Loads(Root)
  <2>1. (result.kind = "template") <=> Loads(Root)
    BY DoneIs, TreeIs
  <2>2. (result.kind = "template") \in BOOLEAN /\ Loads(Root) \in BOOLEAN
    BY DEF Loads
  <2> QED BY <2>1, <2>2
<1> SUFFICES ASSUME Ok, InSourceOrder, NEW row \in ToSet(result.template.resources),
                    NEW x \in Follow(Root, NoArgs, row.path),
                    NEW c \in ToSet(Parsed(x.dir, x.overrides).modules)
             PROVE  Answered(x, c, row.path)
  BY <1>1
<1> DEFINE r == End(Root, NoArgs)
           R == ToSet(result.template.resources)
           G == ToSet(result.template.diags)
<1>2. Whole(config, r, result.template) /\ config \in Configs /\ r \in Ends /\ Tidy(config)
  BY DoneIs, TreeIs DEF Ok
<1>3. AllAnswered(config, r, R, G) /\ row.path \in Seq(Name)
  BY <1>2, WholeIs
<1>4. PICK y : LeadsTo(config, r, row.path, y) /\ y.dir = x.dir /\ y.overrides = x.overrides
  BY <1>3, FollowLeads
<1>5. c \in CallsOf(config, y)
  BY <1>4 DEF CallsOf, Parsed
<1>6. AnsweredIn(config, y, c, row.path, R, G)
  BY <1>3, <1>4, <1>5 DEF AllAnswered
<1>7. ASSUME c.local, LoadsIn(config, Join(y.dir, c.source)), RowsOf(config, Callee(y.dir, c)) = {}
      PROVE  Answered(x, c, row.path)
  <2>1. Own(Join(x.dir, c.source), literalOverrides(c)) = {}
    BY <1>4, <1>7 DEF RowsOf, Callee, End, Own, Parsed
  <2>2. Loads(Join(x.dir, c.source))
    BY <1>4, <1>7, TreeIs
  <2> QED BY <1>7, <2>1, <2>2 DEF Answered
<1>8. ASSUME \E q \in R : q.path = Append(row.path, c.name) PROVE Answered(x, c, row.path)
  BY <1>8 DEF Answered
<1>9. ASSUME \E g \in G : g.pos = c.pos /\ g.kind \in {"cycle", "load", "non-local"} PROVE Answered(x, c, row.path)
  BY <1>9 DEF Answered
<1> QED BY <1>6, <1>7, <1>8, <1>9 DEF AnsweredIn

LEMMA OrderHolds == LoaderInv => DepthFirstOrder
<1> SUFFICES ASSUME LoaderInv, Ok, InSourceOrder
             PROVE  Ordered(result.template.resources)
  BY DEF DepthFirstOrder, Ordered, RowBefore
<1>1. Whole(config, End(Root, NoArgs), result.template) /\ config \in Configs /\ End(Root, NoArgs) \in Ends /\ Tidy(config)
  BY DoneIs, TreeIs DEF Ok
<1> QED BY <1>1, WholeIs

LEMMA CacheHolds == LoaderInv => CacheIsExact
<1> SUFFICES ASSUME LoaderInv, pc = "done", ~Recursive, NEW d \in Dir, NEW o \in Override,
                    buildCacheKey(d, o) \in DOMAIN cache
             PROVE  ToSet(cache[buildCacheKey(d, o)].resources) = AsRoot(d, o)
  BY DEF CacheIsExact
<1> DEFINE t == cache[buildCacheKey(d, o)]
           R == ToSet(t.resources)
           x == End(d, o)
<1>1. config \in Configs /\ CacheOk(config, cache) /\ ~RecursiveIn(config)
  BY EdgesAre DEF LoaderInv
<1>2. LoadsIn(config, d) /\ Whole(config, x, t)
  <2>1. PICK y \in Ends : /\ LoadsIn(config, y.dir) /\ buildCacheKey(d, o) = buildCacheKey(y.dir, y.overrides)
                          /\ Whole(config, y, t)
    BY <1>1 DEF CacheOk
  <2>2. y.dir \in Dir /\ y.overrides \in Override /\ y = End(y.dir, y.overrides)
    BY <1>1, OwnAre
  <2>3. d = y.dir /\ o = y.overrides
    BY <2>1, <2>2, KeysTell
  <2> QED BY <2>1, <2>2, <2>3
<1>3. x \in Ends /\ x.dir = d /\ x.overrides = o
  BY DEF End, Ends
<1> HIDE DEF t, x
<1>4. RealRows(config, x, R, ToSet(t.diags)) /\ AllRows(config, x, R) /\ \A row \in R : row.path \in Seq(Name)
  BY <1>1, <1>2, <1>3, WholeIs
<1>5. AreRows(R)
  BY <1>2 DEF Whole, Partial, WellFormed
<1> HIDE DEF R
<1>6. ASSUME NEW b \in AsRoot(d, o) PROVE b \in R
  <2>1. PICK p \in Paths : b \in UNION {{[q EXCEPT !.path = p] : q \in Own(y.dir, y.overrides)} :
                                        y \in {z \in Follow(d, o, p) : Cardinality(z.seen) = Len(p) + 1}}
    BY <1>6 DEF AsRoot
  <2>2. PICK y \in Follow(d, o, p) : b \in {[q EXCEPT !.path = p] : q \in Own(y.dir, y.overrides)}
    BY <2>1
  <2>3. PICK q \in Own(y.dir, y.overrides) : b = [q EXCEPT !.path = p]
    BY <2>2
  <2>4. p \in Seq(Name)
    <3>1. PICK n \in 0 .. Cardinality(Dir) - 1 : p \in [1 .. n -> Name]
      BY DEF Paths
    <3>2. n \in Nat
      BY <3>1, TextAssumption, FS_CardinalityType
    <3> QED BY <3>1, <3>2
  <2>5. PICK z : LeadsTo(config, x, p, z) /\ z.dir = y.dir /\ z.overrides = y.overrides
    BY <2>2, <2>4, FollowLeads DEF x
  <2>6. q \in RowsOf(config, z)
    BY <2>3, <2>5 DEF Own, Parsed, RowsOf
  <2>7. b = At(p, q)
    BY <2>3 DEF At
  <2> QED BY <1>4, <2>4, <2>5, <2>6, <2>7 DEF AllRows
<1>7. ASSUME NEW row \in R PROVE row \in AsRoot(d, o)
  <2> DEFINE p == row.path
             k == Len(p)
  <2>1. PICK z : LeadsTo(config, x, p, z) /\ At(<<>>, row) \in RowsOf(config, z)
    BY <1>4 DEF RealRows
  <2>2. PICK w : IsWalk(config, x, p, k, w) /\ w[k] = z
    BY <2>1 DEF LeadsTo
  <2> DEFINE y == Along(w, k)
  <2>3. p \in Seq(Name) /\ k \in Nat
    BY <1>4
  <2>4. Cardinality(y.seen) = k + 1 /\ k \in 0 .. Cardinality(Dir) - 1
    BY <1>1, <1>2, <1>3, <2>2, <2>3, WalkSeen
  <2>5. p \in Paths
    <3>1. p \in [1 .. k -> Name]
      BY <2>3
    <3> QED BY <2>4, <3>1 DEF Paths
  <2>6. y \in Follow(d, o, p)
    BY <2>2, <2>3, FollowIs DEF x
  <2>7. y.dir = z.dir /\ y.overrides = z.overrides
    BY <2>2 DEF Along
  <2> DEFINE q == At(<<>>, row)
  <2>8. q \in Own(y.dir, y.overrides)
    BY <2>1, <2>7 DEF Own, Parsed, RowsOf
  <2>9. row = [q EXCEPT !.path = p]
    <3>1. RowShape(row) /\ IsRow(row)
      BY <1>5 DEF AreRows
    <3> QED BY <3>1 DEF RowShape, At
  <2> HIDE DEF y, q, p
  <2>10. row \in {[b EXCEPT !.path = p] : b \in Own(y.dir, y.overrides)}
    BY <2>8, <2>9
  <2>11. y \in {v \in Follow(d, o, p) : Cardinality(v.seen) = Len(p) + 1}
    BY <2>4, <2>6
  <2>12. row \in UNION {{[b EXCEPT !.path = p] : b \in Own(v.dir, v.overrides)} :
                          v \in {u \in Follow(d, o, p) : Cardinality(u.seen) = Len(p) + 1}}
    BY <2>10, <2>11
  <2> QED BY <2>5, <2>12 DEF AsRoot
<1>8. R = AsRoot(d, o)
  BY <1>6, <1>7
<1> QED BY <1>8 DEF R, t

-----------------------------------------------------------------------------
(***************************************************************************)
(* LoaderInv holds in every reachable state: what is pending is the call   *)
(* of the innermost activation, what is returned answers it, what the      *)
(* templates of activations, cache and result hold is real and, where the  *)
(* tree allows, complete and in order.                                     *)
(***************************************************************************)
THEOREM LoaderHolds == Spec => []LoaderInv
BY LoaderStarts, LoaderSteps, PTL DEF Spec

(***************************************************************************)
(* Every variable of the loader has its type in every reachable state.     *)
(***************************************************************************)
THEOREM LoaderTyped == Spec => []TypeOK
BY LoaderHolds, TypeHolds, PTL

(***************************************************************************)
(* buildModuleTemplate never expands a directory inside itself, whatever   *)
(* modules call each other with whatever arguments, cached or not.         *)
(***************************************************************************)
THEOREM NeverNested == Spec => []NoNestedExpansion
BY LoaderHolds, NestingHolds, PTL

(***************************************************************************)
(* What LoadRecursive caches for a tree without recursion is exactly what  *)
(* the directory would give as the root with the same arguments, whoever   *)
(* expanded it first and whoever is answered from the cache.               *)
(***************************************************************************)
THEOREM CacheExact == Spec => []CacheIsExact
BY LoaderHolds, CacheHolds, PTL

(***************************************************************************)
(* Every row LoadRecursive returns is a block that its module path leads   *)
(* to, with the arguments passed along that path.                          *)
(***************************************************************************)
THEOREM InstancesReal == Spec => []InstancesAreReal
BY LoaderHolds, InstancesHold, PTL

(***************************************************************************)
(* Every module call at a path that was returned is expanded below it or   *)
(* warned about, and LoadRecursive fails just if the root does not load.   *)
(***************************************************************************)
THEOREM CallsAnswered == Spec => []EveryCallAnswered
BY LoaderHolds, AnswersHold, PTL

(***************************************************************************)
(* The rows come depth first, the blocks of a module before those of its   *)
(* calls and the calls in source order, and no instance comes twice.       *)
(***************************************************************************)
THEOREM DepthFirst == Spec => []DepthFirstOrder
BY LoaderHolds, OrderHolds, PTL

(***************************************************************************)
(* The module calls are listed by position and path, each site once, even  *)
(* where two calls have one name.                                          *)
(***************************************************************************)
THEOREM ModulesSorted == Spec => []ModulesInOrder
BY LoaderHolds, ModulesHold, PTL

(***************************************************************************)
(* Each cycle LoadRecursive warns of is one: every directory in it loads   *)
(* and calls the next, the last is the first.                              *)
(***************************************************************************)
THEOREM CyclesReal == Spec => []CyclesAreReal
BY LoaderHolds, CyclesHold, PTL
=============================================================================
