------------------------------ MODULE Pipeline ------------------------------
(***************************************************************************)
(* cmd/tfperms/main.go, runAnalyze: what LoadRecursive returned is handed  *)
(* to Resolve.  The module composes the loader and the resolver, and asks  *)
(* of the two together what neither can be asked alone: whether the answer *)
(* is what Terraform would need, and where it is not, whether it says so.  *)
(*                                                                         *)
(* What Terraform would need depends on what the tool cannot know: what    *)
(* data sources, other resources and functions give, and the variables of  *)
(* the root without a default.  A WORLD fixes them; in a world every       *)
(* expression has a value.                                                 *)
(***************************************************************************)
EXTENDS ModuleLoader

CONSTANTS
    Perm, Type, Block, Path, Attr, Value, Literal, NilCatalog, Catalogs,    \* of Resolver
    Worlds      \* [var, data, resource, call]: maps from names to values

(* A file declares so many locals and no more.                              *)
ASSUME TreesAssumption ==
    \A c \in Configs, d \in Dir : IsFiniteSet(DOMAIN LocalDecls(c[d]))

(* A world sets the variables of the root that have no default.             *)
ASSUME WorldsAssumption ==
    \A c \in Configs, w \in Worlds : DOMAIN w.var \intersect DOMAIN varValues(Variables(c[Root]), NoArgs) = {}

VARIABLES
    resources, cat, excludeDelete, rpc, next, cond, entry, row,
    plan, apply, unknowns, unresolved, results, answer

Resolver == INSTANCE Resolver WITH pc <- rpc, result <- answer, Inputs <- {}

(* The catalogs are those the loader gives (Resolver asks for them, too).    *)
ASSUME EntriesAssumption == \A c \in Catalogs : c = NilCatalog \/ Resolver!IsCatalog(c)

rvars == <<resources, cat, excludeDelete, rpc, next, cond, entry, row,
           plan, apply, unknowns, unresolved, results, answer>>

-----------------------------------------------------------------------------
PipelineInit ==
    /\ Init
    /\ resources = <<>> /\ cat \in Catalogs /\ excludeDelete \in BOOLEAN
    /\ rpc = "idle" /\ next = 1 /\ cond = 0 /\ entry = Nothing /\ row = Nothing
    /\ plan = {} /\ apply = {} /\ unknowns = <<>> /\ unresolved = <<>>
    /\ results = <<>> /\ answer = Nothing

Load == Next /\ UNCHANGED rvars

(* The name of a call as the sequence of characters that Resolver reads.    *)
Segments(path) == [i \in DOMAIN path |-> <<path[i]>>]

(* The error of the root directory ends the run.                            *)
StartResolve ==
    /\ rpc = "idle" /\ pc = "done" /\ result.kind = "template"
    /\ resources' = [i \in DOMAIN result.template.resources |->
                       [result.template.resources[i] EXCEPT !.path = Segments(@)]]
    /\ rpc' = "resource"
    /\ UNCHANGED <<vars, cat, excludeDelete, next, cond, entry, row,
                   plan, apply, unknowns, unresolved, results, answer>>

Resolve == Resolver!Next /\ UNCHANGED vars

PipelineNext == Load \/ StartResolve \/ Resolve

(* One goroutine that nothing blocks.                                       *)
PipelineSpec == PipelineInit /\ [][PipelineNext]_<<vars, rvars>> /\ WF_<<vars, rvars>>(PipelineNext)

-----------------------------------------------------------------------------
(* Terraform's own reading of a tree in a world: arguments have values and  *)
(* are passed, defaults are for what is not passed, modules have count too. *)
TrueContext(d, given, w) ==
    LET declared == Variables(d)
        decls == LocalDecls(d)
        variables == [n \in DOMAIN declared |->
                        IF n \in DOMAIN given THEN given[n] ELSE resolveExpr(declared[n], NoContext)]
        start == [var |-> Known(variables), local |-> <<>>,
                  data |-> w.data, resource |-> w.resource, call |-> w.call]
    IN  FoldLeft(LAMBDA ctx, i : Pass(decls, ctx), start, [i \in 1 .. Cardinality(DOMAIN decls) |-> i])

(* A count is a number, a for_each a collection; either may say none.       *)
HasInstances(b, ctx) ==
    /\ "count" \in DOMAIN b.attrs => resolveExpr(b.attrs["count"], ctx).v > 0
    /\ "for_each" \in DOMAIN b.attrs => resolveExpr(b.attrs["for_each"], ctx).v # 0

(* The attributes of a resource, the arguments of a call.                   *)
TrueAttrs(b, ctx) ==
    LET meta == metaArgs \union (IF b.kind = "module" THEN {"source"} ELSE {})
    IN  [a \in DOMAIN b.attrs \ meta |-> resolveExpr(b.attrs[a], ctx)]

(* prevent_destroy is read before there is anything to look up.             *)
Prevented(b) ==
    /\ b.lifecycle # <<>>
    /\ LET v == resolveExpr(Last(b.lifecycle), NoContext) IN v # NilVal /\ v.t = "bool" /\ v.v

(* The source of a call is written out.                                     *)
HasSource(b) ==
    /\ "source" \in DOMAIN b.attrs
    /\ b.attrs["source"].op = "lit" /\ b.attrs["source"].value.t = "string"

SourceOf(b) == b.attrs["source"].value.v

(* Terraform accepts the directory: it loads, everything declared has a     *)
(* value, of the type that is asked for.                                    *)
Accepts(d, ctx) ==
    /\ LoadError(d) = "none"
    /\ DOMAIN ctx.var = DOMAIN Variables(d) /\ DOMAIN ctx.local = DOMAIN LocalDecls(d)
    /\ \A b \in ToSet(Blocks(d)) :
         /\ \A a \in DOMAIN b.attrs : resolveExpr(b.attrs[a], ctx) # NilVal
         /\ "count" \in DOMAIN b.attrs =>
              /\ resolveExpr(b.attrs["count"], ctx).t = "number"
              /\ "for_each" \notin DOMAIN b.attrs
         /\ "for_each" \in DOMAIN b.attrs => resolveExpr(b.attrs["for_each"], ctx).t \in Collections
         /\ Len(b.lifecycle) <= 1
         /\ b.kind = "module" => HasSource(b)

ModuleAt(c, dir, path, given, w) ==
    [dir |-> dir, path |-> path, ctx |-> TrueContext(c[dir], given, w)]

(* The modules that the calls of x make, those with no instances left out,  *)
(* and those from a registry, which are not in the tree.                    *)
Called(c, x, w) ==
    {ModuleAt(c, Join(x.dir, SourceOf(b)), Append(x.path, b.name), TrueAttrs(b, x.ctx), w) :
        b \in {y \in ToSet(Blocks(c[x.dir])) :
                 y.kind = "module" /\ HasSource(y) /\ IsLocal(SourceOf(y)) /\ HasInstances(y, x.ctx)}}

TrueModules(c, w) ==
    FoldLeft(LAMBDA X, i : X \union UNION {Called(c, x, w) : x \in X},
             {ModuleAt(c, Root, <<>>, w.var, w)}, [i \in 1 .. Cardinality(Dir) |-> i])

TrueInstances(c, w) ==
    UNION {{[kind |-> b.kind, type |-> b.type, block |-> b.pos, path |-> Segments(x.path),
             attrs |-> TrueAttrs(b, x.ctx), preventDestroy |-> Prevented(b)] :
               b \in {y \in ToSet(Blocks(c[x.dir])) : y.kind # "module" /\ HasInstances(y, x.ctx)}} :
             x \in TrueModules(c, w)}

(* What there is in each world in which Terraform accepts the tree.         *)
Accepted(c, w) == \A x \in TrueModules(c, w) : Accepts(c[x.dir], x.ctx)

truth == [c \in Configs |-> [w \in Worlds |->
            IF Accepted(c, w) THEN {TrueInstances(c, w)} ELSE {}]]

(* An attribute that a block does not write may have any value.             *)
MayHold(attrs, when) ==
    \A a \in DOMAIN when \intersect DOMAIN attrs : Resolver!ctyValueEqualsLiteral(attrs[a], when[a])

Stages(ps, x) ==
    ps.Plan \union ps.Create \union ps.Update
      \union (IF x.preventDestroy \/ excludeDelete THEN {} ELSE ps.Delete)

(* The permissions of the conditionals of x that Pick picks.                *)
OfConditionals(x, Pick(_)) ==
    LET conds == Resolver!lookupEntry(cat, x).conditionals
    IN  UNION {Stages(conds[i].permissions, x) : i \in {j \in DOMAIN conds : Pick(conds[j].when)}}

MayNeed(x) ==
    IF ~Resolver!Found(cat, x) THEN {}
    ELSE Stages(Resolver!lookupEntry(cat, x).base, x)
           \union OfConditionals(x, LAMBDA when : MayHold(x.attrs, when))

(* No tree whose modules call each other in a circle can be installed.      *)
Possible == IF Recursive THEN {} ELSE UNION {truth[config][w] : w \in Worlds}

-----------------------------------------------------------------------------
(* The calls along a path, as the loader read them.                         *)
CallsAt(x, n) ==
    {[call |-> c, child |-> config[Join(x.dir, c.source)]] :
        c \in {y \in LocalCalls(x.dir, x.overrides) : <<y.name>> = n}}

CallsAlong(path) ==
    UNION {UNION {CallsAt(x, path[k]) : x \in Follow(Root, NoArgs, [i \in 1 .. k - 1 |-> path[i][1]])} :
             k \in DOMAIN path}

(* Somewhere along the path an argument was not read and the default of its *)
(* variable stands in for it.                                               *)
FellBack(path) ==
    \E s \in CallsAlong(path) : \E a \in DOMAIN s.call.args :
        /\ s.call.args[a] = NilVal
        /\ a \in DOMAIN varValues(Variables(s.child), NoArgs)

(* Some call along the path may have no instances.                          *)
Repeated(path) ==
    \E s \in CallsAlong(path) : \E d \in Dir : \E b \in ToSet(Blocks(config[d])) :
        b.pos = s.call.pos /\ {"count", "for_each"} \intersect DOMAIN b.attrs # {}

SaysUnknown(x) == \E u \in answer.Unknowns : u.block = x.block /\ u.path = x.path

(* What the answer leaves open: the permissions under attributes it names   *)
(* as unresolved.                                                           *)
LeftOpen(x) ==
    LET named == {u.attr : u \in {v \in answer.Unresolved : v.block = x.block /\ v.path = x.path}}
    IN  OfConditionals(x, LAMBDA when : DOMAIN when \intersect named # {})

SaysGuess(x) == \E g \in ToSet(result.template.diags) : g.pos = x.block /\ g.kind = "unresolved"

Finished == rpc = "done"

(***************************************************************************)
(* What is missing is announced.  Whatever an instance may need in some    *)
(* world is in the answer, or under an attribute that the answer names as  *)
(* unresolved, or the answer names the instance itself as unknown.         *)
(* Falling back on a default is left out: see UnreadArgumentSurfaces.      *)
(***************************************************************************)
Announced(x) ==
    IF Resolver!Found(cat, x) THEN MayNeed(x) \subseteq answer.TotalApplyPerms \union LeftOpen(x)
    ELSE SaysUnknown(x)

MissingIsAnnounced ==
    Finished => \A X \in Possible : \A x \in X : Announced(x) \/ FellBack(x.path)

(***************************************************************************)
(* What is reported is needed.  Every row of the account is an instance    *)
(* there is in every world, which may need all that the row asks for in    *)
(* that world, unless the tool says that it kept the block on a guess.     *)
(* Defaults that stand in for arguments are left out again, and the count  *)
(* of a module block, which the loader does not evaluate.                  *)
(***************************************************************************)
Asks(x) == Resolver!RowPlan(x) \union Resolver!RowApplyOnly(x)

ReportedIsNeeded ==
    Finished => \A X \in Possible : \A x \in ToSet(answer.Resources) :
        \/ SaysGuess(x) \/ FellBack(x.path) \/ Repeated(x.path)
        \/ \E y \in X : y.block = x.block /\ y.path = x.path /\ Asks(x) \subseteq MayNeed(y)

(***************************************************************************)
(* What the comment in buildModuleTemplate says of arguments that do not   *)
(* evaluate: that they cannot be folded into the child's context "and      *)
(* would surface as an unknown anyway".  Then what is missing is announced *)
(* where they are passed, too.                                             *)
(***************************************************************************)
UnreadArgumentSurfaces ==
    Finished => \A X \in Possible : \A x \in X :
        \/ Announced(x)
        \/ \E s \in CallsAlong(x.path) : \E g \in ToSet(result.template.diags) : g.pos = s.call.pos
=============================================================================
