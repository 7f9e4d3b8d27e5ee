----------------------------- MODULE ParseConfig -----------------------------
(***************************************************************************)
(* internal/parser below the module loader: which files of a directory are *)
(* read (walker.go), what its variables and locals are worth (evalctx.go), *)
(* what count, for_each and lifecycle say of a block (metaargs.go), what   *)
(* its attributes are worth or why they are not known (attrs.go), and what *)
(* parseConfig makes of it all (parse.go).                                 *)
(*                                                                         *)
(* Abstractions.  An expression is a literal, a reference, a function call *)
(* or a conditional with these as its parts, whose branches have one type. *)
(* A value is a record [t, v]: a number is an integer, a collection its    *)
(* length, a string a sequence of words; that default values are not       *)
(* converted to the type of their variable is left to the values.  A block *)
(* is known by its position, a number that stands for (File, Line).        *)
(***************************************************************************)
EXTENDS Integers, Sequences, SequencesExt, FiniteSets

CONSTANTS
    NilVal,         \* cty.NilVal, "did not resolve"
    Join(_, _)      \* filepath.Join of a directory and a relative source

(* A Go map without the keys that have no value.                            *)
Known(m) == [k \in {x \in DOMAIN m : m[x] # NilVal} |-> m[k]]

-----------------------------------------------------------------------------
(* HCL expressions, records with an op: lit (value); var, local, data or    *)
(* resource (name), a reference; call (name); if (cond, then, else); none,  *)
(* where there is no expression.  A context has a map for each kind of name *)
(* it can look up.                                                          *)
NoContext == <<>>
None == [op |-> "none", name |-> "none"]

Atoms(e) == IF e.op = "if" THEN {e.cond, e.then, e.else} ELSE {e}

InScope(e, ctx) == e.op \in DOMAIN ctx /\ e.name \in DOMAIN ctx[e.op]

AtomValue(e, ctx) ==
    IF e.op = "lit" THEN e.value ELSE IF InScope(e, ctx) THEN ctx[e.op][e.name] ELSE NilVal

(* A condition may be a string that reads as a boolean.                     *)
AsCondition(v) ==
    IF v = NilVal THEN NilVal
    ELSE IF v.t = "bool" THEN v.v
    ELSE IF v.t = "string" /\ v.v \in {<<"true">>, <<"1">>} THEN TRUE
    ELSE IF v.t = "string" /\ v.v \in {<<"false">>, <<"0">>} THEN FALSE
    ELSE NilVal

(* Only the branch taken has to have a value.                               *)
resolveExpr(e, ctx) ==
    IF e.op # "if" THEN AtomValue(e, ctx)
    ELSE LET c == AsCondition(AtomValue(e.cond, ctx))
         IN  IF c = NilVal THEN NilVal ELSE AtomValue(IF c THEN e.then ELSE e.else, ctx)

Mentions(e, op) == \E a \in Atoms(e) : a.op = op

isMissingTraversal(a, ctx) == a.op = "var" /\ ~InScope(a, ctx)

(* What the expression contains decides, in the branch taken or not.        *)
classifyReason(e, ctx) ==
    IF Mentions(e, "call") THEN "function_call"
    ELSE IF Mentions(e, "data") THEN "data_source"
    ELSE IF \E a \in Atoms(e) : isMissingTraversal(a, ctx) THEN "missing_variable"
    ELSE "other"

-----------------------------------------------------------------------------
(* A directory is whether it can be listed, and its entries in the order of *)
(* their names; the contents of a file are whether it reads, parses and     *)
(* fits the schema, and its declarations.                                   *)
IsEntry(f) ==
    /\ f.name # <<>> /\ f.mode \in {"file", "dir", "symlink"}
    /\ f.valid \in BOOLEAN

IsDirectory(d) ==
    /\ d.listed \in BOOLEAN
    /\ \A i \in DOMAIN d.entries : IsEntry(d.entries[i])

(* The name is looked at, and the mode of the entry itself.                 *)
FindTerraformFiles(d) ==
    SelectSeq(d.entries, LAMBDA f : f.name[1] # "." /\ f.mode = "file" /\ Last(f.name) = ".tf")

(* The declarations of one kind in all files, in the order of the files.    *)
Gather(d, kind) ==
    FoldLeft(LAMBDA acc, f : acc \o f[kind], <<>>, FindTerraformFiles(d))

(* collectDecls: of several declarations of a name the first one counts.    *)
FirstDecls(decls) ==
    FoldLeft(LAMBDA acc, d : [n \in DOMAIN acc \union {d.name} |-> IF n \in DOMAIN acc THEN acc[n] ELSE d.expr],
             <<>>, decls)

Variables(d) == FirstDecls(Gather(d, "variables"))
LocalDecls(d) == FirstDecls(Gather(d, "locals"))

(* A declared variable is worth the argument of the call, else its default. *)
varValues(decls, overrides) ==
    Known([n \in DOMAIN decls |->
             IF n \in DOMAIN overrides THEN overrides[n] ELSE resolveExpr(decls[n], NoContext)])

(* The passes over the locals.  A pass that has found all it can changes    *)
(* nothing, and there are at most as many others as locals (Locals is about *)
(* how they end).                                                           *)
Pass(decls, ctx) == [ctx EXCEPT !.local = Known([n \in DOMAIN decls |-> resolveExpr(decls[n], ctx)])]

buildEvalContext(d, overrides) ==
    LET decls == LocalDecls(d)
    IN  FoldLeft(LAMBDA ctx, i : Pass(decls, ctx),
                 [var |-> varValues(Variables(d), overrides), local |-> <<>>],
                 [i \in 1 .. Cardinality(DOMAIN decls) |-> i])

-----------------------------------------------------------------------------
(* Blocks: [kind, type, name, pos, attrs, lifecycle], attrs a map from      *)
(* names to expressions, lifecycle the prevent_destroy of each such block.  *)

(* Mutant: a count that has no value counts as zero.                        *)
evalCount_Zero(e, ctx) ==
    LET v == resolveExpr(e, ctx)
        read == v # NilVal /\ v.t = "number"
    IN  [keep |-> read /\ v.v > 0, warn |-> FALSE]

(* Mutant: a count of zero keeps the block.                                 *)
evalCount_KeepZero(e, ctx) ==
    LET v == resolveExpr(e, ctx)
        read == v # NilVal /\ v.t = "number"
    IN  [keep |-> read => v.v >= 0, warn |-> ~read]

(* keep: whether the block has instances; warn: whether that is a guess.    *)
evalCount(e, ctx) ==
    LET v == resolveExpr(e, ctx)
        read == v # NilVal /\ v.t = "number"
    IN  [keep |-> read => v.v > 0, warn |-> ~read]

Collections == {"object", "map", "list", "set", "tuple"}

isEmptyForEach(v) == v.v = 0

evalForEach(e, ctx) ==
    LET v == resolveExpr(e, ctx)
        read == v # NilVal /\ v.t \in Collections
    IN  [keep |-> read => ~isEmptyForEach(v), warn |-> ~read]

(* Only what is written out as true: variables are not looked up.           *)
literalPreventDestroy(e) ==
    LET v == resolveExpr(e, NoContext) IN v # NilVal /\ v.t = "bool" /\ v.v

(* Both meta-arguments are evaluated, each warns for itself, and either may *)
(* drop the block.  The last lifecycle block counts.                        *)
evalMetaArgs(blk, ctx) ==
    LET given == {"count", "for_each"} \intersect DOMAIN blk.attrs
        answer == [m \in given |-> IF m = "count" THEN evalCount(blk.attrs[m], ctx)
                                   ELSE evalForEach(blk.attrs[m], ctx)]
    IN  [keep |-> \A m \in given : answer[m].keep,
         warnings |-> Cardinality({m \in given : answer[m].warn}),
         preventDestroy |-> blk.lifecycle # <<>> /\ literalPreventDestroy(Last(blk.lifecycle))]

metaArgs == {"provider", "depends_on", "count", "for_each"}

extractAttrs(blk, ctx) ==
    LET attrs == [a \in DOMAIN blk.attrs \ metaArgs |-> resolveExpr(blk.attrs[a], ctx)]
    IN  [attrs |-> attrs,
         reasons |-> [a \in {x \in DOMAIN attrs : attrs[x] = NilVal} |-> classifyReason(blk.attrs[a], ctx)]]

(* classifySource, as far as the loader asks: "./" or "../" comes first.    *)
IsLocal(source) == source # <<>> /\ source[1] \in {"./", "../"}

(* A source that is not a string with a value is the empty string.          *)
extractModule(blk, ctx) ==
    LET attrs == extractAttrs(blk, ctx).attrs
        given == "source" \in DOMAIN attrs /\ attrs["source"] # NilVal /\ attrs["source"].t = "string"
        source == IF given THEN attrs["source"].v ELSE <<>>
    IN  [name |-> blk.name, pos |-> blk.pos, source |-> source, local |-> IsLocal(source),
         args |-> [a \in DOMAIN attrs \ {"source"} |-> attrs[a]]]

(* literalOverrides: the arguments of a call that have a value.             *)
literalOverrides(call) == Known(call.args)

Diag(kind, pos, cycle) == [kind |-> kind, pos |-> pos, cycle |-> cycle]

AsResource(blk, x, meta) ==
    [kind |-> blk.kind, type |-> blk.type, block |-> blk.pos, path |-> <<>>,
     attrs |-> x.attrs, reasons |-> x.reasons, preventDestroy |-> meta.preventDestroy]

WithDiags(cfg, n, diag) == [cfg EXCEPT !.diags = @ \o [i \in 1 .. n |-> diag]]

(* A module block is a call, and warned about if it leads out of the tree.  *)
AddModule(cfg, blk, call) ==
    WithDiags([cfg EXCEPT !.modules = Append(@, call)],
              IF call.local THEN 0 ELSE 1, Diag("non-local", blk.pos, <<>>))

(* Any other block is a resource if its meta-arguments keep it.             *)
AddBlock(cfg, blk, x, meta) ==
    WithDiags([cfg EXCEPT !.resources = IF meta.keep THEN Append(@, AsResource(blk, x, meta)) ELSE @],
              meta.warnings, Diag("unresolved", blk.pos, <<>>))

(* The files come sorted by name, and so do their blocks by (File, Line).   *)
Blocks(d) == Gather(d, "blocks")

(* parseConfig on the files of d, with the arguments of the call.           *)
parseConfig(d, overrides) ==
    LET ctx == buildEvalContext(d, overrides)
        Add(cfg, b) == IF b.kind = "module" THEN AddModule(cfg, b, extractModule(b, ctx))
                       ELSE AddBlock(cfg, b, extractAttrs(b, ctx), evalMetaArgs(b, ctx))
    IN  FoldLeft(Add, [resources |-> <<>>, modules |-> <<>>, diags |-> <<>>], Blocks(d))

(* Why d does not load: the walker has the first word.                      *)
LoadError(d) ==
    IF ~d.listed \/ FindTerraformFiles(d) = <<>> THEN "walk"
    ELSE IF \E i \in DOMAIN FindTerraformFiles(d) : ~FindTerraformFiles(d)[i].valid THEN "parse"
    ELSE "none"
=============================================================================
