---------------------------- MODULE ModuleLoader ----------------------------
(***************************************************************************)
(* internal/parser/parse.go, LoadRecursive and buildModuleTemplate: the    *)
(* recursive expansion of local module calls, with a cache of expanded     *)
(* templates and the detection of recursion.  The Go call stack is the     *)
(* variable frames; `stack' of the code is the directories of its frames.  *)
(* What a single directory amounts to is parseConfig's business, and comes *)
(* from ParseConfig.                                                       *)
(*                                                                         *)
(* Abstractions.  A position stands for (File, Line), so it is a number; a *)
(* call name is one too, and its characters are those of its Spelling.     *)
(***************************************************************************)
EXTENDS ParseConfig, SortedKeys

CONSTANTS
    Dir,        \* absolute directories, each a sequence of characters
    Root,       \* the directory LoadRecursive is given
    Name,       \* names of module calls
    Spelling,   \* map: name -> its characters, as codes
    Override,   \* the maps of arguments a directory may be expanded with
    Configs,    \* the file trees: [Dir -> directory]
    Nothing

NoArgs == <<>>

IsTree(c) == DOMAIN c = Dir /\ \A d \in Dir : IsDirectory(c[d])

Slash == 47     \* the code of "/", which no name of a call can hold

ASSUME NamesAssumption == Name \subseteq Nat
ASSUME SpellingAssumption ==
    /\ Spelling \in [Name -> Seq(Nat) \ {<<>>}]
    /\ \A n \in Name : Slash \notin ToSet(Spelling[n])
    /\ \A m, n \in Name : Spelling[m] = Spelling[n] => m = n
ASSUME NothingAssumption == Nothing \notin [dir: Dir, overrides: Override]
ASSUME ConfigsAssumption ==
    /\ Root \in Dir /\ NoArgs \in Override
    /\ \A c \in Configs :
         /\ IsTree(c)
         /\ \A d \in Dir :
              /\ Blocks(c[d]) \in Seq(ToSet(Blocks(c[d])))
              /\ \A b \in ToSet(Blocks(c[d])) :
                   /\ b.pos \in Nat /\ b.kind \in {"resource", "data", "module"}
                   /\ b.kind = "module" => b.name \in Name
         /\ \A d, e \in Dir : \A i \in DOMAIN Blocks(c[d]), j \in DOMAIN Blocks(c[e]) :
              Blocks(c[d])[i].pos = Blocks(c[e])[j].pos => d = e /\ i = j

(* An absolute path begins with a slash, a number does not; the text of a   *)
(* number or of a value (GoString) says which one it is.                    *)
ASSUME TextAssumption ==
    /\ IsFiniteSet(Dir) /\ Dir \subseteq Seq(STRING) /\ \A d \in Dir : d # <<>> /\ d[1] = "/"
    /\ \A d \in Dir : ToString(Len(d)) \in STRING \ {"/"}
    /\ \A d, e \in Dir : ToString(Len(d)) = ToString(Len(e)) => Len(d) = Len(e)
    /\ \A o \in Override :
         /\ o = [n \in DOMAIN o |-> o[n]]
         /\ IsFiniteSet(DOMAIN o) /\ DOMAIN o \subseteq STRING
         /\ \A n \in DOMAIN o : ToString(o[n]) \in STRING
         /\ \A p \in Override : \A n \in DOMAIN o \intersect DOMAIN p :
              ToString(o[n]) = ToString(p[n]) => o[n] = p[n]

Directories == UNION {{c[d] : d \in Dir} : c \in Configs}

(* Every directory with every arguments, parsed.                            *)
parsed == [d \in Directories |-> [o \in Override |-> parseConfig(d, o)]]

(* Where a call leads, and the arguments it passes on, are among the rest.  *)
ASSUME CallsAssumption ==
    \A c \in Configs, d \in Dir, o \in Override : \A call \in ToSet(parsed[c[d]][o].modules) :
        call.local => Join(d, call.source) \in Dir /\ literalOverrides(call) \in Override

VARIABLES
    config,     \* the file tree
    pc,         \* "enter" buildModuleTemplate, "loop" over calls, "return", "done"
    pending,    \* the arguments of the call being entered: [dir, overrides]
    frames,     \* activations of buildModuleTemplate, the innermost last
    ret,        \* what the call that just returned gave back
    cache,      \* map: cache key -> template
    result      \* what LoadRecursive returned, or Nothing

vars == <<config, pc, pending, frames, ret, cache, result>>

-----------------------------------------------------------------------------
(* The arguments as characters, in the order of their names.                *)
Rendered(overrides) ==
    FoldLeft(LAMBDA acc, n : acc \o <<"|", n, "=", ToString(overrides[n])>>,
             <<>>, SetToSeq(DOMAIN overrides))

(* Mutant: raw concatenation, without the length prefixes.                  *)
buildCacheKey_Raw(dir, overrides) ==
    IF overrides = NoArgs THEN dir ELSE dir \o Rendered(overrides)

(***************************************************************************)
(* buildCacheKey.  With overrides every component is length-prefixed, for  *)
(* a directory name may contain the bytes that separate components: here   *)
(* the directory followed by an argument could itself be a directory.      *)
(***************************************************************************)
buildCacheKey(dir, overrides) ==
    IF overrides = NoArgs THEN dir ELSE <<ToString(Len(dir))>> \o dir \o Rendered(overrides)

Parsed(dir, overrides) == parsed[config[dir]][overrides]

(* Where the calls of a directory stand, as ModuleCall names it.            *)
Sites(calls) == [i \in DOMAIN calls |-> [pos |-> calls[i].pos, path |-> <<>>]]

(* Mutant: sites are compared by the parts of their paths.                  *)
SiteLess_Parts(s, t) == s.pos < t.pos \/ (s.pos = t.pos /\ LexLess(s.path, t.path))

(* strings.Join(path, "/").  A "-" comes before "/", so that a-b/x comes    *)
(* before a/x although a comes before a-b.                                  *)
PathKey(path) ==
    LET led == FoldLeft(LAMBDA acc, n : acc \o <<Slash>> \o Spelling[n], <<>>, path)
    IN  SubSeq(led, 2, Len(led))

SiteLess(s, t) == s.pos < t.pos \/ (s.pos = t.pos /\ LexLess(PathKey(s.path), PathKey(t.path)))

(* Mutant: the call's name is put after the child's path.                   *)
Prefixed_After(rows, n) == [i \in DOMAIN rows |-> [rows[i] EXCEPT !.path = @ \o <<n>>]]

(* The instances of a template's rows below a call named n.                 *)
Prefixed(rows, n) == [i \in DOMAIN rows |-> [rows[i] EXCEPT !.path = <<n>> \o @]]

(* Appending the sites of a child, each site once.                          *)
AddSites(sites, more) ==
    FoldLeft(LAMBDA acc, s : IF s \in ToSet(acc) THEN acc ELSE Append(acc, s), sites, more)

(* sort.SliceStable by file, line and path: the site with k - 1 others      *)
(* before it comes to place k.                                              *)
SortSites(sites) ==
    LET Before(i, j) == \/ SiteLess(sites[i], sites[j])
                        \/ i < j /\ ~SiteLess(sites[j], sites[i])
    IN  [k \in DOMAIN sites |->
           sites[CHOOSE i \in DOMAIN sites : Cardinality({j \in DOMAIN sites : Before(j, i)}) = k - 1]]

-----------------------------------------------------------------------------
(* Mutant: the stack handed to children lacks the directory being expanded. *)
StackDirs_NotSelf == {frames[i].dir : i \in DOMAIN frames \ {Len(frames)}}

StackDirs == {frames[i].dir : i \in DOMAIN frames}
Top == frames[Len(frames)]
Key == buildCacheKey(pending.dir, pending.overrides)

Init ==
    /\ config \in Configs
    /\ pc = "enter"
    /\ pending = [dir |-> Root, overrides |-> NoArgs]
    /\ frames = <<>>
    /\ ret = Nothing
    /\ cache = <<>>
    /\ result = Nothing

Return(value) ==
    /\ ret' = value
    /\ pc' = "return"
    /\ pending' = Nothing

(* The cache is asked first, before the recursion check.                    *)
CacheHit ==
    /\ pc = "enter"
    /\ Key \in DOMAIN cache
    /\ Return([kind |-> "template", template |-> cache[Key]])
    /\ UNCHANGED <<config, frames, cache, result>>

(* Mutant: the cycle starts one frame too late.                             *)
CycleFrom_Late(i) == [j \in 1 .. Len(frames) - i |-> frames[i + j].dir] \o <<pending.dir>>

(* The directory is being expanded already: the cycle runs from its frame   *)
(* down to the bottom of the stack and back to it.                          *)
CycleFrom(i) == [j \in 1 .. Len(frames) - i + 1 |-> frames[i + j - 1].dir] \o <<pending.dir>>

CycleFound ==
    /\ pc = "enter"
    /\ Key \notin DOMAIN cache
    /\ \E i \in DOMAIN frames :
         /\ frames[i].dir = pending.dir
         /\ \A j \in 1 .. i - 1 : frames[j].dir # pending.dir
         /\ Return([kind |-> "cycle", cycle |-> CycleFrom(i)])
    /\ UNCHANGED <<config, frames, cache, result>>

(* FindTerraformFiles or parseConfig rejects the directory.                 *)
LoadFails ==
    /\ pc = "enter"
    /\ Key \notin DOMAIN cache
    /\ pending.dir \notin StackDirs
    /\ LoadError(config[pending.dir]) # "none"
    /\ Return([kind |-> LoadError(config[pending.dir])])
    /\ UNCHANGED <<config, frames, cache, result>>

Expand ==
    /\ pc = "enter"
    /\ Key \notin DOMAIN cache
    /\ pending.dir \notin StackDirs
    /\ LoadError(config[pending.dir]) = "none"
    /\ frames' = Append(frames,
         LET own == Parsed(pending.dir, pending.overrides)
         IN  [dir |-> pending.dir, overrides |-> pending.overrides,
              calls |-> own.modules, next |-> 1,
              template |-> [own EXCEPT !.modules = Sites(@)]])
    /\ pending' = Nothing
    /\ pc' = "loop"
    /\ UNCHANGED <<config, ret, cache, result>>

CurrentCall == Top.calls[Top.next]

AtCall == pc = "loop" /\ Top.next <= Len(Top.calls)

(* Mutant: the index is advanced twice.                                     *)
Resume_Twice(template) ==
    frames' = [frames EXCEPT ![Len(frames)].next = @ + 2, ![Len(frames)].template = template]

(* The innermost activation goes on with its next call and this template.   *)
Resume(template) ==
    frames' = [frames EXCEPT ![Len(frames)].next = @ + 1, ![Len(frames)].template = template]

SkipNonLocal ==
    /\ AtCall
    /\ ~CurrentCall.local
    /\ Resume(Top.template)
    /\ UNCHANGED <<config, pc, pending, ret, cache, result>>

EnterCall ==
    /\ AtCall
    /\ CurrentCall.local
    /\ pending' = [dir |-> Join(Top.dir, CurrentCall.source),
                   overrides |-> literalOverrides(CurrentCall)]
    /\ pc' = "enter"
    /\ UNCHANGED <<config, frames, ret, cache, result>>

Returned == pc = "return" /\ frames # <<>>

Warned(diag) == [Top.template EXCEPT !.diags = Append(@, diag)]

(* Mutant: the call that recursed is tried again.                           *)
WarnCycle_Retry ==
    /\ Returned
    /\ ret.kind = "cycle"
    /\ UNCHANGED frames
    /\ ret' = Nothing
    /\ pc' = "loop"
    /\ UNCHANGED <<config, pending, cache, result>>

WarnCycle ==
    /\ Returned
    /\ ret.kind = "cycle"
    /\ Resume(Warned(Diag("cycle", CurrentCall.pos, ret.cycle)))
    /\ ret' = Nothing
    /\ pc' = "loop"
    /\ UNCHANGED <<config, pending, cache, result>>

(* Mutant: a module that cannot be loaded is passed over without a word.    *)
WarnLoad_Silent ==
    /\ Returned
    /\ ret.kind \in {"walk", "parse"}
    /\ Resume(Top.template)
    /\ ret' = Nothing
    /\ pc' = "loop"
    /\ UNCHANGED <<config, pending, cache, result>>

WarnLoad ==
    /\ Returned
    /\ ret.kind \in {"walk", "parse"}
    /\ Resume(Warned(Diag("load", CurrentCall.pos, <<>>)))
    /\ ret' = Nothing
    /\ pc' = "loop"
    /\ UNCHANGED <<config, pending, cache, result>>

(* Mutant: the child's rows are put before those gathered so far.           *)
Instantiate_Before ==
    /\ Returned
    /\ ret.kind = "template"
    /\ LET t == Top.template
           child == ret.template
           n == CurrentCall.name
       IN  Resume([resources |-> Prefixed(child.resources, n) \o t.resources,
                   modules |-> AddSites(t.modules, Prefixed(child.modules, n)),
                   diags |-> t.diags \o child.diags])
    /\ ret' = Nothing
    /\ pc' = "loop"
    /\ UNCHANGED <<config, pending, cache, result>>

(* The child's rows, below the call's name; its warnings as they are.       *)
Instantiate ==
    /\ Returned
    /\ ret.kind = "template"
    /\ LET t == Top.template
           child == ret.template
           n == CurrentCall.name
       IN  Resume([resources |-> t.resources \o Prefixed(child.resources, n),
                   modules |-> AddSites(t.modules, Prefixed(child.modules, n)),
                   diags |-> t.diags \o child.diags])
    /\ ret' = Nothing
    /\ pc' = "loop"
    /\ UNCHANGED <<config, pending, cache, result>>

Put(m, k, v) == [x \in DOMAIN m \union {k} |-> IF x = k THEN v ELSE m[x]]

(* The modules are sorted and the template is cached, even one that lacks   *)
(* a call skipped as a recursion.                                           *)
CloseModule ==
    /\ pc = "loop"
    /\ Top.next > Len(Top.calls)
    /\ LET t == [Top.template EXCEPT !.modules = SortSites(@)]
       IN  /\ cache' = Put(cache, buildCacheKey(Top.dir, Top.overrides), t)
           /\ ret' = [kind |-> "template", template |-> t]
    /\ frames' = SubSeq(frames, 1, Len(frames) - 1)
    /\ pc' = "return"
    /\ UNCHANGED <<config, pending, result>>

(* The outermost call has returned: a template, or the root's own error.    *)
Finish ==
    /\ pc = "return"
    /\ frames = <<>>
    /\ result' = ret
    /\ pc' = "done"
    /\ UNCHANGED <<config, pending, frames, ret, cache>>

Next ==
    \/ CacheHit \/ CycleFound \/ LoadFails \/ Expand
    \/ SkipNonLocal \/ EnterCall
    \/ WarnCycle \/ WarnLoad \/ Instantiate
    \/ CloseModule \/ Finish

(* One goroutine that nothing blocks.                                       *)
Spec == Init /\ [][Next]_vars /\ WF_vars(Next)
-----------------------------------------------------------------------------
IsRow(row) ==
    /\ row.kind \in {"resource", "data"} /\ row.block \in Nat /\ row.path \in Seq(Name)
    /\ DOMAIN row.reasons = {a \in DOMAIN row.attrs : row.attrs[a] = NilVal}
    /\ row.preventDestroy \in BOOLEAN

SiteRow == [pos: Nat, path: Seq(Name)]
Warning == [kind: {"non-local", "unresolved", "cycle", "load"}, pos: Nat, cycle: Seq(Dir)]

IsTemplate(t) ==
    /\ \A row \in ToSet(t.resources) : IsRow(row)
    /\ t.modules \in Seq(SiteRow) /\ t.diags \in Seq(Warning)

(* Type of every variable: what is cached and returned are templates, a     *)
(* call is pending just when one is being entered, and an activation is at  *)
(* a call of its directory while a callee runs.                             *)
TypeOK ==
    /\ IsTree(config)
    /\ pc \in {"enter", "loop", "return", "done"}
    /\ (pc = "enter") = (pending # Nothing)
    /\ pc = "enter" => pending \in [dir: Dir, overrides: Override]
    /\ pc = "loop" => frames # <<>>
    /\ \A i \in DOMAIN frames :
         /\ frames[i].dir \in Dir /\ frames[i].overrides \in Override
         /\ frames[i].calls = Parsed(frames[i].dir, frames[i].overrides).modules
         /\ frames[i].next \in 1 .. Len(frames[i].calls) + (IF pc = "loop" /\ i = Len(frames) THEN 1 ELSE 0)
         /\ IsTemplate(frames[i].template)
    /\ \A k \in DOMAIN cache : IsTemplate(cache[k])
    /\ pc = "return" => ret.kind \in {"template", "cycle", "walk", "parse"}
    /\ pc = "return" /\ ret.kind = "template" => IsTemplate(ret.template)

(***************************************************************************)
(* No directory is expanded inside itself, whatever arguments change on    *)
(* the way ("pretending otherwise would let pathological fixtures recurse  *)
(* indefinitely", parse.go).                                               *)
(***************************************************************************)
NoNestedExpansion ==
    \A i, j \in DOMAIN frames : frames[i].dir = frames[j].dir => i = j

(* Loading ends, in recursive configurations too.                           *)
Terminates == <>(pc = "done")

-----------------------------------------------------------------------------
(* What the file tree itself says, without a stack or a cache.  Following a *)
(* module path from a directory gives the places it may lead to; `seen' is  *)
(* what lies on the way.                                                    *)
Loads(d) == LoadError(config[d]) = "none"

LocalCalls(d, o) == {c \in ToSet(Parsed(d, o).modules) : c.local}

Children(x, n) ==
    {[dir |-> Join(x.dir, c.source), overrides |-> literalOverrides(c),
      seen |-> x.seen \union {Join(x.dir, c.source)}] :
        c \in {d \in LocalCalls(x.dir, x.overrides) : d.name = n /\ Loads(Join(x.dir, d.source))}}

Place(d, o) == [dir |-> d, overrides |-> o, seen |-> {d}]

Follow(d, o, path) ==
    FoldLeft(LAMBDA X, n : UNION {Children(x, n) : x \in X}, {Place(d, o)}, path)

(* The template of a directory as if it were the root: every block reached  *)
(* by a path that comes by no directory twice.                              *)
Paths == UNION {[1 .. n -> Name] : n \in 0 .. Cardinality(Dir) - 1}

Own(d, o) == ToSet(Parsed(d, o).resources)

AsRoot(d, o) ==
    UNION {UNION {{[b EXCEPT !.path = p] : b \in Own(x.dir, x.overrides)} :
                     x \in {y \in Follow(d, o, p) : Cardinality(y.seen) = Len(p) + 1}} :
              p \in Paths}

Edges ==
    UNION {UNION {{<<d, Join(d, c.source)>> : c \in LocalCalls(d, o)} : o \in Override} :
              d \in {x \in Dir : Loads(x)}}

Recursive ==
    \E n \in 1 .. Cardinality(Dir) : \E walk \in [1 .. n + 1 -> Dir] :
        walk[1] = walk[n + 1] /\ \A i \in 1 .. n : <<walk[i], walk[i + 1]>> \in Edges

(* Terraform wants the calls of one module to have different names; the     *)
(* loader does not insist.  Names are then numbered in source order.        *)
InSourceOrder ==
    \A d \in Dir :
        LET calls == Parsed(d, NoArgs).modules
        IN  \A i, j \in DOMAIN calls : i < j => calls[i].name < calls[j].name

Ok == pc = "done" /\ result.kind = "template"

(***************************************************************************)
(* What LoadRecursive's cache holds, for a tree without recursion: each    *)
(* template is what the directory would give as the root with the same     *)
(* arguments, however the calls that share it are ordered.                 *)
(***************************************************************************)
CacheIsExact ==
    pc = "done" /\ ~Recursive =>
        \A d \in Dir, o \in Override :
            buildCacheKey(d, o) \in DOMAIN cache =>
                ToSet(cache[buildCacheKey(d, o)].resources) = AsRoot(d, o)

(***************************************************************************)
(* What the doc comments say of every tree: cached entries "store the      *)
(* result as if the module were the root config", and "resources are       *)
(* duplicated for each call site of a module".  Then every path that comes *)
(* by no directory twice has its blocks in the answer.                     *)
(***************************************************************************)
DuplicatedPerCallSite ==
    Ok /\ InSourceOrder => AsRoot(Root, NoArgs) \subseteq ToSet(result.template.resources)

(***************************************************************************)
(* Every row LoadRecursive returns is a block that the module path printed *)
(* with it leads to, kept under the arguments passed along that path.      *)
(***************************************************************************)
InstancesAreReal ==
    Ok => \A row \in ToSet(result.template.resources) :
              \E x \in Follow(Root, NoArgs, row.path) :
                  [row EXCEPT !.path = <<>>] \in Own(x.dir, x.overrides)

(***************************************************************************)
(* Nothing is missing without a word.  Wherever a returned path leads, each *)
(* module call there is either expanded below that path or warned about;   *)
(* and only the root's own failure is an error.  (Two calls of one name    *)
(* share a path, which then does not say which of them was expanded, and a *)
(* child without a block of its own need not show.)                        *)
(***************************************************************************)
Answered(x, c, path) ==
    \/ /\ c.local /\ Loads(Join(x.dir, c.source))
       /\ Own(Join(x.dir, c.source), literalOverrides(c)) = {}
    \/ \E row \in ToSet(result.template.resources) : row.path = Append(path, c.name)
    \/ \E g \in ToSet(result.template.diags) :
         g.pos = c.pos /\ g.kind \in {"cycle", "load", "non-local"}

EveryCallAnswered ==
    pc = "done" =>
        /\ (result.kind = "template") = Loads(Root)
        /\ Ok /\ InSourceOrder =>
                \A row \in ToSet(result.template.resources) :
                    \A x \in Follow(Root, NoArgs, row.path) :
                        \A c \in ToSet(Parsed(x.dir, x.overrides).modules) : Answered(x, c, row.path)

(***************************************************************************)
(* The order the doc comment promises: the blocks of a module before those *)
(* of its calls, the calls in source order; and no instance twice.         *)
(***************************************************************************)
DepthFirstOrder ==
    Ok /\ InSourceOrder =>
        LET rows == result.template.resources
        IN  \A i, j \in DOMAIN rows : i < j =>
                LexLess(rows[i].path, rows[j].path)
                  \/ (rows[i].path = rows[j].path /\ rows[i].block # rows[j].block)

(* The module calls are listed once per site and instance, in order of      *)
(* position and of the path as it is printed, even when two calls share a   *)
(* name.                                                                    *)
ModulesInOrder ==
    Ok => LET sites == result.template.modules
          IN  \A i, j \in DOMAIN sites : i < j =>
                \/ sites[i].pos < sites[j].pos
                \/ /\ sites[i].pos = sites[j].pos
                   /\ LexLess(PathKey(sites[i].path), PathKey(sites[j].path))

(* A reported cycle is one: it starts and ends with one directory and each  *)
(* step is a call.                                                          *)
CyclesAreReal ==
    pc = "done" => \A k \in DOMAIN cache : \A g \in ToSet(cache[k].diags) :
        g.kind = "cycle" =>
            /\ Len(g.cycle) >= 2 /\ g.cycle[1] = g.cycle[Len(g.cycle)]
            /\ \A i \in 1 .. Len(g.cycle) - 1 : <<g.cycle[i], g.cycle[i + 1]>> \in Edges

=============================================================================
