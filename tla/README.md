# A verification of tfperms in TLA+

tfperms reads a Terraform configuration, looks every resource and data block
up in a catalog of Google Cloud permissions that is compiled into the binary,
and prints the permissions that `terraform plan` and `terraform apply` need.
An answer that lacks a permission fails somebody's deployment, and one that
has too many is a role that is too wide. This directory holds models of the
program in TLA+, the instances on which TLC checks them, and proofs checked
with TLAPS.

Every line number in `PROJECT.json` and in this file is one of the repository
beside this directory; a module's header says which functions it models and
what it abstracts from.

## 1. Inventory

The program is sequential: one goroutine, no timers, no network. What is hard
about it is not concurrency within the process but long runs of small steps on
shared data: two accounts of one total that must agree, a cache that is filled
while a recursion is under way, lists that must not depend on the order of a Go
map, and errors that must reach the exit code. The one place where processes
meet is `tfperms catalog scaffold`, which rewrites a file without a lock.

| component | state | operations | what makes it correct |
|---|---|---|---|
| **parser: recursive module loader** (`internal/parser/parse.go`) | the template cache, the recursion stack, the template being built on each level | `LoadRecursive`, `buildModuleTemplate` and its call loop | expansion ends; an instance is what its module path leads to; nothing is missing without a warning; the cache gives what expansion would |
| **parser: evaluation context** (`evalctx.go`) | variable values, locals resolved so far, Tarjan's arrays | the passes of `buildEvalContext`, `findCycleDiagnostics`, `tarjanSCC` | the least solution of the locals; exactly the cycles are reported; both loops end |
| **parser: meta-arguments** (`metaargs.go`) | a verdict per block: kept or not, `prevent_destroy` | `count`, `for_each`, `lifecycle`, `dynamic` | a block is dropped only if Terraform would create nothing |
| **parser: attributes and reasons** (`attrs.go`) | none | expression to value or reason | an attribute that cannot be read is `NilVal` with a reason, never a wrong value |
| **parser: file discovery** (`walker.go`) | none | list a directory | every `.tf` file once; a directory without one is an error |
| **catalog: types** (`catalog.go`) | none | none | – |
| **catalog: loader and validator** (`loader.go`, `validator.go`) | the catalog being merged, where each entry was first seen | `LoadFS`, `mergeFile`, `validate` | all of the directory or nothing; the first error, always the same one |
| **catalog: scaffold** (`scaffold.go`) | one YAML file, shared with other processes | `Scaffold`, `CheckDuplicate`, `writeOrMerge` | one entry is added, or a reason given and the file left alone |
| **catalog: statistics** (`stats.go`) | counters and lists filled in a walk over Go maps | `ComputeStats`: services, oldest verifications, missing provenance, drift with `satisfiesConstraint` and what it calls | tables that do not depend on the order of the maps; what is still a placeholder is listed; an entry is reported if its constraint excludes the version |
| **catalog: version census** (`versions.go`) | counters | `AggregateVersions` | counts add up, one order |
| **catalog: embedded data** (`catalog/`) | YAML | none | it passes the validator |
| **resolver** (`internal/resolver/resolver.go`) | running permission sets, maps of unknowns and unresolved attributes, the account per resource | `Resolve` and what it calls | the union of what the catalog asks for, a warning wherever the configuration leaves it open, and two accounts that agree |
| **reporter: order, grouping, annotation, JSON** (`reporter.go`, `by_resource.go`, `json.go`) | sorted rows, groups under construction | `Canonicalize`, `groupByType`, `unionResourcePerms` | all formats say the same, in an order that depends on nothing but content |
| **reporter: custom role** (`role.go`) | none | print | – |
| **command line** (`cmd/tfperms/main.go`) | flags, the latched write error | `PreRunE`, `runAnalyze`, `errWriter`, `run` | the exit code and stdout together tell what happened |
| **command line: catalog subcommands** (`catalog.go`) | flags | `stats`, `versions`, `scaffold` | as above |

**How they interact.** `runAnalyze` calls, one after the other,
`parser.LoadRecursive`, `catalog.Load`, `resolver.Resolve` and one renderer.
The parser hands over a list of instances, one for each block and each path of
module calls that leads to it; the catalog hands over three maps; the resolver
reads both and never changes them. Data flows one way, with no callback. An
error ends the pipeline and is turned into an exit code; a diagnostic is carried
along and printed. The catalog subcommands use the catalog package alone, and
`scaffold` writes to the source tree, for a later build to embed.

**What is hard**, with the line where it bites and the property aimed at it,
is the list `hazards` of `PROJECT.json`. In short:

- *stale state*: a template cached inside a recursion; arguments confused in a
  cache key; two call sites sharing a template (loader);
- *two accounts*: totals and per-resource rows kept in step by a comment
  (resolver), and renderers that each read a different one (reporter);
- *ordering*: Go maps iterated where order could show, an unstable sort, the
  first of several errors, annotations noted by whichever instance comes first;
- *iteration to a fixed point* over declarations in any order, with cycles;
- *several processes and crashes* on a catalog file;
- *partial failure*: a child module that cannot be read, a bad file after good
  ones, a stdout that fails in the middle;
- *what cannot be known*: data sources, functions, root variables without a
  default. What a block needs may depend on them through two calls, a count and
  a conditional, and has to surface as a warning or an unknown;
- *numeric edges* in counts that are zero, negative or no number, and in versions
  of different lengths and wildcards.

## 2. The modules and the code

| module | models | correspondence |
|---|---|---|
| `ResolverInput` | data types of `catalog.go`, `lookupEntry`, the projections of the three sections, `ctyValueEqualsLiteral`, `encodeModulePath` | pure operators with the source's names |
| `Resolver` | `Resolve` | a variable for each local variable of the function, an action for each branch of its two loops: `SkipKind`, `RecordUnknown`, `OpenResource`, `ApplyConditional`, `ReportMissing`, `RejectConditional`, `CloseResource`, `Finish` |
| `RequiredPermissions` | what `Resolve` promises | one action, `Answer`; no order, no running state |
| `ParseConfig` | `FindTerraformFiles`, `collectDecls`, the values of `buildEvalContext`, `evalMetaArgs`, `extractAttrs`, `classifyReason`, `extractModule`, `parseConfig` | pure operators with the source's names, on small expressions |
| `ModuleLoader` | `LoadRecursive`, `buildModuleTemplate`, `buildCacheKey` | extends `ParseConfig`; the Go call stack is the variable `frames`; `CacheHit`, `CycleFound`, `LoadFails` and `Expand` are the early returns of `buildModuleTemplate` in their order, `SkipNonLocal`, `EnterCall`, `WarnCycle`, `WarnLoad` and `Instantiate` the body of its loop, `CloseModule` what follows it |
| `ModuleLoaderProofs` | – | theorems about `ModuleLoader` and, as lemmas, about `parseConfig` |
| `Pipeline` | `runAnalyze` from `LoadRecursive` to `Resolve` | composes `ModuleLoader` and an instance of `Resolver`; `StartResolve` hands the template of the root over. The truth it is compared with, `TrueInstances`, is Terraform's reading of the same files |
| `PipelineProofs` | – | theorems about `Pipeline` |
| `Locals` | `buildEvalContext`, `findCycleDiagnostics`, `tarjanSCC` | a pass over the locals is one action; the search has one action for each branch of the iterative algorithm, which keeps its own stack of frames |
| `LocalsProofs` | – | theorems about `Locals` |
| `CatalogEntries` | one catalog file, `GenerateStub`, `mergeIntoDocument` | operators on texts |
| `CatalogFile` | what scaffold promises | `Add` and `Refuse`, both atomic; `Disturb`, the step from which on nothing is promised but an answer |
| `Scaffold` | `Scaffold`, `CheckDuplicate`, `writeOrMerge`, `os.WriteFile` | a process for each command, an action for each system call that another process can come before or after |
| `SortedKeys` | `sortedKeys`, the collect-and-sort done by hand elsewhere, `sort.SliceStable`, `sort.Slice` | three operators, by counting what comes before an item: there is no recursion in them, so that they can be proved about; and `LexLess`, Go's order on strings and the lexical order on fields compared one after the other |
| `ListProofs` | – | that they sort, and counting by classes |
| `FoldProofs` | – | induction along a fold |
| `CatalogSchema` | the entries, `GenerateStub`, the checks of `validator.go` that look at one entry | pure operators with the source's names |
| `CatalogLoad` | `LoadFS`, `mergeFile`, `validate` | extends `CatalogSchema`; one action for each file read and each entry merged or validated |
| `CatalogStats` | `ComputeStats` without drift, `AggregateVersions` | composed with `CatalogLoad`: it walks the catalog that was loaded, `Visit` taking the entries of each map in any order, and `Sort` sorts and cuts the tables |
| `CatalogProofs` | – | theorems about `CatalogLoad`, `CatalogStats` and `Drift` |
| `Report` | `Canonicalize`, `groupByType`, `unionResourcePerms` | composed with `Resolver`: it works on what `Resolve` returned. `IsOrder` lets `sort.Slice` leave ties in any order |
| `ReportProofs` | – | theorems about `Resolver` and `Report`, and that `Resolver` implements `RequiredPermissions` |
| `Drift` | `satisfiesConstraint`, `parseVersion`, `compareVersions`, `versionHasPrefix`, `computeDrifting` | one action for each way a clause is settled |
| `Cli` | `newRootCmd`, `runAnalyze`, `errWriter`, `run`, the subcommands | one invocation, from its flags to its exit code |
| `CommandProofs` | – | theorems about `Scaffold` and `Cli`, and that scaffold commands implement `CatalogFile` |
| `MC…` | – | the instances TLC is given |

A definition whose name has an underscore and a word at the end
(`buildCacheKey_Raw`) is a mutant: a plausible bug, used to show that a property
can fail. No behaviour uses one.

**Abstractions.** Permission strings, types, attribute names and source
positions are model values; lists that the code only unions, subtracts and sorts
are sets, and a lexical order is a rank, that of the whole string. Where a string that is compared
is put together from parts, it is a sequence of character codes: the module paths of the loader,
joined by slashes (`PathKey`), and the field of a provenance issue with its index in decimal
(`FieldKey`), so that `app-canary/bucket` comes before `app/bucket`, and `plan[10]` before `plan[2]`. Beyond that:

- *Values.* The resolver compares an attribute with a literal of the catalog and
  does nothing else with it, so values are records of a type and a content, and
  the instances have one of each type with a different comparison.
- *Directories* of the loader are entries with a name and a mode; what a file holds is
  whether it parses, and its declarations and blocks. An *expression* is a literal, a
  reference, a function call, or a conditional of these: what `resolveExpr` and
  `classifyReason` tell apart. A *value* is a type and a content, a collection its
  length. A default is not converted to the type of its variable, as in the code
  (`evalctx.go:26`). The warnings for cyclic locals are those of `Locals`; the
  evaluation of locals here is the passes it stands for. A failing `filepath.Abs` is
  left out.
- *Expressions* of `Locals` are the names they need, and those they mention.
- *Worlds* of `Pipeline` fix what the tool cannot know: what data sources, other resources
  and functions give, and the variables of the root without a default. A root variable with
  a default has it: `tfvars` files are not read (`docs/tfperms_pdr.md:279`). A configuration
  that Terraform would reject in a world (a value missing or of the wrong type, both `count`
  and `for_each`, two lifecycle blocks) says nothing there, nor does a tree with a recursion
  anywhere. The blocks of registry modules, which are not in the tree, are not counted. The catalog is given, since
  `CatalogLoad` shows that it comes out whole or not at all.
- *Catalog texts* of scaffold are headings and the types under them. A blank
  file is empty, a torn one unreadable. `os.WriteFile` is a truncating open and
  one write: another process may come between, and a write over somebody else's
  longer text is unreadable.
- *Catalog files* that the strict decoder refuses, an empty one among them, are one
  kind, and so are such entries. Of other entries every field is there; its strings
  are `TODO`, blank or something else, a date and a constraint is the rank of its text,
  an HCL identifier is a member of a set.
- *Tables* of `CatalogStats`: the code walks the catalog once for each, and the model
  once for all, since no table reads another.
- *A report* of the command line is the list of its sections, each one write.
  Paths, and the warnings on stderr, are left out.

`CHECK_DEADLOCK FALSE` stands in every configuration because what is modelled is
a function or a command: it returns, and then there is no step. Where it must
return is a liveness property (`Terminates`, the answers in
`ImplementsCatalogFile` and `ImplementsRequired`).

**Fairness.** `Resolver`, `ModuleLoader`, `Pipeline`, `Locals`, `CatalogLoad`,
`CatalogStats`, `Report` and `Drift` assume weak fairness of the next-state relation: one goroutine that
nothing blocks keeps running. `Scaffold` assumes it of the steps of a command that
was started, as an operating system schedules every process; nobody is bound to
start one, and faults and kills are never bound to happen. `Cli` states no
fairness and no liveness property.

## 3. The runs

Sizes are distinct states. Each run ends within three minutes.

| run | what it asks | instance, and why it is enough |
|---|---|---|
| `report` (121 k) | *Of the pass*: do totals and rows balance after every step (`AccountBalances`), has every block a row or an unknown of its own (`NothingDropped`), is a report without warnings exact whatever unread attributes turn out to be (`CleanReportIsExact`), is the pass an implementation of the promise (`ImplementsRequired`)? *Of the formats*: do they agree (`FormatsAgree`), are annotations and rows right and independent of the order (`AnnotationsExact`, `OriginsStable`, `RowsOrdered`)? | up to two blocks out of all kinds, two attributes with every outcome of a predicate, and three blocks in every order the loader can produce; two blocks because maps, sets and rows only interact pairwise, a third for the orders; two attributes because a mismatch hides a missing one; instances in three modules, two of them in one other, call names of several letters for the path encoding, clauses with equal texts |
| `loader` (55 k) | Does expansion end (`Terminates`), never inside itself (`NoNestedExpansion`), with a cache that is exact if nothing recurses (`CacheIsExact`), real instances and cycles (`InstancesAreReal`, `CyclesAreReal`), all calls answered (`EveryCallAnswered`), in the order promised (`DepthFirstOrder`, `ModulesInOrder`)? | every tree of three directories with up to two calls in the root and one in the others, each to any directory: chains, diamonds, self-calls, recursions of length two and three, four kinds of argument, blocks with a count, children that cannot be listed, hold no file or do not parse |
| `pipeline` (44 k) | Is everything an instance may need in some world in the answer, or under an attribute it names as unresolved, or the instance an unknown (`MissingIsAnnounced`)? Is what a row asks for needed, unless the tool says it guessed (`ReportedIsNeeded`)? | one block of each kind with every kind of expression as attribute, `count` and `for_each`, counts from -1 to 2, lifecycle blocks; and a root that calls a module that calls another, with every kind of argument and default; four worlds. Two calls because an argument that is passed on has been read once and may be lost twice |
| `locals` (80 k) | Is it the least solution (`LeastResolution`), are exactly the cycles reported (`CyclesExact`), has each unresolved local a cause (`UnresolvedHasCause`), do both loops end? | every graph of three locals and every unresolvable one of four with at most two edges out: lowlinks handed up through two closing frames, cross edges into closed components, several components |
| `catalog_load` (87 k) | All or nothing (`AllOrNothing`), the first error (`FirstErrorIsStable`); do the tables not depend on the walk (`TablesExact`), and is what scaffold wrote refused or listed until it is replaced (`PlaceholdersNoticed`)? | up to three files with up to two entries each and anything wrong anywhere: a duplicate takes two files, and a third shows what comes between; each check of an entry passed and failed; stubs with any set of fields filled in; catalogs of four entries in all three sections, with equal dates and constraints, of which two are listed as oldest |
| `scaffold` (409 k) | What can a race or a fault do to the file (`DoublingNeedsOverlap`, `LossNeedsCause`, `LastWriteStands`)? Until there is one, is a command an atomic addition or a refusal with a reason, and is it answered in any case (`ImplementsCatalogFile`)? | three commands, three requests, of which one lacks the type, eight files, one fault (`MaxFaults`); three commands so that one may come between two others, and so that two may run undisturbed before a third |
| `drift` (419 k) | Is an entry reported exactly if its constraint excludes the version, apart from what the comments leave out (`DriftIsReal`, `DriftIsFound`)? A reported one has a readable clause that excludes it | components below `Base` = 2, `Width` = 3 of them; one clause on every version of up to three segments, and all pairs of clauses on versions of up to two |
| `cli` (21 k) | Does the exit code tell what happened (`ExitCodeTells`), has stdout no hole (`NoHoles`), are deletes left out as asked (`DeleteAsAsked`)? | every combination of flags, every point of failure |

Each property of these runs comes with a mutant in `PROJECT.json`, under which
TLC finds it violated: a dropped guard, a key that leaves something out, a swapped
order. `ImplementsCatalogFile` is what the doc comments of `Scaffold` and `mergeIntoDocument`
promise to a maintainer who runs one command at a time; the other properties of that run say
what remains true when commands overlap or fail.

### Where the code and its words differ

Four runs check a sentence of a comment and end in a counterexample.

| run | the sentence | what the code does |
|---|---|---|
| `loader_call_sites` (`DuplicatedPerCallSite`) | a cached template is what the directory gives as the root, and each call site has its resources (`parse.go:453`, `:473`) | a template closed inside a recursion lacks what the cycle cut off, and is used again where there is no cycle: resources of a call are missing, and so may be their permissions. The cycle itself is warned about |
| `resolver_stages` (`StagesAgree`) | rows and summary agree on the stage of a permission (`resolver.go:703`) | the plan list is subtracted from the apply-only list within each contribution in the rows, and at the end in the summary |
| `pipeline_defaults` (`UnreadArgumentSurfaces`) | an argument of a call that cannot be read "would surface as an unknown anyway" in the child (`parse.go:647`) | it is dropped, and if the child's variable has a default, the default decides: conditionals and counts in the child are settled by it, and no unknown and no warning tells (`parse.go:652`) |
| `scaffold_created` (`CreatedMeansNew`) | `Created` "is true when the target file did not exist before the call, false when the call appended to an existing file" (`scaffold.go:86`) | a blank file that exists is overwritten with a stub and answered with `Created` (`scaffold.go:373`). Nothing is appended either, so `CatalogFile` lets a command say either of a blank file |

Smaller differences met while modelling; the models follow the code, and no run is
spent on them:

- the template cache is asked before the recursion stack, so a directory on the stack
  whose template is cached gives no cycle error (`parse.go:580`, comment at `:556`);
- a null heading is refused by scaffold (`scaffold.go:444`). That is what the comment lists as "the section
  heading exists but its value is not a mapping", and so a reason to refuse in `CatalogFile` (`NoMapping`);
  but the comment's "because the loader would reject it too" (`:406`) is true of its example, a list, and
  not of null, which the loader takes for an empty section;
- a type may be a resource and an IAM binding at once, as far as the validator goes
  (`validator.go:142`, comment at `resolver.go:472`);
- as a consequence of `resolver_stages`, a permission may stand in both stages of a group
  (`by_resource.go:269`, `:296`);
- `Canonicalize` is not the identity on what `Resolve` returned (`reporter.go:256`, `:220`);
- a wildcard under `<=` over-reports drift where the comment says it under-reports:
  `<= 6.x` excludes 6.15.0 (`stats.go:523`). `DriftIsReal` leaves wildcards under an
  upper bound out;
- `GenerateStub`'s comment says that its `TODO`s fail validation, so that each has to be
  replaced (`scaffold.go:204`): those in `source_urls`, `verified_provider_version` and
  the permissions pass, and only `catalog stats` lists them. `PlaceholdersNoticed` is
  what holds; within conditionals, where no stub has one, a `TODO` is neither refused nor
  listed;
- in return, `MissingProvenance` looks for `TODO` in `method`, `verified_at`,
  `tested_against_provider` and `parent_resource`, which no catalog that has loaded holds;
- `count` and `for_each` of a module block are skipped with the meta-arguments and read
  by no one (`attrs.go:104`): a module without instances is reported as if it had some;
- what an expression contains decides the reason, so a function in the branch of a
  conditional that is not taken gives `function_call` (`attrs.go`, `classifyReason`);
- the validator's pattern lets `6.x.x` and `6..0` pass, which the drift report cannot read
  and leaves out (`stats.go:654`, `:449`); and of two clauses, one that cannot be read and one that excludes the
  version, the first decides whether the entry is reported, though the second result is said to be false "if any
  clause failed to match" (`stats.go:504`). `DriftIsReal` and `DriftIsFound` hold either way, as neither asks
  for a report of an entry with a clause that cannot be read;
- `catalog stats` and `catalog versions` end with 1 if their output cannot be written, where
  the long help says 2 (`catalog.go:204`, `main.go:67`).

## 4. What is proved

TLC checks a property on the instances of section 3; the theorems here hold for every
value of the constants. Every safety property of the passing runs is stated by one.
Each inductive invariant was first checked by TLC on the run of its component, except for
`LoaderInv` and `PipelineInv`, which quantify over walks of any length and which TLC cannot
evaluate; there the properties they imply were checked first. `PROJECT.json` lists the theorems.

| module | theorems | stated by a run |
|---|---|---|
| `ReportProofs`, of `Resolver` | `TypeCorrect`, `AccountAlwaysBalances`, `NothingEverDropped`, `CleanReportsAreExact`; `PassAlwaysExact`; `AnswersAsRequired`, the safety part of `ImplementsRequired` | `report` |
| `ReportProofs`, of `Report` | `FormatsAlwaysAgree`, `AnnotationsAlwaysExact`, `OriginsAlwaysStable`, `RowsAlwaysOrdered`; `RowLessOrders`, `ReportAlwaysExact` | `report` |
| `ModuleLoaderProofs` | `LoaderTyped`, `NeverNested`, `CacheExact`, `InstancesReal`, `CallsAnswered`, `DepthFirst`, `ModulesSorted`, `CyclesReal`; `KeysTell` | `loader` |
| `PipelineProofs` | `MissingAlwaysAnnounced`, `ReportedAlwaysNeeded`; `PipelineHolds` | `pipeline` |
| `LocalsProofs` | `TypeCorrect`, `AlwaysLeastResolution`, `CyclesAlwaysExact`, `UnresolvedAlwaysHasCause` | `locals` |
| `CatalogProofs` | `TypeCorrect`, `AlwaysAllOrNothing`, `FirstErrorIsAlwaysStable`, `TablesAreExact`, `PlaceholdersAreNoticed`, `DriftAlwaysReal`, `DriftAlwaysFound` | `catalog_load`, `drift` |
| `CommandProofs`, of `Scaffold` | `TypeCorrect`, `LastWriteAlwaysStands`, `DoublingAlwaysNeedsOverlap`, `LossAlwaysNeedsCause`; `UndisturbedIsAtomic`, the safety part of `ImplementsCatalogFile` | `scaffold` |
| `CommandProofs`, of `Cli` | `DeletesAsAsked`, `StdoutHasNoHoles`, `ExitCodeAlwaysTells` | `cli` |
| `ListProofs` | `SortedListsKeys`, `StableOrderSorts`, `SortedBySorts`; lemmas on `LexLess` and on counting by classes | – |
| `FoldProofs` | lemmas only: induction along a fold | – |

### The arguments

**`Resolver`.** `TypeOK` is inductive. It says more than types: inside the inner loop the
entry at hand is the one the catalog has for the block at hand, and the open row is that
block's. `AccountBalances` is inductive together with it: a step either leaves totals and
rows alone or books one permission set on both sides, and `StageType` says that
`applyPermissionSet` and `splitPermStrings` book the same permissions. The open row counts
among the rows, or the invariant would fail between `OpenResource` and `CloseResource`. For
`NothingDropped`, `AccountedStays` shows that no later step takes a block's account away:
an unknown can only be overwritten by one with the same key, which by `PathAssumption`
has the same path.

The promise speaks of the whole configuration and the pass of what it has gone by, so
the refinement needs an invariant that ties the two, `PassExact`: the running sets are what
the base entry and the matched conditionals of the blocks opened so far ask for, the two maps
have a key for every unknown and every missing attribute among them, and the rows are those
of the blocks closed. At `Finish` everything has been gone by. What is left has nothing to do
with steps: `FiresIsMatched` and `OpenIsMissing` show that `matchesConditional`, which looks
at what is written and stops at a mismatch, agrees with the promise, which quantifies over
all the ways the unread attributes may turn out. Here it matters that
an unread attribute may always turn out not to be what a literal asks for, `ValueAssumption`:
otherwise a predicate on it could be known to hold. `CleanReportsAreExact` follows from `PassExact` in the last state.

**`Report`.** `moduleLess` compares two paths where they first differ, and is a strict
total order (`ModuleLessOrders`, from `FirstDifference`); with it `rowLess` is a strict order
that tells apart all rows that differ in place or module path (`RowLessOrders`). `Resolve`
gives no instance two rows (`RowsDistinct`, inductive with `RowsExact`, by which a row
belongs to a block gone by), so no two rows tie and it does not matter that `sort.Slice` is
unstable: `RowsAlwaysOrdered`. The invariant of the grouping, `GroupsSoFar`, says of each
type what its accumulators hold of the rows gone by. `OriginsExact` is the part that takes
thought: for each permission that some conditional of these rows gives, the text noted is the first
one of the first row that gives it. As rows are in order and the conditionals of a row are sorted
by text (`StableOrderSorts`), the first row and the first text are the least ones, which
is `OriginsStable`. `FormatsAgree` joins the groups, and the rows of the JSON report, with
`AccountBalances`.

**`Scaffold`.** For any number of commands, requests and faults. `LastWriteStands` needs
`TextHasEntry`: what a command is about to write has its own entry. For
`DoublingNeedsOverlap` every place that may hold a double has to be explained, the file and
the text each command carries, by a command with that very entry that was not alone
(`FileExplained`, `TextExplained`); a command that passed its check and was alone finds its
entry absent still (`CheckHolds`). Overlaps have to be noted as soon as two commands run
(`OverlapsSeen`). `LossNeedsCause` uses the same and `KeepsAll`, that file and texts hold
what the original had and what was added.
`UndisturbedIsAtomic` has no hypothesis: the promise has a step, `Disturb`, from which on anything may
happen to the file, and the mapping takes it just when two commands overlap or one is killed or fails in I/O
(`Disturbed`). Up to then, one command is under way at most, and the invariant `SerialInv` says that what it carries is the stub, or
the merger with the file it read. The truncated file between `Open` and `Write` is what the mapping
hides: until the write, the file seen is the one before (`FileSeen`).

**`CatalogLoad`.** `LoadInv` says what the catalog is while a directory is being merged: the
entries of the files gone by, and of the file at hand those no longer to do, each where
`firstSeen` says. All of it merges so far (`Mergeable`), so the file that fails is the first
one that does not merge with those before it, whatever order a map would give.
`SortedListsKeys` gives the order of files and keys; `AgendaIs`, that the agenda of the
validator has every entry once.

**`CatalogStats`.** The tables are about the catalog that a load returned (`CatalogIs`), and the
walk is described by what it has visited so far (`WalkSoFar`): each
counter has the number of visited entries of its class, and each list holds the row of each
visited entry once, in whatever order they came. `ClassGrows` is the step: one more entry is one
more in its own class and in no other. At the end all entries are visited, so a counter has the
size of a class of the catalog, and the counters of a service add up because a set is as large as
its classes together (`ClassesSum`). The order of the walk is still in the lists. That
it leaves no trace is `SortedBySorts`, for which the comparisons of
`stats.go` have to tell apart any two rows there can be: `OlderOrders`, `IssueLessOrders` and
`GroupLessOrders` show this of the three comparisons, which rests on a type standing once in a section.
The fields of the issues of one entry are told apart by their text, for lists of any length: `KeyParts` takes a
field's text apart, and `DecimalTells` says that two numbers with the same digits are equal.
For `PlaceholdersNoticed`, `IssueIs` goes through what the validator lets pass: which fields of an
entry may still have a placeholder at all, in each section.

**`Drift`.** That a clause holds is about components, and what it means about numbers. `NumberIs`
writes a version as a sum of weights, `TailWeighsLess` says that everything after a
component weighs less than one more of that component, and so the first component that differs decides
(`HigherDecides`, `CompareIs`, `PrefixIs`), also for versions of different length, which are filled up
with zeros. `HoldsMeans` goes through the seven operators, with and without a wildcard; the exceptions,
`Lenient` and `Strict`, are the cases where only one direction holds. The invariant, `VerdictIsRight`, is
that all clauses before the one at hand held, and that a verdict of failure has a clause that
fails or cannot be read.

**`Locals`.** `PassesInv` has two halves: what is resolved lies in every closed set, and
when the passes end the resolved locals are themselves closed. `SearchInv` is the state of Tarjan's
algorithm: numbers grow along the stack and along the frames, no lowlink of an open local is
below the number of the bottom one, and the stack is what is numbered and in no component.
From it follows that the stack is empty when a root is done.
`TarjanInv` adds what the search has found out about chains of mentions: a frame leads to every
local opened after it, an open local leads back to a frame no later than itself, a lowlink is
the number of an open local that its owner leads to, and among the mentions the search is past
none is lower than the lowlink of the frame it is open under. So a frame that closes with
its lowlink at its own number pops locals that lead to one another and, with the components
found before, to nothing else: a component, and a maximal one (`IsComponent`). When
no root remains these are all of them, and `isCycle` picks those that depend on
themselves. For `UnresolvedHasCause`: as the passes have ended, a local without a value
and without a cause of its own needs another one without a value. In a finite set where that goes
on without end some local depends on itself (`NoEndIsCycle`, one from which as little as
possible can be reached), and that one is in a reported cycle.

**`ModuleLoader`.** All eight safety properties follow from one invariant, `LoaderInv`. Its
core is `Partial(c, x, k, t)`: the template *t* under construction for the directory and
arguments *x*, before its *k*-th call, has the rows of the directory itself, no row that does
not belong to a walk from *x* along its path, an answer for every call before the *k*-th and for
those at the paths below, and rows in order. Where the tree has no recursion it also has every
row that the calls before the *k*-th lead to. `Whole` is this after the last call, with the sites
sorted. There is a lemma for each thing the loop does to a template (`PartialStart`,
`PartialPassed`, `PartialWarned`, `PartialJoined`, `PartialClosed`), and for each thing that
happens to the stack (`StackPushed`, `StackResumed`, `StackPopped`). The stack is in order when each
activation is at the call that the next one expands and no directory is on it twice, so the
slice that `CycleFound` takes of it is a cycle of calls.

What a template is worth must not depend on who asked for it first. So `LoaderInv` says that
each cached template is whole for *the* directory and arguments of its key, which needs
`KeysTell`: of two equal keys, either both have a length in front or neither, because only a
directory begins with a slash; equal lengths end the directories at one place, and the arguments
follow in blocks of four. The completeness of a template is claimed for trees without recursion only: a
template closed inside a recursion lacks what the cycle cut off, as the run
`loader_call_sites` shows. `CacheIsExact` then compares a template with `AsRoot`, which
follows only paths that come by no directory twice. That these are all paths is `NoWayBack`: the
shortest way from a directory back to itself would be a cycle (`CycleRecurs`).

For `EveryCallAnswered` and `DepthFirstOrder` names have to say which call it is. `TidyNames`
carries the order of names from the one map of arguments of which `InSourceOrder` speaks to all: the
blocks that are calls, and their names, do not depend on arguments. What `parseConfig`
returns (`OwnRows`, `OwnCalls`), what `AddSites` and `Rendered` build and where `Follow` leads
(`FollowIs`) are claims about folds and come from `FoldInduction`. That `SortSites` sorts (`SitesSorted`) needs
`SiteLess` to be a strict order that tells all sites apart, although it compares joined strings: a slash is in no name, so the places where
names end in the string can be found again (`Led`, `LedTells`), and two paths with one string
are one path (`PathKeyTells`, `SiteLessOrders`).
That the expansion ends rests on `NoNestedExpansion`, as there are finitely many directories.

**`Pipeline`.** The tool reads a directory in one context and Terraform, in a world, in another.
`Within` says that the second knows whatever the first knows, and the same of it. Such a context
gives every expression that the tool could read the same value (`ExpressionsAgree`), and as each
pass over the locals keeps the one within the other (`PassAgrees`), so do all passes (`ContextsAgree`):
what the tool takes a variable or a local to be, it is. The step from a caller to a callee is
where this can break: `CallGoesOn` shows that either the arguments that were read are those that are
passed, so the callee's contexts agree again, or an argument was not read and a default stands in for
it. From there on nothing is claimed, which is what `FellBack` says in the two properties, and what
the run `pipeline_defaults` shows.

`InstancesKept` and `AttrsAgree` do the same for one block: what Terraform creates is kept,
what is kept without a guess is created, and an attribute that was read has its value. So a walk of
the loader, given by `LeadsTo`, and a module of a world, reached by `Called`, meet (`WalkMeets`), and in a
tree without recursion all of them do, since no path is longer than there are directories
(`ModulesExplored`, `ModulesAre`). `LoaderInv` says which rows the template has, so each instance has a
row that stands for it (`InstancesHaveRows`), and each row without a warning an instance
(`RowsHaveInstances`).

The other half is a second invariant of the resolver's pass, `PassInv`, about the rows handed over one by
one: each that was gone by is `Settled` (it has an unknown of its own; or its base permissions
are in, with those of each conditional that matched, and each attribute that a conditional waits for is named),
each row of the account is `Justified` by a resource, and inside the inner loop the conditionals
tried so far are settled likewise (`AtWork`). What is in the map of unknowns must stay there, and so a key has to say which
path it is of: `EncodedTells` shows this of the encoding itself, by the place where two
paths first differ. The resolver module takes it as an assumption, which is discharged here for the
paths the loader makes. At the end `MatchMayHold` and `MayHoldMatches` relate `matchesConditional`
to what may be true in the world.
`PipelineInv` joins the two with what is handed over; while the loader runs the resolver stands still and the
other way round.

**`Cli`.** `NoHoles` alone is not inductive, because it does not tell whether an append comes
at the right place; `Printed` adds that without an error held every section handed over has
been written, so that the next one follows. For the exit code, `OnTheWay` says that a wrong
command line of the analysis gets no further than `PreRunE`, and `NothingYet` that nothing is
printed before there is a report. `RefusedIsWrong` relates the checks of the code to what a
wrong command line is.

**`ListProofs`.** The operators of `SortedKeys` put at place *i* the item with *i* - 1 items
before it. For any strict order on a finite set these counts grow with the order and take all
values below the size of the set (`PlacesGrow`, `PlacesTell`, `PlacesAreTaken`), so there is one item
for every place. The theorems on sorting are this for the order of numbers, for the order by key and
then by place, and for any order that tells all items apart.

**`FoldProofs`.** `FoldInduction` is about `FoldLeft` as the community modules define it. The library's
induction theorems take the claim as an operator parameter, which the installed provers cannot
instantiate; here the step and the claim are constants of the module, and an `INSTANCE` of it
substitutes them. The proof is by the least number of items at which the claim fails (`Induction`), and
`FoldExists` shows first that the recursive function `FoldLeft` stands for exists. The module extends
as little as it can, because each instance brings along all that the module extends.

### The assumptions

TLC evaluates each on the runs of the modules that state it.

- `InputsAssumption`, `CatalogsAssumption`: no instance is listed twice; a catalog is nil or
  well typed. `NilAssumption`, `NothingAssumption`: the marks for no value are none.
- `TextAssumption`: a directory is an absolute path, so it begins with a slash and a number does not;
  the text of a length, or of a value (`GoString`), says which one it is; there are finitely many
  directories. `CallsAssumption`: where local calls lead, and the arguments they pass on, are among
  the directories and arguments considered.
- `PathAssumption`: the encoding of module paths keeps different paths apart, because a NUL
  byte cannot stand in an HCL identifier.
- `ValueAssumption`: whatever literal a predicate asks for, an unread attribute may turn out
  to be something else.
- `SpellingAssumption`: call names are not empty, differ in their characters, and hold no slash.
- `RankAssumption`: places and call names are ranked without ties, and every clause has a text.
- `RequestsAssumption`, `SectionAssumption`, `MarkersAssumption`: files are texts of the kinds
  modelled, and blank and torn ones are none of the others.
- `DirectoriesAssumption`, `TypeAssumption`, `WordsAssumption`: a directory has finitely many
  files with finitely many entries each.
- `LimitAssumption`: the length of the table of oldest verifications is a number.
- `DriftAssumption`: versions and constraints are those that the patterns of the validator
  accept, their components are below some base and there is a longest version.
- `LocalAssumption`, `ModulesAssumption`, `TreesAssumption`: a module has finitely many locals.
- `WorldsAssumption`: a world sets only variables of the root that have no default.
- `EntriesAssumption`: what `CatalogsAssumption` says, of the catalogs of `Pipeline`.
- `CommandsAssumption`, `NamesAssumption`, `ConfigsAssumption`: types of what is tried; no two blocks of a
  tree stand at one place.

### What is only model-checked

Liveness: `Terminates` of several modules, and the half of the two refinements that says
that an answer comes. Liveness under fairness and `ENABLED` are out of the prover's reach.

The four sentences of section 3 that do not hold are shown by counterexamples alone.

## 5. Not modelled

- *Embedded data*: YAML. Every catalog that the validator accepts is an input.
- *HCL and YAML syntax*: parsing is an outcome. Symlinks and `.tf.json` files are
  among the entries that are not read.
- *The layout of text reports* and of the tables of `catalog stats`, and the text of
  diagnostics: no state that another part reads.
- *Paths relative to the working directory* (`main.go:593`), YAML comments and key
  order of a scaffolded file, the labels of `dynamic` blocks.
- *Expressions* beyond those of `ParseConfig` (templates, operators, splats): the code
  hands them to the HCL library and only asks whether there is a value.

## 6. Plan

What is modelled covers the pipeline and the catalog commands, and every safety property of the
runs is proved. What would say more, in this order:

1. `Pipeline` composed with `Report`, so that one theorem leads from the files to what is printed.
   Today two do, about the answer of the same `Resolve`.
2. Module calls with `count` and `for_each`: the code ignores them, and `ReportedIsNeeded` leaves
   such calls out. If the loader comes to read them, the exception goes.
3. The four hazards of `PROJECT.json` that no property covers.

The whole suite is kept to a dozen runs and forty properties: a new run takes the place
of one that shows less.
