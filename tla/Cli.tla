-------------------------------- MODULE Cli --------------------------------
(***************************************************************************)
(* cmd/tfperms: one invocation of the binary, from its command line to its *)
(* exit code.  Flags are checked, the pipeline of the root command or the  *)
(* body of a catalog subcommand runs, the report goes to stdout through    *)
(* errWriter, and run maps the error that comes back to 0, 1 or 2.         *)
(*                                                                         *)
(* Abstractions.  A report is the list of its sections, each one write.    *)
(* The directory, the HCL in it, the embedded catalog and stdout may fail  *)
(* at any point, and so may the code, by a panic.  stdout may fail once    *)
(* and work again; a short write is a failed one.                          *)
(***************************************************************************)
EXTENDS Naturals, Sequences, SequencesExt

CONSTANTS
    Commands,   \* the commands tried, of "root", "stats", "versions", "scaffold"
    None

ASSUME CommandsAssumption == Commands \subseteq {"root", "stats", "versions", "scaffold"}

VARIABLES
    line,           \* the command line
    phase,          \* where the invocation is, "done" at the end
    format,         \* the format flag, as PreRunE leaves it
    includeDelete,  \* the flag, as PreRunE leaves it
    options,        \* what Resolve was called with, or None
    doc,            \* the report being rendered
    next,           \* sections handed to errWriter so far
    out,            \* sections that reached stdout
    latched,        \* errWriter holds an error
    code            \* exit code, or None

cvars == <<line, phase, format, includeDelete, options, doc, next, out, latched, code>>

Formats == {"flat", "by-resource", "role", "json"}
Flag == {"unset", "true", "false"}      \* of a boolean flag

Lines ==
    [cmd: Commands, args: 0 .. 2, unknownFlag: BOOLEAN,
     format: Formats \union {"unset", "yaml"}, byResource: BOOLEAN, quiet: BOOLEAN,
     roleName: {"unset", "malformed", "good"}, include: Flag, exclude: Flag,
     sections: 0 .. 2]      \* how many of --data-source, --iam-binding

(* Flags a command does not have are left alone.                            *)
Plain(l) ==
    /\ l.format = "unset" /\ ~l.byResource /\ ~l.quiet /\ l.roleName = "unset"
    /\ l.include = "unset" /\ l.exclude = "unset"
CommandLines ==
    {l \in Lines : (l.cmd # "root" => Plain(l)) /\ (l.cmd # "scaffold" => l.sections = 0)}

-----------------------------------------------------------------------------
CliInit ==
    /\ line \in CommandLines
    /\ phase = "args"
    /\ format = (IF line.format = "unset" THEN "flat" ELSE line.format)
    /\ includeDelete = (line.include # "false")
    /\ options = None
    /\ doc = <<>> /\ next = 0 /\ out = <<>> /\ latched = FALSE
    /\ code = None

(* Mutant: only a corrupt catalog counts as an execution error.             *)
Classify_CatalogOnly(kind) == IF kind = "catalog" THEN 2 ELSE 1

(* run: errors marked parseLoadError and those that wrap ErrCatalog are 2.  *)
Classify(kind) == IF kind \in {"parseLoad", "catalog"} THEN 2 ELSE 1

Exit(c) == phase' = "done" /\ code' = c
Fail(kind) ==
    /\ Exit(Classify(kind))
    /\ UNCHANGED <<line, format, includeDelete, options, doc, next, out, latched>>

Proceed(l) ==
    /\ phase' = l
    /\ UNCHANGED <<line, format, includeDelete, options, doc, next, out, latched, code>>

(* cobra's own checks: unknown flags, then the number of arguments.         *)
ArgsFit ==
    /\ ~line.unknownFlag
    /\ CASE line.cmd = "root" -> line.args <= 1
         [] line.cmd = "scaffold" -> line.args = 1
         [] OTHER -> line.args = 0

RejectArgs == phase = "args" /\ ~ArgsFit /\ Fail("plain")
AcceptArgs == phase = "args" /\ ArgsFit /\ Proceed(IF line.cmd = "root" THEN "prerun" ELSE line.cmd)

validateFormatFlags ==
    /\ format \in Formats
    /\ format = "role" => line.roleName = "good"

(* resolveFormat: --by-resource against an explicit --format.               *)
FormatsClash == line.byResource /\ line.format \notin {"unset", "by-resource"}
resolveFormat == IF line.byResource THEN "by-resource" ELSE format

(* Mutant: --exclude-delete counts by being there, whatever its value.      *)
ExcludeAsked_Changed == line.exclude # "unset"

(* Only the truthy form of --exclude-delete overrides --include-delete.     *)
ExcludeAsked == line.exclude = "true"

RejectFlags ==
    /\ phase = "prerun"
    /\ ~validateFormatFlags \/ FormatsClash
    /\ Fail("plain")

PreRun ==
    /\ phase = "prerun"
    /\ validateFormatFlags /\ ~FormatsClash
    /\ format' = resolveFormat
    /\ includeDelete' = (includeDelete /\ ~ExcludeAsked)
    /\ phase' = IF line.args = 0 THEN "help" ELSE "stat"
    /\ UNCHANGED <<line, options, doc, next, out, latched, code>>

(* cmd.Help does not look at what stdout says.                              *)
Help ==
    /\ phase = "help"
    /\ Exit(0)
    /\ \E o \in {<<>>, <<"help">>} : out' = o
    /\ UNCHANGED <<line, format, includeDelete, options, doc, next, latched>>

(* Not there, not readable, or a file.                                      *)
StatFails == phase = "stat" /\ Fail("parseLoad")
StatOk    == phase = "stat" /\ Proceed("parse")

LoadRecursiveFails == phase = "parse" /\ Fail("parseLoad")
LoadRecursiveOk    == phase = "parse" /\ Proceed("catalog")

(* catalog.Load, by the root command or by stats and versions.              *)
CatalogFails == phase \in {"catalog", "stats", "versions"} /\ Fail("catalog")

(* What the formats print: --quiet silences the flat and the grouped one    *)
(* on unknown resources and unresolved conditionals, and no other.          *)
Findings == IF line.quiet THEN <<>> ELSE <<"unknowns", "unresolved">>
Document ==
    CASE line.cmd # "root" -> <<"header", "table", "footer">>
      [] format = "role"   -> <<"header", "permissions">>
      [] format = "json"   -> <<"document">>
      [] OTHER             -> <<"summary", "permissions", "warnings">> \o Findings

Resolve ==
    /\ phase = "catalog"
    /\ options' = [ExcludeDelete |-> ~includeDelete]
    /\ doc' = Document
    /\ phase' = "render"
    /\ UNCHANGED <<line, format, includeDelete, next, out, latched, code>>

Aggregate ==
    /\ phase \in {"stats", "versions"}
    /\ doc' = Document
    /\ phase' = "render"
    /\ UNCHANGED <<line, format, includeDelete, options, next, out, latched, code>>

(* Mutant: every write is tried, whatever happened to those before.         *)
ShortCircuits_Never == FALSE

(* errWriter: once it holds an error, nothing reaches stdout.               *)
ShortCircuits == latched

WriteSection ==
    /\ phase = "render" /\ next < Len(doc)
    /\ next' = next + 1
    /\ \/ ~ShortCircuits /\ out' = Append(out, doc[next + 1]) /\ UNCHANGED latched
       \/ ~ShortCircuits /\ latched' = TRUE /\ UNCHANGED out
       \/ ShortCircuits /\ UNCHANGED <<out, latched>>
    /\ UNCHANGED <<line, phase, format, includeDelete, options, doc, code>>

(* The text renderers look at the latched error last; an encoder or a       *)
(* tabwriter comes back with it before.  runAnalyze marks it, the catalog   *)
(* commands hand it up as it is.                                            *)
Encoded == line.cmd # "root" \/ format \in {"role", "json"}

RenderFails ==
    /\ phase = "render" /\ latched
    /\ next = Len(doc) \/ Encoded
    /\ Fail(IF line.cmd = "root" THEN "parseLoad" ELSE "plain")

RenderOk ==
    /\ phase = "render" /\ next = Len(doc) /\ ~latched
    /\ Exit(0)
    /\ UNCHANGED <<line, format, includeDelete, options, doc, next, out, latched>>

(* scaffold: both section flags, then whatever catalog.Scaffold refuses.    *)
ScaffoldFails == phase = "scaffold" /\ Fail("plain")
RunScaffold ==
    /\ phase = "scaffold" /\ line.sections < 2
    /\ Exit(0)
    /\ \E o \in {<<>>, <<"message">>} : out' = o      \* a failed write is not looked at
    /\ UNCHANGED <<line, format, includeDelete, options, doc, next, latched>>

(* A panic anywhere below Execute: run recovers it.                         *)
Panic ==
    /\ phase \notin {"args", "help", "done"}
    /\ Exit(2)
    /\ UNCHANGED <<line, format, includeDelete, options, doc, next, out, latched>>

CliNext ==
    \/ RejectArgs \/ AcceptArgs \/ RejectFlags \/ PreRun \/ Help
    \/ StatFails \/ StatOk \/ LoadRecursiveFails \/ LoadRecursiveOk
    \/ CatalogFails \/ Resolve \/ Aggregate
    \/ WriteSection \/ RenderFails \/ RenderOk
    \/ ScaffoldFails \/ RunScaffold \/ Panic

CliSpec == CliInit /\ [][CliNext]_cvars

-----------------------------------------------------------------------------
(***************************************************************************)
(* The exit codes of the analysis, as a caller sees them: 1 exactly for a  *)
(* command line that is wrong in itself, and then nothing was printed; 0   *)
(* only with the whole report (or help); 2 for everything else.  A panic   *)
(* while flags are still checked is the one case told by neither.          *)
(***************************************************************************)
WrongLine ==
    \/ line.unknownFlag \/ line.args > 1
    \/ line.format = "yaml"
    \/ line.format = "role" /\ line.roleName # "good"
    \/ line.byResource /\ line.format \in Formats \ {"by-resource"}

Whole == doc # <<>> /\ out = doc

ExitCodeTells ==
    phase = "done" /\ line.cmd = "root" =>
        /\ code = 1 => WrongLine /\ out = <<>> /\ options = None
        /\ code = 0 => ~WrongLine /\ (Whole \/ line.args = 0)
        /\ WrongLine => code \in {1, 2}
        /\ ~WrongLine /\ latched => code = 2

(***************************************************************************)
(* stdout never has a hole: what reached it is a beginning of the report,  *)
(* even if a write failed and later ones would have gone through.          *)
(***************************************************************************)
NoHoles == doc # <<>> => IsPrefix(out, doc)

(***************************************************************************)
(* Delete permissions are left out exactly if the user asked: by either    *)
(* flag, and "--exclude-delete=false" never turns them back on or off.     *)
(***************************************************************************)
DeleteAsAsked ==
    options # None =>
        (options.ExcludeDelete <=> line.include = "false" \/ line.exclude = "true")

=============================================================================
