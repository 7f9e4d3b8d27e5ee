--------------------------- MODULE MCModuleLoader ---------------------------
(***************************************************************************)
(* ModuleLoader for TLC: three directories, each of which may call any, so *)
(* that chains, diamonds, self-calls and longer recursions all occur, with *)
(* and without arguments; directories of several files; children that do   *)
(* not load; and a directory whose name looks like a cache key.            *)
(***************************************************************************)
EXTENDS ModuleLoader

Bool(b) == [t |-> "bool", v |-> b]
Number(n) == [t |-> "number", v |-> n]
Lit(value) == [op |-> "lit", value |-> value]
Var(name) == [op |-> "var", name |-> name]
Data(name) == [op |-> "data", name |-> name]

MCRoot == <<"/">>
A == <<"/", "a">>
B == <<"/", "a", "|", "enabled", "=", ToString(Bool(TRUE))>>
MCDir == {MCRoot, A, B}
MCName == {1, 2}
MCSpelling == <<<<97>>, <<97, 45, 98>>>>      \* "a" and "a-b"
MCOverride == {<<>>} \union {[enabled |-> Bool(b)] : b \in BOOLEAN}

(* filepath.Join of these directories and "./name" or "../name".            *)
MCJoin(dir, source) == (IF source[1] = "../" THEN MCRoot ELSE dir) \o Tail(source)
SourceOf(dir, target) == <<IF dir = MCRoot THEN "./" ELSE "../">> \o Tail(target)

File(name, mode, variables, blocks) ==
    [name |-> name, mode |-> mode, valid |-> TRUE,
     variables |-> variables, locals |-> <<>>, blocks |-> blocks]
Main(variables, blocks) == File(<<"main", ".tf">>, "file", variables, blocks)
Directory(entries) == [listed |-> TRUE, entries |-> entries]

Block(pos, attrs) ==
    [kind |-> "resource", type |-> "bucket", name |-> 0, pos |-> pos, attrs |-> attrs, lifecycle |-> <<>>]
Gate == [op |-> "if", cond |-> Var("enabled"), then |-> Lit(Number(1)), else |-> Lit(Number(0))]
Enabled == [name |-> "enabled", expr |-> None]

ModuleBlock(name, pos, attrs) ==
    [kind |-> "module", type |-> "", name |-> name, pos |-> pos, attrs |-> attrs, lifecycle |-> <<>>]
Source(words) == Lit([t |-> "string", v |-> words])
ACall(name, pos, from, target, arg) ==
    ModuleBlock(name, pos, [source |-> Source(SourceOf(from, target)), enabled |-> arg])
Registry(name, pos) == ModuleBlock(name, pos, [source |-> Source(<<"ns", "name", "provider">>)])

On == Lit(Bool(TRUE))
Off == Lit(Bool(FALSE))
Pass1 == Var("enabled")
Opaque == Data("d")

CallsAt(name, pos, from, args) ==
    {ACall(name, pos, from, d, a) : d \in MCDir, a \in args}

(* A plain block, a block gated by var.enabled and the calls.               *)
Holding(pos, calls) ==
    Directory(<<Main(<<Enabled>>, <<Block(pos, <<>>), Block(pos + 1, [count |-> Gate])>> \o calls)>>)

(* The same in two files, with what is not read around them.                *)
Scattered(pos, calls) ==
    Directory(<<File(<<".", "hidden", ".tf">>, "file", <<[name |-> "enabled", expr |-> Lit(Bool(FALSE))]>>, <<>>),
                File(<<"a", ".tf">>, "file", <<Enabled>>, <<Block(pos, <<>>)>>),
                File(<<"b", ".tf">>, "file", <<[name |-> "enabled", expr |-> Lit(Bool(FALSE))]>>,
                     <<Block(pos + 1, [count |-> Gate])>> \o calls),
                File(<<"link", ".tf">>, "symlink", <<>>, <<Block(pos + 5, <<>>)>>),
                File(<<"notes", ".md">>, "file", <<>>, <<Block(pos + 6, <<>>)>>)>>)

Unlisted == [listed |-> FALSE, entries |-> <<>>]
NoFiles == Directory(<<File(<<"x", ".tf">>, "dir", <<>>, <<>>), File(<<"link", ".tf">>, "symlink", <<>>, <<>>)>>)
Garbled == Directory(<<Main(<<>>, <<>>), [File(<<"z", ".tf">>, "file", <<>>, <<>>) EXCEPT !.valid = FALSE]>>)
Broken == {Unlisted, NoFiles, Garbled}

(* The root: no call, one, two with their own names or two with one name.   *)
RootCalls ==
    {<<>>, <<Registry(1, 10), ACall(2, 11, MCRoot, A, Opaque)>>}
      \union {<<c>> : c \in CallsAt(1, 10, MCRoot, {On, Off, Pass1, Opaque})}
      \union {<<c, d>> : c \in CallsAt(1, 10, MCRoot, {On, Opaque}), d \in CallsAt(2, 11, MCRoot, {Off, Opaque})}
      \union {<<c, d>> : c \in CallsAt(1, 10, MCRoot, {On}), d \in CallsAt(1, 11, MCRoot, {On})}

Inner(from, pos) == {<<>>} \union {<<c>> : c \in CallsAt(1, pos + 5, from, {On, Pass1})}

MCConfigs ==
    {(MCRoot :> Holding(0, r) @@ A :> a @@ B :> b) :
        r \in RootCalls, a \in {Holding(20, calls) : calls \in Inner(A, 20)},
        b \in {Holding(30, calls) : calls \in Inner(B, 30)} \union Broken}
    \union {(MCRoot :> Scattered(0, r) @@ A :> Scattered(20, calls) @@ B :> Garbled) :
              r \in {<<c>> : c \in CallsAt(1, 10, MCRoot, {On, Off})}, calls \in Inner(A, 20)}
    \union {(MCRoot :> root @@ A :> NoFiles @@ B :> NoFiles) : root \in Broken}
=============================================================================
