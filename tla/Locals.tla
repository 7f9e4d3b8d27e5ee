------------------------------- MODULE Locals -------------------------------
(***************************************************************************)
(* internal/parser/evalctx.go: buildEvalContext and what it calls.  The    *)
(* variables of a module get their values, its locals are evaluated in     *)
(* passes until a pass makes no progress, and the dependency cycles among  *)
(* the locals left over are found with an iterative Tarjan algorithm.      *)
(*                                                                         *)
(* Abstractions.  An expression is what it needs to evaluate (locals and   *)
(* variables) and the locals it mentions; it may mention one it does not   *)
(* need, in the branch of a conditional that is not taken.  A name is its  *)
(* rank in alphabetical order.  A value is known or it is not.             *)
(***************************************************************************)
EXTENDS Integers, Sequences, SequencesExt, FiniteSets, FiniteSetsExt, SortedKeys

CONSTANTS
    Local,      \* names of locals, numbers
    Var,        \* names of variables
    Modules     \* the modules buildEvalContext may be called for

(* needs and mentions are locals, vars the variables needed.                *)
Expr == [needs: SUBSET Local, mentions: SUBSET Local, vars: SUBSET Var]

(* How a variable is declared: without a default, with a literal one or     *)
(* with one that does not evaluate without a context.                       *)
Default == {"none", "literal", "opaque"}

ASSUME LocalAssumption == Local \subseteq Nat /\ IsFiniteSet(Local)

(* overrides are the propagated arguments with a known value.               *)
IsModule(m) ==
    /\ DOMAIN m.locals \subseteq Local /\ m.locals \in [DOMAIN m.locals -> Expr]
    /\ DOMAIN m.variables \subseteq Var /\ m.variables \in [DOMAIN m.variables -> Default]
    /\ m.overrides \subseteq Var
    /\ \A n \in DOMAIN m.locals : m.locals[n].needs \subseteq m.locals[n].mentions

ASSUME ModulesAssumption == \A m \in Modules : IsModule(m)

VARIABLES
    module,     \* the declarations and overrides, as collectDecls leaves them
    pc,         \* "passes", "cycles" or "done"
    resolved,   \* locals with a value
    visible,    \* the locals of ctx: those resolved when it was last rebuilt
    nodes,      \* roots Tarjan has still to look at, in order
    index,      \* next visit number
    indices,    \* map: visited local -> visit number
    lowlink,    \* map: visited local -> lowest visit number known to be reachable
    stack,      \* Tarjan's stack of open locals
    dfs,        \* frames of the depth-first search: [node, i]
    sccs,       \* components found, in discovery order
    diags       \* the cycles warned about, as sets of members

tarjan == <<nodes, index, indices, lowlink, stack, dfs, sccs>>
vars == <<module, pc, resolved, visible, tarjan, diags>>

-----------------------------------------------------------------------------
Declared == DOMAIN module.locals
expr(n) == module.locals[n]

(* Mutant: an argument enters the var object although no variable block     *)
(* declares it.                                                             *)
varValues_Undeclared ==
    module.overrides \union {v \in DOMAIN module.variables : module.variables[v] = "literal"}

(* A declared variable has a value if it is overridden or its default is a  *)
(* literal.                                                                 *)
varValues ==
    {v \in DOMAIN module.variables : v \in module.overrides \/ module.variables[v] = "literal"}

Evaluates(n) == expr(n).needs \subseteq visible /\ expr(n).vars \subseteq varValues

unresolved == Declared \ resolved

(* adj: the unresolved locals other than itself that the expression         *)
(* mentions.                                                                *)
adj(n) == Sorted((expr(n).mentions \intersect unresolved) \ {n})

(* A member that mentions itself is found apart from the adjacency lists.   *)
selfLoop == {n \in unresolved : n \in expr(n).mentions}

Init ==
    /\ module \in Modules
    /\ pc = "passes"
    /\ resolved = {} /\ visible = {}
    /\ nodes = <<>> /\ index = 0 /\ indices = <<>> /\ lowlink = <<>>
    /\ stack = <<>> /\ dfs = <<>> /\ sccs = <<>>
    /\ diags = {}

(* Mutant: the pass that changes nothing is not the last one.               *)
EndPasses_Eager ==
    /\ pc = "passes"
    /\ unresolved = {}
    /\ pc' = "cycles"
    /\ nodes' = Sorted(unresolved)
    /\ UNCHANGED <<module, resolved, visible, index, indices, lowlink, stack, dfs, sccs, diags>>

(* One pass: every unresolved local is tried against the context the        *)
(* previous passes left, and the context is rebuilt at the end.             *)
Pass ==
    /\ pc = "passes"
    /\ \E n \in unresolved : Evaluates(n)
    /\ resolved' = resolved \union {n \in unresolved : Evaluates(n)}
    /\ visible' = resolved'
    /\ UNCHANGED <<module, pc, tarjan, diags>>

(* A pass without progress ends the loop; findCycleDiagnostics takes over.  *)
EndPasses ==
    /\ pc = "passes"
    /\ \A n \in unresolved : ~Evaluates(n)
    /\ pc' = "cycles"
    /\ nodes' = Sorted(unresolved)
    /\ UNCHANGED <<module, resolved, visible, index, indices, lowlink, stack, dfs, sccs, diags>>

-----------------------------------------------------------------------------
(* tarjanSCC.                                                               *)
Put(m, k, v) == [x \in DOMAIN m \union {k} |-> IF x = k THEN v ELSE m[x]]

TopFrame == dfs[Len(dfs)]
Neighbour == adj(TopFrame.node)[TopFrame.i]
onStack(n) == n \in ToSet(stack)

(* Give n a number and open it, in a frame of its own on top of base.       *)
Visit(n, base) ==
    /\ indices' = Put(indices, n, index)
    /\ lowlink' = Put(lowlink, n, index)
    /\ index' = index + 1
    /\ stack' = Append(stack, n)
    /\ dfs' = Append(base, [node |-> n, i |-> 1])

Advanced == [dfs EXCEPT ![Len(dfs)].i = @ + 1]

SkipRoot ==
    /\ pc = "cycles" /\ dfs = <<>> /\ nodes # <<>>
    /\ Head(nodes) \in DOMAIN indices
    /\ nodes' = Tail(nodes)
    /\ UNCHANGED <<module, pc, resolved, visible, index, indices, lowlink, stack, dfs, sccs, diags>>

VisitRoot ==
    /\ pc = "cycles" /\ dfs = <<>> /\ nodes # <<>>
    /\ Head(nodes) \notin DOMAIN indices
    /\ nodes' = Tail(nodes)
    /\ Visit(Head(nodes), dfs)
    /\ UNCHANGED <<module, pc, resolved, visible, sccs, diags>>

AtNeighbour == pc = "cycles" /\ dfs # <<>> /\ TopFrame.i <= Len(adj(TopFrame.node))

Descend ==
    /\ AtNeighbour
    /\ Neighbour \notin DOMAIN indices
    /\ Visit(Neighbour, Advanced)
    /\ UNCHANGED <<module, pc, resolved, visible, nodes, sccs, diags>>

(* Mutant: the onStack check is left out.                                   *)
Lowered_Closed(low, high) ==
    IF indices[high] < lowlink[low] THEN Put(lowlink, low, indices[high]) ELSE lowlink

(* An edge to a node that is still open lowers the lowlink of its source.   *)
Lowered(low, high) ==
    IF onStack(high) /\ indices[high] < lowlink[low]
    THEN Put(lowlink, low, indices[high]) ELSE lowlink

SeeVisited ==
    /\ AtNeighbour
    /\ Neighbour \in DOMAIN indices
    /\ lowlink' = Lowered(TopFrame.node, Neighbour)
    /\ dfs' = Advanced
    /\ UNCHANGED <<module, pc, resolved, visible, nodes, index, indices, stack, sccs, diags>>

(* Mutant: popping stops at the root and leaves it on the stack.            *)
Bottom_AboveRoot(n) == 1 + CHOOSE i \in DOMAIN stack : stack[i] = n

(* Where the component of the finished node starts on the stack.            *)
Bottom(n) == CHOOSE i \in DOMAIN stack : stack[i] = n

(* All neighbours done: pop a component if this node is its root, drop the  *)
(* frame and pass the lowlink on to the parent.                             *)
CloseNode ==
    /\ pc = "cycles" /\ dfs # <<>>
    /\ TopFrame.i > Len(adj(TopFrame.node))
    /\ LET n == TopFrame.node
           rest == SubSeq(dfs, 1, Len(dfs) - 1)
       IN  /\ IF lowlink[n] = indices[n]
              THEN /\ sccs' = Append(sccs, ToSet(SubSeq(stack, Bottom(n), Len(stack))))
                   /\ stack' = SubSeq(stack, 1, Bottom(n) - 1)
              ELSE UNCHANGED <<sccs, stack>>
           /\ dfs' = rest
           /\ lowlink' = IF rest # <<>> /\ lowlink[n] < lowlink[rest[Len(rest)].node]
                         THEN Put(lowlink, rest[Len(rest)].node, lowlink[n]) ELSE lowlink
    /\ UNCHANGED <<module, pc, resolved, visible, nodes, index, indices, diags>>

(* Mutant: a component of one is never a cycle.                             *)
IsCycle_NoSelf(scc) == Cardinality(scc) >= 2

(* A component is a cycle if it has two members or mentions itself.         *)
IsCycle(scc) == Cardinality(scc) >= 2 \/ scc \subseteq selfLoop

Report ==
    /\ pc = "cycles" /\ dfs = <<>> /\ nodes = <<>>
    /\ diags' = {scc \in ToSet(sccs) : IsCycle(scc)}
    /\ pc' = "done"
    /\ UNCHANGED <<module, resolved, visible, tarjan>>

Next ==
    \/ Pass \/ EndPasses
    \/ SkipRoot \/ VisitRoot \/ Descend \/ SeeVisited \/ CloseNode
    \/ Report

(* One goroutine that nothing blocks.                                       *)
Spec == Init /\ [][Next]_vars /\ WF_vars(Next)

-----------------------------------------------------------------------------
(* Type of every variable; a local is open on Tarjan's stack if and only if *)
(* it is visited and in no component yet, and none is once a root is done.  *)
TypeOK ==
    /\ IsModule(module)
    /\ pc \in {"passes", "cycles", "done"}
    /\ resolved \subseteq Declared /\ visible = resolved
    /\ ToSet(nodes) \subseteq unresolved \union resolved
    /\ index \in Nat /\ index = Cardinality(DOMAIN indices)
    /\ DOMAIN indices \subseteq unresolved /\ DOMAIN lowlink = DOMAIN indices
    /\ \A n \in DOMAIN indices : 0 <= lowlink[n] /\ lowlink[n] <= indices[n] /\ indices[n] < index
    /\ \A i \in DOMAIN dfs : dfs[i].i \in 1 .. Len(adj(dfs[i].node)) + 1
    /\ ToSet(stack) = DOMAIN indices \ UNION ToSet(sccs)
    /\ dfs = <<>> => stack = <<>>
    /\ diags \subseteq SUBSET unresolved

(***************************************************************************)
(* The passes find the least solution: every set that contains each local  *)
(* it gives all it needs contains the resolved ones, and they are such a   *)
(* set.  So no local gets a value out of a cycle, none that could have one *)
(* is left out, and an argument nobody declared helps none.                *)
(***************************************************************************)
Available(v) ==
    v \in DOMAIN module.variables /\ (v \in module.overrides \/ module.variables[v] = "literal")

Closed(S) ==
    \A n \in Declared :
        expr(n).needs \subseteq S /\ (\A v \in expr(n).vars : Available(v)) => n \in S

LeastResolution ==
    pc # "passes" => /\ Closed(resolved)
                     /\ \A S \in SUBSET Declared : Closed(S) => resolved \subseteq S

(***************************************************************************)
(* The warnings are the dependency cycles, all of them and nothing else:   *)
(* the maximal sets of unresolved locals each of which depends on every    *)
(* one, itself included, by a chain of mentions.                           *)
(***************************************************************************)
Mentioned(n) == expr(n).mentions \intersect unresolved

(* What a local depends on is in every set that has what it mentions and,  *)
(* with any member, what that one mentions.                                 *)
Whole(S) == \A n \in S : Mentioned(n) \subseteq S

DependsOn ==
    {e \in unresolved \X unresolved :
        \A S \in SUBSET unresolved : Mentioned(e[1]) \subseteq S /\ Whole(S) => e[2] \in S}

CyclesExact ==
    pc = "done" =>
        LET depends == DependsOn
            Mutual(S) == S # {} /\ S \X S \subseteq depends
        IN  diags = {S \in SUBSET unresolved :
                        Mutual(S) /\ \A n \in unresolved \ S : ~Mutual(S \union {n})}

(***************************************************************************)
(* A local that stays without a value has a cause the user can look for: a *)
(* reported cycle, a variable without a value, or a local nobody declared, *)
(* each at the end of a chain of locals without a value.                   *)
(***************************************************************************)
HasCause(n) ==
    \/ n \in UNION diags
    \/ \E v \in expr(n).vars : ~Available(v)
    \/ ~(expr(n).needs \subseteq Declared)

UnresolvedHasCause ==
    pc = "done" =>
        LET depends == DependsOn
        IN  \A n \in unresolved : \E m \in unresolved : HasCause(m) /\ (m = n \/ <<n, m>> \in depends)

(* Both loops end: the passes and the search.                               *)
Terminates == <>(pc = "done")
=============================================================================
