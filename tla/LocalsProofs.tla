----------------------------- MODULE LocalsProofs -----------------------------
(***************************************************************************)
(* Proofs about buildEvalContext, for any module of any number of locals:  *)
(* the passes find the least solution, and the search for cycles, Tarjan's *)
(* algorithm, finds exactly the components that depend on themselves.      *)
(***************************************************************************)
EXTENDS Locals, ListProofs

-----------------------------------------------------------------------------
(* The passes.                                                              *)

IsLeast == \A S \in SUBSET Declared : Closed(S) => resolved \subseteq S

PassesInv ==
    /\ pc \in {"passes", "cycles", "done"}
    /\ resolved \subseteq Declared /\ visible = resolved
    /\ IsLeast
    /\ pc # "passes" => Closed(resolved)

(* What the other actions leave alone.                                      *)
LEMMA SearchLeaves ==
    ASSUME SkipRoot \/ VisitRoot \/ Descend \/ SeeVisited \/ CloseNode \/ Report
    PROVE  /\ module' = module /\ resolved' = resolved /\ visible' = visible
           /\ pc = "cycles" /\ pc' \in {"cycles", "done"}
BY DEF SkipRoot, VisitRoot, AtNeighbour, Descend, SeeVisited, CloseNode, Report

LEMMA ClosedStays ==
    ASSUME module' = module
    PROVE  \A S : Closed(S)' <=> Closed(S)
BY DEF Closed, Available, Declared, expr

LEMMA EvaluatesIs ==
    ASSUME visible = resolved, NEW n
    PROVE  Evaluates(n) <=> expr(n).needs \subseteq resolved /\ \A v \in expr(n).vars : Available(v)
BY DEF Evaluates, varValues, Available

LEMMA PassesStart == Init => PassesInv
BY DEF Init, PassesInv, IsLeast

LEMMA PassesStep == PassesInv /\ [Next]_vars => PassesInv'
<1> SUFFICES ASSUME PassesInv, [Next]_vars PROVE PassesInv'
  OBVIOUS
<1>1. CASE Pass
  <2>1. /\ resolved' = resolved \union {n \in unresolved : Evaluates(n)} /\ visible' = resolved'
        /\ module' = module /\ pc' = pc /\ pc = "passes"
    BY <1>1 DEF Pass
  <2>2. Declared' = Declared /\ resolved' \subseteq Declared
    BY <2>1 DEF Declared, unresolved, PassesInv
  <2>3. ASSUME NEW S \in SUBSET Declared, Closed(S) PROVE resolved' \subseteq S
    <3>1. resolved \subseteq S
      BY <2>3 DEF PassesInv, IsLeast
    <3>2. ASSUME NEW n \in unresolved, Evaluates(n) PROVE n \in S
      <4>1. n \in Declared /\ expr(n).needs \subseteq S /\ \A v \in expr(n).vars : Available(v)
        BY <3>1, <3>2, EvaluatesIs DEF PassesInv, unresolved
      <4> QED BY <2>3, <4>1 DEF Closed
    <3> QED BY <2>1, <3>1, <3>2
  <2>4. IsLeast'
    BY <2>1, <2>2, <2>3, ClosedStays DEF IsLeast
  <2> QED BY <2>1, <2>2, <2>4 DEF PassesInv
<1>2. CASE EndPasses
  <2>1. /\ resolved' = resolved /\ visible' = visible /\ module' = module /\ pc' = "cycles"
        /\ \A n \in unresolved : ~Evaluates(n)
    BY <1>2 DEF EndPasses
  <2>2. Closed(resolved)
    <3> SUFFICES ASSUME NEW n \in Declared, n \notin resolved,
                        expr(n).needs \subseteq resolved, \A v \in expr(n).vars : Available(v)
                 PROVE  FALSE
      BY DEF Closed
    <3>1. Evaluates(n)
      BY EvaluatesIs DEF PassesInv
    <3> QED BY <2>1, <3>1 DEF unresolved
  <2> QED BY <2>1, <2>2, ClosedStays DEF PassesInv, IsLeast, Declared
<1>3. CASE SkipRoot \/ VisitRoot \/ Descend \/ SeeVisited \/ CloseNode \/ Report
  BY <1>3, SearchLeaves, ClosedStays DEF PassesInv, IsLeast, Declared
<1>4. CASE UNCHANGED vars
  BY <1>4, ClosedStays DEF vars, PassesInv, IsLeast, Declared
<1> QED BY <1>1, <1>2, <1>3, <1>4 DEF Next

(* For any module: the locals with a value are those the declarations give   *)
(* one, by a chain that ends, and all of them.                               *)
THEOREM AlwaysLeastResolution == Spec => []LeastResolution
<1>1. PassesInv => LeastResolution
  BY DEF PassesInv, IsLeast, LeastResolution
<1> QED BY PassesStart, PassesStep, <1>1, PTL DEF Spec

-----------------------------------------------------------------------------
(* The search for cycles: the numbers grow from the bottom of the stack to   *)
(* its top, the frames are open locals in that order, the first one at the   *)
(* bottom, and no lowlink of an open local is below the number of that one.  *)

Frame == [node: DOMAIN indices, i: Nat]

FramesFit(d) ==
    /\ d \in Seq(Frame)
    /\ \A i \in DOMAIN d : d[i].node \in ToSet(stack) /\ d[i].i \in 1 .. Len(adj(d[i].node)) + 1
    /\ \A i, k \in DOMAIN d : i < k => indices[d[i].node] < indices[d[k].node]
    /\ IF d = <<>> THEN stack = <<>> ELSE stack # <<>> /\ stack[1] = d[1].node

NumbersFit ==
    /\ IsFiniteSet(DOMAIN indices) /\ index = Cardinality(DOMAIN indices)
    /\ DOMAIN indices \subseteq unresolved
    /\ \A n \in DOMAIN indices : indices[n] \in Nat /\ indices[n] < index

LowlinksFit ==
    /\ DOMAIN lowlink = DOMAIN indices
    /\ \A n \in DOMAIN indices :
          /\ lowlink[n] \in Nat /\ lowlink[n] <= indices[n]
          /\ n \in ToSet(stack) => indices[stack[1]] <= lowlink[n]

StackFits ==
    /\ stack \in Seq(DOMAIN indices)
    /\ \A i, k \in DOMAIN stack : i < k => indices[stack[i]] < indices[stack[k]]
    /\ ToSet(stack) = DOMAIN indices \ UNION ToSet(sccs)
    /\ sccs \in Seq(SUBSET Local) /\ \A C \in ToSet(sccs) : C \subseteq DOMAIN indices

NotBegun == nodes = <<>> /\ DOMAIN indices = {} /\ stack = <<>> /\ dfs = <<>> /\ sccs = <<>> /\ diags = {}

SearchInv ==
    /\ module \in Modules /\ pc \in {"passes", "cycles", "done"}
    /\ resolved \subseteq Declared /\ visible = resolved
    /\ pc = "passes" => NotBegun
    /\ nodes \in Seq(unresolved)
    /\ NumbersFit /\ LowlinksFit /\ StackFits /\ FramesFit(dfs)
    /\ diags \subseteq SUBSET unresolved

LEMMA SetOfSeq ==
    ASSUME NEW X, NEW s \in Seq(X)
    PROVE  /\ Len(s) \in Nat /\ DOMAIN s = 1 .. Len(s)
           /\ \A i \in DOMAIN s : i \in Nat /\ s[i] \in X /\ s[i] \in ToSet(s)
           /\ \A x \in ToSet(s) : x \in X /\ \E i \in DOMAIN s : s[i] = x
           /\ s # <<>> => 1 \in DOMAIN s /\ Len(s) \in DOMAIN s /\ Head(s) = s[1] /\ Tail(s) \in Seq(X)
BY DEF ToSet

LEMMA AppendIs ==
    ASSUME NEW X, NEW s \in Seq(X), NEW x \in X
    PROVE  /\ Append(s, x) \in Seq(X) /\ Append(s, x) # <<>>
           /\ DOMAIN Append(s, x) = 1 .. Len(s) + 1 /\ Len(Append(s, x)) = Len(s) + 1
           /\ Append(s, x)[Len(s) + 1] = x
           /\ \A i \in DOMAIN s : i \in 1 .. Len(s) + 1 /\ Append(s, x)[i] = s[i]
           /\ \A i \in 1 .. Len(s) + 1 : i \in DOMAIN s \/ i = Len(s) + 1
           /\ ToSet(Append(s, x)) = ToSet(s) \union {x}
<1>1. /\ Append(s, x) \in Seq(X) /\ Append(s, x) # <<>>
      /\ DOMAIN Append(s, x) = 1 .. Len(s) + 1 /\ Len(Append(s, x)) = Len(s) + 1
      /\ Append(s, x)[Len(s) + 1] = x
      /\ \A i \in DOMAIN s : i \in 1 .. Len(s) + 1 /\ Append(s, x)[i] = s[i]
      /\ \A i \in 1 .. Len(s) + 1 : i \in DOMAIN s \/ i = Len(s) + 1
      /\ Len(s) + 1 \in 1 .. Len(s) + 1
  OBVIOUS
<1>2. ToSet(Append(s, x)) = ToSet(s) \union {x}
  BY <1>1 DEF ToSet
<1> QED BY <1>1, <1>2

(* The names a local mentions, in order, are locals without a value.         *)
LEMMA AdjIs ==
    ASSUME module \in Modules, NEW n
    PROVE  /\ adj(n) \in Seq(unresolved) /\ Len(adj(n)) \in Nat
           /\ \A i \in 1 .. Len(adj(n)) : adj(n)[i] \in unresolved
<1> DEFINE S == (expr(n).mentions \intersect unresolved) \ {n}
<1>1. unresolved \subseteq Local
  BY ModulesAssumption DEF unresolved, Declared, IsModule
<1>2. S \in SUBSET Local /\ S \in SUBSET unresolved
  BY <1>1
<1>3. IsFiniteSet(S) /\ S \in SUBSET Nat
  BY <1>2, LocalAssumption, FS_Subset
<1> HIDE DEF S
<1>4. Sorted(S) \in Seq(S)
  BY <1>3, SortedListsKeys
<1>5. adj(n) = Sorted(S)
  BY DEF adj, S
<1> QED BY <1>2, <1>4, <1>5

LEMMA UnresolvedSorted ==
    ASSUME module \in Modules
    PROVE  Sorted(unresolved) \in Seq(unresolved)
<1>1. unresolved \in SUBSET Local
  BY ModulesAssumption DEF unresolved, Declared, IsModule
<1>2. IsFiniteSet(unresolved) /\ unresolved \in SUBSET Nat
  BY <1>1, LocalAssumption, FS_Subset
<1> QED BY <1>2, SortedListsKeys

LEMMA SearchStarts == Init => SearchInv
<1> SUFFICES ASSUME Init PROVE SearchInv
  OBVIOUS
<1>1. NumbersFit
  BY FS_EmptySet DEF Init, NumbersFit
<1>2. LowlinksFit /\ StackFits /\ FramesFit(dfs)
  BY DEF Init, LowlinksFit, StackFits, FramesFit, ToSet
<1> QED BY <1>1, <1>2 DEF Init, SearchInv, NotBegun

(* A first visit, on top of frames that fit.                                 *)
LEMMA VisitKeeps ==
    ASSUME SearchInv, pc = "cycles", NEW n \in unresolved, n \notin DOMAIN indices,
           NEW base, FramesFit(base), Visit(n, base), nodes' \in Seq(unresolved),
           UNCHANGED <<module, pc, resolved, visible, sccs, diags>>
    PROVE  SearchInv'
<1>1. /\ indices' = Put(indices, n, index) /\ lowlink' = Put(lowlink, n, index)
      /\ index' = index + 1 /\ stack' = Append(stack, n)
      /\ dfs' = Append(base, [node |-> n, i |-> 1])
  BY DEF Visit
<1>2. unresolved' = unresolved /\ \A x : adj(x)' = adj(x)
  BY DEF unresolved, Declared, adj, expr
<1>0. /\ index \in Nat /\ IsFiniteSet(DOMAIN indices) /\ index = Cardinality(DOMAIN indices)
  BY FS_CardinalityType DEF SearchInv, NumbersFit
<1>3. /\ DOMAIN indices' = DOMAIN indices \union {n} /\ indices'[n] = index
      /\ \A x \in DOMAIN indices : indices'[x] = indices[x] /\ x # n
      /\ DOMAIN lowlink' = DOMAIN indices' /\ lowlink'[n] = index
      /\ \A x \in DOMAIN indices : lowlink'[x] = lowlink[x]
  BY <1>1 DEF Put, SearchInv, LowlinksFit
<1>4. NumbersFit'
  <2>1. IsFiniteSet(DOMAIN indices') /\ Cardinality(DOMAIN indices') = index + 1
    BY <1>0, <1>3, FS_AddElement
  <2>2. \A x \in DOMAIN indices : indices[x] \in Nat /\ indices[x] < index /\ x \in unresolved
    BY DEF SearchInv, NumbersFit
  <2>3. \A x \in DOMAIN indices' : indices'[x] \in Nat /\ indices'[x] < index'
    BY <1>0, <1>1, <1>3, <2>2
  <2>4. DOMAIN indices' \subseteq unresolved'
    BY <1>2, <1>3, <2>2
  <2> QED BY <1>1, <2>1, <2>3, <2>4 DEF NumbersFit
<1>5. /\ stack \in Seq(DOMAIN indices') /\ n \in DOMAIN indices'
      /\ \A i \in DOMAIN stack : stack[i] \in DOMAIN indices
  BY <1>3 DEF SearchInv, StackFits
<1>6. /\ stack' \in Seq(DOMAIN indices') /\ stack' # <<>>
      /\ DOMAIN stack' = 1 .. Len(stack) + 1 /\ stack'[Len(stack) + 1] = n
      /\ \A i \in DOMAIN stack : i \in DOMAIN stack' /\ stack'[i] = stack[i]
      /\ \A i \in DOMAIN stack' : i \in DOMAIN stack \/ i = Len(stack) + 1
      /\ ToSet(stack') = ToSet(stack) \union {n}
  BY <1>1, <1>5, AppendIs
<1>7. Len(stack) \in Nat /\ DOMAIN stack = 1 .. Len(stack)
  BY <1>5
<1>8. StackFits'
  <2>1. ASSUME NEW i \in DOMAIN stack', NEW k \in DOMAIN stack', i < k
        PROVE  indices'[stack'[i]] < indices'[stack'[k]]
    <3>1. i \in DOMAIN stack
      BY <1>6, <1>7, <2>1
    <3>2. stack'[i] = stack[i] /\ stack[i] \in DOMAIN indices
      BY <1>5, <1>6, <3>1
    <3>3. CASE k \in DOMAIN stack
      BY <1>3, <1>5, <1>6, <2>1, <3>1, <3>2, <3>3 DEF SearchInv, StackFits
    <3>4. CASE k = Len(stack) + 1
      <4>1. indices'[stack'[k]] = index /\ indices'[stack'[i]] = indices[stack[i]]
        BY <1>3, <1>6, <3>2, <3>4
      <4> QED BY <3>2, <4>1 DEF SearchInv, NumbersFit
    <3> QED BY <1>6, <3>3, <3>4
  <2>2. ToSet(stack') = DOMAIN indices' \ UNION ToSet(sccs')
    BY <1>3, <1>6 DEF SearchInv, StackFits
  <2>3. sccs' \in Seq(SUBSET Local) /\ \A C \in ToSet(sccs') : C \subseteq DOMAIN indices'
    BY <1>3 DEF SearchInv, StackFits
  <2> QED BY <1>6, <2>1, <2>2, <2>3 DEF StackFits
<1>9. LowlinksFit'
  <2>1. stack = <<>> => stack'[1] = n
    BY <1>6
  <2>2. stack # <<>> => stack'[1] = stack[1] /\ stack[1] \in DOMAIN indices
    BY <1>5, <1>6, <1>7
  <2>3. indices'[stack'[1]] <= index
    <3>1. CASE stack = <<>>
      BY <1>0, <1>3, <2>1, <3>1
    <3>2. CASE stack # <<>>
      BY <1>0, <1>3, <2>2, <3>2 DEF SearchInv, NumbersFit
    <3> QED BY <3>1, <3>2
  <2>4. ASSUME NEW x \in DOMAIN indices
        PROVE  /\ lowlink'[x] \in Nat /\ lowlink'[x] <= indices'[x]
               /\ x \in ToSet(stack') => indices'[stack'[1]] <= lowlink'[x]
    <3>1. lowlink[x] \in Nat /\ lowlink[x] <= indices[x] /\ (x \in ToSet(stack) => indices[stack[1]] <= lowlink[x])
      BY DEF SearchInv, LowlinksFit
    <3>2. x \in ToSet(stack') => x \in ToSet(stack) /\ stack # <<>>
      BY <1>3, <1>6 DEF ToSet
    <3> QED BY <1>3, <2>2, <3>1, <3>2
  <2>5. lowlink'[n] \in Nat /\ lowlink'[n] <= indices'[n] /\ indices'[stack'[1]] <= lowlink'[n]
    BY <1>0, <1>3, <2>3
  <2> QED BY <1>3, <2>4, <2>5 DEF LowlinksFit
<1>10. FramesFit(dfs)'
  <2> DEFINE f == [node |-> n, i |-> 1]
             F == [node: DOMAIN indices', i: Nat]
  <2>0. base \in Seq(Frame) /\ Len(base) \in Nat /\ DOMAIN base = 1 .. Len(base)
    BY DEF FramesFit
  <2>1. base \in Seq(F) /\ f \in F
    <3>1. base \in [1 .. Len(base) -> Frame]
      BY <2>0
    <3>2. Frame \subseteq F
      BY <1>3 DEF Frame
    <3>3. base \in [1 .. Len(base) -> F]
      BY <3>1, <3>2
    <3>4. f \in F
      BY <1>3
    <3> HIDE DEF f, F
    <3> QED BY <2>0, <3>3, <3>4
  <2>2. f.node = n /\ f.i = 1
    OBVIOUS
  <2> HIDE DEF f, F
  <2>3. /\ dfs' \in Seq(F) /\ dfs' # <<>> /\ dfs'[Len(base) + 1] = f
        /\ \A i \in DOMAIN base : i \in DOMAIN dfs' /\ dfs'[i] = base[i]
        /\ \A i \in DOMAIN dfs' : i \in DOMAIN base \/ i = Len(base) + 1
    BY <1>1, <2>1, AppendIs DEF f
  <2>4. /\ \A i \in DOMAIN base : /\ base[i].node \in ToSet(stack) /\ base[i].node \in DOMAIN indices
                                 /\ base[i].i \in 1 .. Len(adj(base[i].node)) + 1
        /\ \A i, k \in DOMAIN base : i < k => indices[base[i].node] < indices[base[k].node]
        /\ IF base = <<>> THEN stack = <<>> ELSE stack # <<>> /\ stack[1] = base[1].node
    <3>1. \A i \in DOMAIN base : base[i] \in Frame
      BY <2>0
    <3>2. \A i \in DOMAIN base : base[i].node \in DOMAIN indices
      BY <3>1 DEF Frame
    <3> QED BY <3>2 DEF FramesFit
  <2>5. Len(adj(n)) \in Nat
    BY AdjIs DEF SearchInv
  <2>6. \A i \in DOMAIN dfs' : dfs'[i].node \in ToSet(stack') /\ dfs'[i].i \in 1 .. Len(adj(dfs'[i].node)) + 1
    BY <1>6, <2>2, <2>3, <2>4, <2>5
  <2>7. ASSUME NEW i \in DOMAIN dfs', NEW k \in DOMAIN dfs', i < k
        PROVE  indices'[dfs'[i].node] < indices'[dfs'[k].node]
    <3>1. i \in DOMAIN base
      BY <2>0, <2>3, <2>7
    <3>2. dfs'[i] = base[i] /\ base[i].node \in DOMAIN indices
      BY <2>3, <2>4, <3>1
    <3>3. CASE k \in DOMAIN base
      BY <1>3, <2>3, <2>4, <2>7, <3>1, <3>2, <3>3
    <3>4. CASE k = Len(base) + 1
      <4>1. indices'[dfs'[k].node] = index /\ indices'[dfs'[i].node] = indices[base[i].node]
        BY <1>3, <2>2, <2>3, <3>2, <3>4
      <4> QED BY <3>2, <4>1 DEF SearchInv, NumbersFit
    <3> QED BY <2>3, <3>3, <3>4
  <2>8. stack' # <<>> /\ stack'[1] = dfs'[1].node
    <3>1. CASE base = <<>>
      BY <1>6, <2>2, <2>3, <2>4, <3>1
    <3>2. CASE base # <<>>
      <4>1. 1 \in DOMAIN base /\ 1 \in DOMAIN stack
        BY <1>7, <2>0, <2>4, <3>2, <1>5
      <4> QED BY <1>6, <2>3, <2>4, <3>2, <4>1
    <3> QED BY <3>1, <3>2
  <2>9. dfs' \in Seq(Frame')
    BY <2>3 DEF F, Frame
  <2>10. \A i \in DOMAIN dfs' : dfs'[i].node \in ToSet(stack') /\ dfs'[i].i \in 1 .. Len(adj(dfs[i].node)') + 1
    BY <1>2, <2>6
  <2> QED BY <2>3, <2>7, <2>8, <2>9, <2>10 DEF FramesFit
<1> QED BY <1>2, <1>4, <1>8, <1>9, <1>10 DEF SearchInv, Declared

(* What a step that lowers a lowlink, or pops the stack, must leave.         *)
LEMMA LoweredFits ==
    ASSUME SearchInv, NEW n \in DOMAIN indices, NEW v \in Nat,
           v <= indices[n], n \in ToSet(stack) => indices[stack[1]] <= v,
           lowlink' = lowlink \/ lowlink' = Put(lowlink, n, v),
           indices' = indices, ToSet(stack') \subseteq ToSet(stack),
           \A x \in ToSet(stack') : stack'[1] = stack[1]
    PROVE  LowlinksFit'
<1>1. /\ DOMAIN lowlink' = DOMAIN indices
      /\ \A x \in DOMAIN indices : lowlink'[x] = lowlink[x] \/ (x = n /\ lowlink'[x] = v)
  BY DEF Put, SearchInv, LowlinksFit
<1>2. \A x \in DOMAIN indices :
        /\ lowlink[x] \in Nat /\ lowlink[x] <= indices[x]
        /\ x \in ToSet(stack) => indices[stack[1]] <= lowlink[x]
  BY DEF SearchInv, LowlinksFit
<1>3. ASSUME NEW x \in DOMAIN indices
      PROVE  /\ lowlink'[x] \in Nat /\ lowlink'[x] <= indices[x]
             /\ x \in ToSet(stack') => indices[stack'[1]] <= lowlink'[x]
  BY <1>1, <1>2
<1> QED BY <1>1, <1>3 DEF LowlinksFit

LEMMA TopIs ==
    ASSUME SearchInv, dfs # <<>>
    PROVE  /\ Len(dfs) \in DOMAIN dfs /\ Len(dfs) \in Nat /\ DOMAIN dfs = 1 .. Len(dfs)
           /\ \A i \in DOMAIN dfs : dfs[i] \in Frame /\ dfs[i].node \in DOMAIN indices /\ dfs[i].i \in Nat
           /\ TopFrame = dfs[Len(dfs)]
           /\ TopFrame.node \in DOMAIN indices /\ TopFrame.node \in ToSet(stack)
           /\ \A i \in DOMAIN dfs : i # Len(dfs) => indices[dfs[i].node] < indices[TopFrame.node]
<1>1. dfs \in Seq(Frame)
  BY DEF SearchInv, FramesFit
<1>2. /\ Len(dfs) \in DOMAIN dfs /\ Len(dfs) \in Nat /\ DOMAIN dfs = 1 .. Len(dfs)
      /\ \A i \in DOMAIN dfs : dfs[i] \in Frame
  BY <1>1
<1>3. \A i \in DOMAIN dfs : dfs[i].node \in DOMAIN indices /\ dfs[i].i \in Nat
  BY <1>2 DEF Frame
<1>4. \A i \in DOMAIN dfs : i # Len(dfs) => i < Len(dfs)
  BY <1>2
<1> QED BY <1>2, <1>3, <1>4 DEF TopFrame, SearchInv, FramesFit

LEMMA AdvancedFits == ASSUME SearchInv, AtNeighbour PROVE FramesFit(Advanced) /\ Advanced # <<>>
<1> DEFINE l == Len(dfs)
           f == [dfs[l] EXCEPT !.i = dfs[l].i + 1]
<1>1. /\ dfs # <<>> /\ l \in DOMAIN dfs /\ l \in Nat /\ DOMAIN dfs = 1 .. l
      /\ \A i \in DOMAIN dfs : dfs[i] \in Frame /\ dfs[i].i \in Nat
      /\ dfs[l].i <= Len(adj(dfs[l].node))
  BY TopIs DEF AtNeighbour, TopFrame
<1>2. /\ f \in Frame /\ f.node = dfs[l].node /\ f.i = dfs[l].i + 1
  BY <1>1 DEF Frame
<1>3. Advanced = [dfs EXCEPT ![l] = f]
  BY <1>1 DEF Advanced
<1> HIDE DEF f, l
<1>4. /\ Advanced \in [1 .. l -> Frame] /\ DOMAIN Advanced = DOMAIN dfs /\ Advanced # <<>>
      /\ \A i \in DOMAIN dfs : Advanced[i] = IF i = l THEN f ELSE dfs[i]
  <2>1. dfs \in [1 .. l -> Frame]
    BY <1>1 DEF SearchInv, FramesFit, l
  <2>2. Advanced # <<>>
    BY <1>1, <1>3, <2>1
  <2> QED BY <1>1, <1>2, <1>3, <2>1, <2>2
<1>5. Advanced \in Seq(Frame)
  BY <1>1, <1>4
<1>6. \A i \in DOMAIN dfs : Advanced[i].node = dfs[i].node
  BY <1>2, <1>4
<1>7. Len(adj(dfs[l].node)) \in Nat
  BY AdjIs DEF SearchInv
<1>8. \A i \in DOMAIN dfs : dfs[i].i \in 1 .. Len(adj(dfs[i].node)) + 1
  BY DEF SearchInv, FramesFit
<1>9. \A i \in DOMAIN dfs : Advanced[i].i \in 1 .. Len(adj(dfs[i].node)) + 1
  BY <1>1, <1>2, <1>4, <1>7, <1>8
<1>10. 1 \in DOMAIN dfs
  BY <1>1
<1> QED BY <1>1, <1>4, <1>5, <1>6, <1>9, <1>10 DEF SearchInv, FramesFit

LEMMA NeighbourIs == ASSUME SearchInv, AtNeighbour PROVE Neighbour \in unresolved
<1>1. TopFrame.i \in 1 .. Len(adj(TopFrame.node))
  <2>1. TopFrame = dfs[Len(dfs)] /\ Len(dfs) \in DOMAIN dfs /\ TopFrame.i \in Nat
    BY TopIs DEF AtNeighbour
  <2>2. TopFrame.i \in 1 .. Len(adj(TopFrame.node)) + 1 /\ Len(adj(TopFrame.node)) \in Nat
    BY <2>1, AdjIs DEF SearchInv, FramesFit
  <2> QED BY <2>2 DEF AtNeighbour
<1> QED BY <1>1, AdjIs DEF SearchInv, Neighbour

LEMMA SeeVisitedKeeps == ASSUME SearchInv, SeeVisited PROVE SearchInv'
<1> DEFINE low == TopFrame.node
           high == Neighbour
<1>1. /\ AtNeighbour /\ high \in DOMAIN indices /\ lowlink' = Lowered(low, high) /\ dfs' = Advanced
      /\ dfs # <<>>
      /\ UNCHANGED <<module, pc, resolved, visible, nodes, index, indices, stack, sccs, diags>>
  BY DEF SeeVisited, AtNeighbour
<1>2. unresolved' = unresolved /\ \A x : adj(x)' = adj(x)
  BY <1>1 DEF unresolved, Declared, adj, expr
<1>3. low \in DOMAIN indices
  BY <1>1, TopIs
<1> HIDE DEF low, high
<1>4. /\ NumbersFit /\ LowlinksFit /\ StackFits
      /\ \A x \in DOMAIN indices : indices[x] \in Nat
  BY DEF SearchInv, NumbersFit
<1>5. LowlinksFit'
  <2>1. CASE onStack(high) /\ indices[high] < lowlink[low]
    <3>1. lowlink' = Put(lowlink, low, indices[high])
      BY <1>1, <2>1 DEF Lowered
    <3>2. indices[high] \in Nat /\ indices[high] <= indices[low]
      BY <1>1, <1>3, <1>4, <2>1 DEF LowlinksFit
    <3>3. indices[stack[1]] <= indices[high]
      <4>1. high \in ToSet(stack)
        BY <2>1 DEF onStack
      <4>2. indices[stack[1]] <= lowlink[high] /\ lowlink[high] \in Nat /\ lowlink[high] <= indices[high]
        BY <1>1, <4>1, <1>4 DEF LowlinksFit
      <4>3. stack[1] \in DOMAIN indices
        BY <1>4, <4>1, SetOfSeq DEF StackFits, ToSet
      <4> QED BY <1>1, <1>4, <4>2, <4>3
    <3> QED BY <1>1, <1>3, <3>1, <3>2, <3>3, LoweredFits
  <2>2. CASE ~(onStack(high) /\ indices[high] < lowlink[low])
    BY <1>1, <1>4, <2>2 DEF Lowered, LowlinksFit
  <2> QED BY <2>1, <2>2
<1>6. FramesFit(dfs)'
  BY <1>1, <1>2, AdvancedFits DEF FramesFit, Frame
<1>7. NumbersFit' /\ StackFits'
  BY <1>1, <1>2, <1>4 DEF NumbersFit, StackFits
<1> QED BY <1>1, <1>2, <1>5, <1>6, <1>7 DEF SearchInv, Declared, AtNeighbour, NotBegun

(* Cutting the stack at a place leaves what is below it.                     *)
LEMMA CutIs ==
    ASSUME StackFits, NumbersFit, NEW b \in DOMAIN stack
    PROVE  LET below == SubSeq(stack, 1, b - 1)
               popped == SubSeq(stack, b, Len(stack))
           IN  /\ below \in Seq(DOMAIN indices)
               /\ DOMAIN below = 1 .. b - 1 /\ \A i \in 1 .. b - 1 : i \in DOMAIN stack /\ below[i] = stack[i]
               /\ ToSet(below) \union ToSet(popped) = ToSet(stack)
               /\ ToSet(below) \intersect ToSet(popped) = {}
<1> DEFINE l == Len(stack)
           below == SubSeq(stack, 1, b - 1)
           popped == SubSeq(stack, b, l)
<1>1. /\ stack \in Seq(DOMAIN indices) /\ l \in Nat /\ DOMAIN stack = 1 .. l /\ b \in 1 .. l
      /\ \A i, k \in DOMAIN stack : i < k => indices[stack[i]] < indices[stack[k]]
  BY DEF StackFits
<1>2. /\ below \in Seq(DOMAIN indices) /\ DOMAIN below = 1 .. b - 1
      /\ \A i \in 1 .. b - 1 : i \in DOMAIN stack /\ below[i] = stack[i]
  BY <1>1
<1>3. /\ DOMAIN popped = 1 .. l - b + 1
      /\ \A i \in 1 .. l - b + 1 : i + b - 1 \in b .. l /\ popped[i] = stack[i + b - 1]
  BY <1>1
<1> HIDE DEF below, popped, l
<1>4. \A x : x \in ToSet(below) <=> \E i \in 1 .. b - 1 : stack[i] = x
  BY <1>2 DEF ToSet
<1>5. \A x : x \in ToSet(popped) <=> \E i \in b .. l : stack[i] = x
  <2> TAKE x
  <2>1. ASSUME NEW i \in b .. l, stack[i] = x PROVE x \in ToSet(popped)
    <3>1. i - b + 1 \in 1 .. l - b + 1 /\ i - b + 1 + b - 1 = i
      BY <1>1
    <3>2. popped[i - b + 1] = x
      BY <1>3, <2>1, <3>1
    <3> QED BY <1>3, <3>1, <3>2 DEF ToSet
  <2>2. ASSUME NEW i \in DOMAIN popped, popped[i] = x PROVE \E k \in b .. l : stack[k] = x
    BY <1>3, <2>2
  <2> QED BY <2>1, <2>2 DEF ToSet
<1>6. \A i \in 1 .. b - 1, k \in b .. l : stack[i] # stack[k]
  <2> TAKE i \in 1 .. b - 1, k \in b .. l
  <2>1. i \in DOMAIN stack /\ k \in DOMAIN stack /\ i < k
    BY <1>1
  <2>2. indices[stack[i]] < indices[stack[k]]
    BY <1>1, <2>1
  <2>3. stack[i] \in DOMAIN indices
    BY <1>1, <2>1
  <2>4. indices[stack[i]] \in Nat
    BY <2>3 DEF NumbersFit
  <2> QED BY <2>2, <2>4
<1>7. \A x : x \in ToSet(stack) <=> \E i \in 1 .. l : stack[i] = x
  BY <1>1 DEF ToSet
<1>8. \A i : i \in 1 .. l <=> i \in 1 .. b - 1 \/ i \in b .. l
  BY <1>1
<1>9. ToSet(below) \union ToSet(popped) = ToSet(stack)
  BY <1>4, <1>5, <1>7, <1>8
<1>10. ToSet(below) \intersect ToSet(popped) = {}
  BY <1>4, <1>5, <1>6
<1> QED BY <1>2, <1>9, <1>10 DEF below, popped, l

LEMMA CloseNodeKeeps == ASSUME SearchInv, CloseNode PROVE SearchInv'
<1> DEFINE n == TopFrame.node
           l == Len(dfs)
           rest == SubSeq(dfs, 1, l - 1)
           parent == rest[Len(rest)].node
           b == Bottom(n)
<1>1. /\ dfs # <<>> /\ pc = "cycles" /\ dfs' = rest
      /\ IF lowlink[n] = indices[n]
         THEN /\ sccs' = Append(sccs, ToSet(SubSeq(stack, b, Len(stack))))
              /\ stack' = SubSeq(stack, 1, b - 1)
         ELSE sccs' = sccs /\ stack' = stack
      /\ lowlink' = IF rest # <<>> /\ lowlink[n] < lowlink[parent] THEN Put(lowlink, parent, lowlink[n]) ELSE lowlink
      /\ UNCHANGED <<module, pc, resolved, visible, nodes, index, indices, diags>>
  BY DEF CloseNode
<1>2. unresolved' = unresolved /\ \A x : adj(x)' = adj(x)
  BY <1>1 DEF unresolved, Declared, adj, expr
<1>3. /\ l \in DOMAIN dfs /\ l \in Nat /\ DOMAIN dfs = 1 .. l
      /\ \A i \in DOMAIN dfs : dfs[i].node \in DOMAIN indices
      /\ TopFrame = dfs[l] /\ n \in DOMAIN indices /\ n \in ToSet(stack)
      /\ \A i \in DOMAIN dfs : i # l => indices[dfs[i].node] < indices[n]
  BY <1>1, TopIs
<1>4. /\ dfs \in Seq(Frame)
      /\ \A i \in DOMAIN dfs : dfs[i].node \in ToSet(stack) /\ dfs[i].i \in 1 .. Len(adj(dfs[i].node)) + 1
      /\ \A i, k \in DOMAIN dfs : i < k => indices[dfs[i].node] < indices[dfs[k].node]
      /\ stack # <<>> /\ stack[1] = dfs[1].node
  BY <1>1 DEF SearchInv, FramesFit
<1>5. /\ rest \in Seq(Frame) /\ Len(rest) = l - 1 /\ DOMAIN rest = 1 .. l - 1
      /\ \A i \in 1 .. l - 1 : i \in DOMAIN dfs /\ i # l /\ rest[i] = dfs[i]
      /\ (rest = <<>> <=> l = 1)
  BY <1>3, <1>4
<1> HIDE DEF rest, l, n
<1>6. b \in DOMAIN stack /\ stack[b] = n
  BY <1>3 DEF Bottom, ToSet
<1> HIDE DEF b
<1>7. NumbersFit /\ LowlinksFit /\ StackFits /\ \A x \in DOMAIN indices : indices[x] \in Nat
  BY DEF SearchInv, NumbersFit
<1>8. /\ lowlink[n] \in Nat /\ lowlink[n] <= indices[n] /\ indices[stack[1]] <= lowlink[n]
      /\ indices[n] \in Nat
  BY <1>3, <1>7 DEF LowlinksFit
<1>9. l = 1 => b = 1 /\ lowlink[n] = indices[n]
  <2> SUFFICES ASSUME l = 1 PROVE b = 1 /\ lowlink[n] = indices[n]
    OBVIOUS
  <2>1. stack[1] = n
    BY <1>3, <1>4 DEF n
  <2>2. lowlink[n] = indices[n]
    BY <1>8, <2>1
  <2>3. stack \in Seq(DOMAIN indices) /\ b \in Nat /\ b >= 1 /\ 1 \in DOMAIN stack
    BY <1>4, <1>6, <1>7 DEF StackFits
  <2>4. ~(1 < b)
    <3>1. 1 < b => indices[stack[1]] < indices[stack[b]]
      BY <1>6, <1>7, <2>3 DEF StackFits
    <3> QED BY <1>6, <1>8, <2>1, <3>1
  <2> QED BY <2>2, <2>3, <2>4
<1> DEFINE below == SubSeq(stack, 1, b - 1)
           popped == ToSet(SubSeq(stack, b, Len(stack)))
<1>10. /\ below \in Seq(DOMAIN indices)
       /\ DOMAIN below = 1 .. b - 1 /\ \A i \in 1 .. b - 1 : i \in DOMAIN stack /\ below[i] = stack[i]
       /\ ToSet(below) \union popped = ToSet(stack) /\ ToSet(below) \intersect popped = {}
  BY <1>6, <1>7, CutIs
<1>11. stack \in Seq(DOMAIN indices) /\ DOMAIN stack = 1 .. Len(stack) /\ Len(stack) \in Nat /\ b \in Nat /\ b >= 1
  BY <1>6, <1>7 DEF StackFits
<1> HIDE DEF below, popped
(* The stack after the step, and what stays open.                            *)
<1>12. /\ stack' \in Seq(DOMAIN indices) /\ DOMAIN stack' \subseteq DOMAIN stack
       /\ \A i \in DOMAIN stack' : stack'[i] = stack[i]
       /\ ToSet(stack') \subseteq ToSet(stack)
       /\ \A x \in ToSet(stack') : 1 \in DOMAIN stack'
       /\ ToSet(stack') = DOMAIN indices \ UNION ToSet(sccs')
       /\ sccs' \in Seq(SUBSET Local) /\ \A C \in ToSet(sccs') : C \subseteq DOMAIN indices
  <2>0. /\ sccs \in Seq(SUBSET Local)
        /\ DOMAIN indices \subseteq Local
        /\ ToSet(stack) = DOMAIN indices \ UNION ToSet(sccs)
        /\ \A C \in ToSet(sccs) : C \subseteq DOMAIN indices
        /\ ToSet(stack) \subseteq DOMAIN indices
    <3>1. unresolved \subseteq Local
      BY ModulesAssumption DEF SearchInv, unresolved, Declared, IsModule
    <3> QED BY <1>7, <3>1 DEF StackFits, NumbersFit
  <2>1. CASE lowlink[n] = indices[n]
    <3>1. stack' = below /\ sccs' = Append(sccs, popped)
      BY <1>1, <2>1 DEF below, popped
    <3>2. popped \subseteq DOMAIN indices /\ popped \in SUBSET Local
      BY <1>10, <2>0
    <3>3. sccs' \in Seq(SUBSET Local) /\ ToSet(sccs') = ToSet(sccs) \union {popped}
      BY <2>0, <3>1, <3>2, AppendIs
    <3>4. ToSet(stack') = DOMAIN indices \ UNION ToSet(sccs')
      BY <1>10, <2>0, <3>1, <3>3
    <3>5. \A x \in ToSet(below) : 1 \in DOMAIN below
      BY <1>10, <1>11 DEF ToSet
    <3> QED BY <1>10, <2>0, <3>1, <3>2, <3>3, <3>4, <3>5
  <2>2. CASE lowlink[n] # indices[n]
    <3>1. stack' = stack /\ sccs' = sccs
      BY <1>1, <2>2
    <3>2. 1 \in DOMAIN stack
      BY <1>4, <1>11
    <3> QED BY <1>11, <2>0, <3>1, <3>2
  <2> QED BY <2>1, <2>2
<1>13. StackFits'
  <2>1. \A i, k \in DOMAIN stack' : i < k => indices[stack'[i]] < indices[stack'[k]]
    BY <1>7, <1>12 DEF StackFits
  <2> QED BY <1>1, <1>12, <2>1 DEF StackFits
<1>14. \A i \in DOMAIN rest : rest[i].node \in ToSet(stack')
  <2> TAKE i \in DOMAIN rest
  <2>1. rest[i].node \in ToSet(stack) /\ indices[rest[i].node] < indices[n] /\ rest[i].node \in DOMAIN indices
    BY <1>3, <1>4, <1>5
  <2>2. PICK p \in DOMAIN stack : stack[p] = rest[i].node
    BY <2>1 DEF ToSet
  <2>3. p < b
    <3>1. b < p => indices[stack[b]] < indices[stack[p]]
      BY <1>6, <1>7 DEF StackFits
    <3>2. p # b /\ ~(b < p)
      BY <1>6, <1>7, <1>8, <2>1, <2>2, <3>1
    <3> QED BY <1>11, <3>2
  <2>4. CASE lowlink[n] = indices[n]
    <3>1. p \in 1 .. b - 1
      BY <1>11, <2>3
    <3>2. below[p] = rest[i].node /\ p \in DOMAIN below
      BY <1>10, <2>2, <3>1
    <3> QED BY <1>1, <2>4, <3>2 DEF ToSet, below
  <2>5. CASE lowlink[n] # indices[n]
    BY <1>1, <2>1, <2>5
  <2> QED BY <2>4, <2>5
<1>15. LowlinksFit'
  <2>1. \A x \in ToSet(stack') : stack'[1] = stack[1]
    BY <1>12
  <2>2. CASE rest # <<>> /\ lowlink[n] < lowlink[parent]
    <3>1. Len(rest) \in DOMAIN rest
      BY <1>3, <1>5, <2>2
    <3>2. parent \in DOMAIN indices /\ lowlink[parent] \in Nat /\ lowlink[parent] <= indices[parent]
      BY <1>3, <1>5, <1>7, <3>1 DEF LowlinksFit
    <3>3. lowlink' = Put(lowlink, parent, lowlink[n])
      BY <1>1, <2>2
    <3>4. lowlink[n] <= indices[parent]
      BY <1>7, <1>8, <2>2, <3>2
    <3> HIDE DEF parent
    <3> QED BY <1>1, <1>8, <1>12, <2>1, <3>2, <3>3, <3>4, LoweredFits
  <2>3. CASE ~(rest # <<>> /\ lowlink[n] < lowlink[parent])
    <3>1. lowlink' = lowlink
      BY <1>1, <2>3
    <3> QED BY <1>1, <1>3, <1>8, <1>12, <2>1, <3>1, LoweredFits
  <2> QED BY <2>2, <2>3
<1>16. FramesFit(dfs)'
  <2>1. \A i \in DOMAIN rest : rest[i].node \in ToSet(stack') /\ rest[i].i \in 1 .. Len(adj(rest[i].node)) + 1
    BY <1>4, <1>5, <1>14
  <2>2. \A i, k \in DOMAIN rest : i < k => indices[rest[i].node] < indices[rest[k].node]
    BY <1>4, <1>5
  <2>3. rest = <<>> => stack' = <<>>
    <3> SUFFICES ASSUME rest = <<>> PROVE stack' = <<>>
      OBVIOUS
    <3>1. stack' = below /\ b = 1
      BY <1>1, <1>5, <1>9 DEF below
    <3> QED BY <1>10, <3>1
  <2>4. rest # <<>> => stack' # <<>> /\ stack'[1] = rest[1].node
    <3> SUFFICES ASSUME rest # <<>> PROVE stack' # <<>> /\ stack'[1] = rest[1].node
      OBVIOUS
    <3>1. 1 \in DOMAIN rest
      BY <1>3, <1>5
    <3>2. 1 \in DOMAIN stack'
      BY <1>12, <1>14, <3>1
    <3> QED BY <1>4, <1>5, <1>12, <3>1, <3>2
  <2>5. dfs' = rest /\ indices' = indices /\ rest \in Seq(Frame')
    BY <1>1, <1>5 DEF Frame
  <2>6. \A i \in DOMAIN dfs' : dfs'[i].node \in ToSet(stack') /\ dfs'[i].i \in 1 .. Len(adj(dfs[i].node)') + 1
    BY <1>2, <2>1, <2>5
  <2> QED BY <2>2, <2>3, <2>4, <2>5, <2>6 DEF FramesFit
<1>17. NumbersFit'
  BY <1>1, <1>2, <1>7 DEF NumbersFit
<1> QED BY <1>1, <1>2, <1>13, <1>15, <1>16, <1>17 DEF SearchInv, Declared, NotBegun

(* The other steps of the search: a root, a neighbour, nothing to visit.     *)
LEMMA RootsKeep == ASSUME SearchInv, SkipRoot \/ VisitRoot PROVE SearchInv'
<1>1. /\ pc = "cycles" /\ dfs = <<>> /\ nodes # <<>> /\ nodes' = Tail(nodes)
      /\ UNCHANGED <<module, pc, resolved, visible, sccs, diags>>
  BY DEF SkipRoot, VisitRoot
<1>2. nodes \in Seq(unresolved) /\ FramesFit(dfs)
  BY DEF SearchInv
<1>3. nodes' \in Seq(unresolved) /\ Head(nodes) \in unresolved
  BY <1>1, <1>2
<1>4. CASE VisitRoot
  <2>1. Head(nodes) \notin DOMAIN indices /\ Visit(Head(nodes), dfs)
    BY <1>4 DEF VisitRoot
  <2> QED BY <1>1, <1>2, <1>3, <2>1, VisitKeeps
<1>5. CASE SkipRoot
  <2>1. UNCHANGED <<index, indices, lowlink, stack, dfs>>
    BY <1>5 DEF SkipRoot
  <2>2. unresolved' = unresolved /\ \A x : adj(x)' = adj(x)
    BY <1>1 DEF unresolved, Declared, adj, expr
  <2>3. NumbersFit' /\ LowlinksFit' /\ StackFits' /\ FramesFit(dfs)'
    BY <1>1, <2>1, <2>2 DEF SearchInv, NumbersFit, LowlinksFit, StackFits, FramesFit, Frame
  <2> QED BY <1>1, <1>3, <2>2, <2>3 DEF SearchInv, Declared
<1> QED BY <1>4, <1>5

LEMMA DescendKeeps == ASSUME SearchInv, Descend PROVE SearchInv'
<1>1. /\ AtNeighbour /\ pc = "cycles" /\ Neighbour \notin DOMAIN indices /\ Visit(Neighbour, Advanced)
      /\ UNCHANGED <<module, pc, resolved, visible, nodes, sccs, diags>>
  BY DEF Descend, AtNeighbour
<1>2. FramesFit(Advanced) /\ Neighbour \in unresolved /\ nodes' \in Seq(unresolved)
  BY <1>1, AdvancedFits, NeighbourIs DEF SearchInv
<1> QED BY <1>1, <1>2, VisitKeeps

(* The passes leave the search as it was before it began, and the report     *)
(* takes what the search found.                                              *)
LEMMA BoundsKeep == ASSUME SearchInv, Pass \/ EndPasses \/ Report \/ UNCHANGED vars PROVE SearchInv'
<1>1. module' = module /\ UNCHANGED <<index, indices, lowlink, stack, dfs, sccs>>
  BY DEF Pass, EndPasses, Report, vars, tarjan
<1>2. LowlinksFit' /\ StackFits'
  BY <1>1 DEF SearchInv, LowlinksFit, StackFits
<1>3. CASE Pass
  <2>1. /\ pc = "passes" /\ pc' = pc /\ nodes' = nodes /\ diags' = diags /\ NotBegun
        /\ resolved' = resolved \union {n \in unresolved : Evaluates(n)} /\ visible' = resolved'
    BY <1>3 DEF Pass, tarjan, SearchInv
  <2>2. resolved' \subseteq Declared'
    BY <1>1, <2>1 DEF SearchInv, unresolved, Declared
  <2>3. nodes' = <<>> /\ diags' = {} /\ dfs' = <<>> /\ stack' = <<>> /\ DOMAIN indices' = {}
    BY <1>1, <2>1 DEF NotBegun
  <2>4. NumbersFit' /\ FramesFit(dfs)'
    BY <1>1, <2>3 DEF SearchInv, NumbersFit, FramesFit
  <2>5. NotBegun'
    BY <1>1, <2>1 DEF NotBegun
  <2> QED BY <1>1, <1>2, <2>1, <2>2, <2>3, <2>4, <2>5 DEF SearchInv
<1>4. CASE ~Pass
  <2>1. resolved' = resolved /\ visible' = visible /\ pc' \in {"passes", "cycles", "done"}
    BY <1>4 DEF EndPasses, Report, vars, SearchInv
  <2>2. unresolved' = unresolved /\ Declared' = Declared /\ \A x : adj(x)' = adj(x)
    BY <1>1, <2>1 DEF unresolved, Declared, adj, expr
  <2>3. NumbersFit' /\ FramesFit(dfs)'
    BY <1>1, <2>2 DEF SearchInv, NumbersFit, FramesFit, Frame
  <2>4. nodes' \in Seq(unresolved)
    <3>1. CASE EndPasses
      BY <3>1, UnresolvedSorted DEF SearchInv, EndPasses
    <3>2. CASE Report \/ UNCHANGED vars
      BY <3>2 DEF SearchInv, Report, vars, tarjan
    <3> QED BY <1>4, <3>1, <3>2
  <2>5. diags' \subseteq SUBSET unresolved
    <3>1. CASE Report
      <4>1. \A C \in ToSet(sccs) : C \subseteq unresolved
        BY DEF SearchInv, StackFits, NumbersFit
      <4> QED BY <3>1, <4>1 DEF Report
    <3>2. CASE EndPasses \/ UNCHANGED vars
      BY <3>2 DEF SearchInv, EndPasses, vars
    <3> QED BY <1>4, <3>1, <3>2
  <2>6. pc' = "passes" => NotBegun'
    BY <1>4 DEF SearchInv, NotBegun, EndPasses, Report, vars, tarjan
  <2> QED BY <1>1, <1>2, <2>1, <2>2, <2>3, <2>4, <2>5, <2>6 DEF SearchInv
<1> QED BY <1>3, <1>4

LEMMA SearchStep == SearchInv /\ [Next]_vars => SearchInv'
BY RootsKeep, DescendKeeps, SeeVisitedKeeps, CloseNodeKeeps, BoundsKeep DEF Next

LEMMA SearchFits == SearchInv => TypeOK
<1> SUFFICES ASSUME SearchInv PROVE TypeOK
  OBVIOUS
<1>1. IsModule(module)
  BY ModulesAssumption DEF SearchInv
<1>2. ToSet(nodes) \subseteq unresolved \union resolved
  BY SetOfSeq DEF SearchInv
<1>3. index \in Nat /\ index = Cardinality(DOMAIN indices)
  BY FS_CardinalityType DEF SearchInv, NumbersFit
<1>4. \A n \in DOMAIN indices : 0 <= lowlink[n] /\ lowlink[n] <= indices[n] /\ indices[n] < index
  BY DEF SearchInv, NumbersFit, LowlinksFit
<1> QED BY <1>1, <1>2, <1>3, <1>4 DEF SearchInv, NumbersFit, LowlinksFit, StackFits, FramesFit, TypeOK

(* For any module, however its locals depend on one another: TypeOK, the     *)
(* state of the search is one of Tarjan's algorithm.  Every visited local is *)
(* on the stack or in a component found, and the stack is empty when a root  *)
(* is done.                                                                  *)
THEOREM TypeCorrect == Spec => []TypeOK
BY SearchStarts, SearchStep, SearchFits, PTL DEF Spec

-----------------------------------------------------------------------------
(* That the components are the right ones.  Leads is DependsOn or equality.  *)

Leads(m, n) == \A S \in SUBSET unresolved : m \in S /\ Whole(S) => n \in S

(* The search is past the mention of y by n.                                 *)
GoneBy(n, y) ==
    \E i \in DOMAIN adj(n) :
        adj(n)[i] = y /\ \A k \in DOMAIN dfs : dfs[k].node = n => i < dfs[k].i

(* The frame of dfs that x is open under: the last one that is not later.    *)
IsOwner(k, x) ==
    /\ indices[dfs[k].node] <= indices[x]
    /\ \A j \in DOMAIN dfs : k < j => indices[x] < indices[dfs[j].node]

Found == UNION ToSet(sccs)

GoneByVisited == \A n \in DOMAIN indices : \A y : GoneBy(n, y) => y \in DOMAIN indices

FramesLead ==
    \A k \in DOMAIN dfs : \A x \in ToSet(stack) :
        indices[dfs[k].node] <= indices[x] => Leads(dfs[k].node, x)

StackLeads ==
    \A x \in ToSet(stack) : \E k \in DOMAIN dfs :
        indices[dfs[k].node] <= indices[x] /\ Leads(x, dfs[k].node)

LowlinksReal ==
    \A x \in ToSet(stack) : \E y \in ToSet(stack) : indices[y] = lowlink[x] /\ Leads(x, y)

LowlinksLow ==
    \A x, y \in ToSet(stack) : GoneBy(x, y) =>
        \A k \in DOMAIN dfs : IsOwner(k, x) => lowlink[dfs[k].node] <= indices[y]

IsComponent(C) ==
    /\ C # {} /\ C \subseteq unresolved
    /\ \A x, y \in C : Leads(x, y)
    /\ \A x \in C, y \in unresolved : Leads(x, y) /\ Leads(y, x) => y \in C

RootsRemain == pc # "passes" => unresolved \subseteq DOMAIN indices \union ToSet(nodes)

Reported == pc = "done" => dfs = <<>> /\ nodes = <<>> /\ diags = {C \in ToSet(sccs) : IsCycle(C)}

TarjanInv ==
    /\ GoneByVisited /\ FramesLead /\ StackLeads /\ LowlinksReal /\ LowlinksLow
    /\ Whole(Found) /\ \A C \in ToSet(sccs) : IsComponent(C)
    /\ RootsRemain /\ Reported

(* Leads is the order of reachability; DependsOn takes a step at least.       *)
LEMMA LeadsFacts ==
    /\ \A m : Leads(m, m)
    /\ \A m, x, n : Leads(m, x) /\ Leads(x, n) => Leads(m, n)
    /\ \A m \in unresolved : \A n : n \in Mentioned(m) => Leads(m, n)
    /\ \A S \in SUBSET unresolved : \A m, n : Whole(S) /\ m \in S /\ Leads(m, n) => n \in S
BY DEF Leads, Whole

LEMMA DependsIs ==
    ASSUME NEW m \in unresolved, NEW n \in unresolved
    PROVE  <<m, n>> \in DependsOn <=> \E x \in Mentioned(m) : Leads(x, n)
<1>1. ASSUME NEW x \in Mentioned(m), Leads(x, n) PROVE <<m, n>> \in DependsOn
  <2> SUFFICES ASSUME NEW S \in SUBSET unresolved, Mentioned(m) \subseteq S, Whole(S) PROVE n \in S
    BY DEF DependsOn
  <2> QED BY <1>1 DEF Leads
<1>2. ASSUME <<m, n>> \in DependsOn PROVE \E x \in Mentioned(m) : Leads(x, n)
  <2> DEFINE S == {y \in unresolved : \E x \in Mentioned(m) : Leads(x, y)}
  <2>1. Mentioned(m) \subseteq S
    BY LeadsFacts DEF Mentioned
  <2>2. Whole(S)
    <3> SUFFICES ASSUME NEW y \in S, NEW z \in Mentioned(y) PROVE z \in S
      BY DEF Whole
    <3>1. PICK x \in Mentioned(m) : Leads(x, y)
      OBVIOUS
    <3>2. Leads(x, z) /\ z \in unresolved
      BY <3>1, LeadsFacts DEF Mentioned
    <3> QED BY <3>2
  <2>3. n \in S
    <3>1. S \in SUBSET unresolved
      OBVIOUS
    <3>2. \A T \in SUBSET unresolved : Mentioned(m) \subseteq T /\ Whole(T) => n \in T
      BY <1>2 DEF DependsOn
    <3> HIDE DEF S
    <3> QED BY <2>1, <2>2, <3>1, <3>2
  <2> QED BY <2>3
<1> QED BY <1>1, <1>2

LEMMA LeadsStay ==
    ASSUME module' = module, resolved' = resolved
    PROVE  /\ unresolved' = unresolved /\ \A x : adj(x)' = adj(x) /\ Mentioned(x)' = Mentioned(x)
           /\ \A S : Whole(S)' <=> Whole(S)
           /\ \A m, n : Leads(m, n)' <=> Leads(m, n)
           /\ \A C : (IsComponent(C)' <=> IsComponent(C)) /\ (IsCycle(C)' <=> IsCycle(C))
<1>1. unresolved' = unresolved /\ \A x : adj(x)' = adj(x) /\ Mentioned(x)' = Mentioned(x)
  BY DEF unresolved, Declared, adj, expr, Mentioned
<1>2. \A S : Whole(S)' <=> Whole(S)
  BY <1>1 DEF Whole
<1>3. \A m, n : Leads(m, n)' <=> Leads(m, n)
  BY <1>1, <1>2 DEF Leads
<1>4. selfLoop' = selfLoop
  BY <1>1 DEF selfLoop, expr
<1>5. \A C : (IsComponent(C)' <=> IsComponent(C)) /\ (IsCycle(C)' <=> IsCycle(C))
  BY <1>1, <1>3, <1>4 DEF IsComponent, IsCycle
<1> QED BY <1>1, <1>2, <1>3, <1>5

LEMMA AdjTells ==
    ASSUME module \in Modules, NEW n
    PROVE  /\ DOMAIN adj(n) = 1 .. Len(adj(n)) /\ Len(adj(n)) \in Nat
           /\ \A y : (y \in Mentioned(n) /\ y # n) <=> \E i \in DOMAIN adj(n) : adj(n)[i] = y
<1> DEFINE S == (expr(n).mentions \intersect unresolved) \ {n}
<1>1. unresolved \subseteq Local
  BY ModulesAssumption DEF unresolved, Declared, IsModule
<1>2. S \in SUBSET Local
  BY <1>1
<1>3. IsFiniteSet(S) /\ S \in SUBSET Nat
  BY <1>2, LocalAssumption, FS_Subset
<1>4. \A y : (y \in Mentioned(n) /\ y # n) <=> y \in S
  BY DEF Mentioned
<1> HIDE DEF S
<1>5. Sorted(S) \in Seq(S) /\ \A y \in S : \E i \in DOMAIN Sorted(S) : Sorted(S)[i] = y
  BY <1>3, SortedListsKeys
<1>6. /\ DOMAIN Sorted(S) = 1 .. Len(Sorted(S)) /\ Len(Sorted(S)) \in Nat
      /\ \A i \in DOMAIN Sorted(S) : Sorted(S)[i] \in S
  BY <1>5
<1>7. adj(n) = Sorted(S)
  BY DEF adj, S
<1> QED BY <1>4, <1>5, <1>6, <1>7

(* What SearchInv says, element by element.                                  *)
LEMMA SearchFacts ==
    ASSUME SearchInv
    PROVE  /\ Len(dfs) \in Nat /\ DOMAIN dfs = 1 .. Len(dfs)
           /\ \A k \in DOMAIN dfs : dfs[k].node \in ToSet(stack) /\ dfs[k].node \in DOMAIN indices /\ dfs[k].i \in Nat
           /\ \A j, k \in DOMAIN dfs : j < k => indices[dfs[j].node] < indices[dfs[k].node]
           /\ ToSet(stack) \subseteq DOMAIN indices
           /\ \A x \in DOMAIN indices : indices[x] \in Nat /\ indices[x] < index /\ x \in unresolved
           /\ \A x \in DOMAIN indices : lowlink[x] \in Nat /\ lowlink[x] <= indices[x]
           /\ \A x, y \in ToSet(stack) : indices[x] = indices[y] => x = y
           /\ ToSet(stack) = DOMAIN indices \ Found
           /\ index \in Nat /\ module \in Modules
<1>1. dfs \in Seq(Frame)
  BY DEF SearchInv, FramesFit
<1>2. Len(dfs) \in Nat /\ DOMAIN dfs = 1 .. Len(dfs) /\ \A k \in DOMAIN dfs : dfs[k] \in Frame
  BY <1>1
<1>3. \A k \in DOMAIN dfs : dfs[k].node \in ToSet(stack) /\ dfs[k].node \in DOMAIN indices /\ dfs[k].i \in Nat
  BY <1>2 DEF SearchInv, FramesFit, Frame
<1>4. ToSet(stack) \subseteq DOMAIN indices /\ ToSet(stack) = DOMAIN indices \ Found
  BY DEF SearchInv, StackFits, Found
<1>5. \A x \in DOMAIN indices : indices[x] \in Nat /\ indices[x] < index /\ x \in unresolved
  BY DEF SearchInv, NumbersFit
<1>6. \A x \in DOMAIN indices : lowlink[x] \in Nat /\ lowlink[x] <= indices[x]
  BY DEF SearchInv, LowlinksFit
<1>7. ASSUME NEW x \in ToSet(stack), NEW y \in ToSet(stack), indices[x] = indices[y] PROVE x = y
  <2>1. stack \in Seq(DOMAIN indices)
    BY DEF SearchInv, StackFits
  <2>2. PICK i \in DOMAIN stack : stack[i] = x
    BY DEF ToSet
  <2>3. PICK k \in DOMAIN stack : stack[k] = y
    BY DEF ToSet
  <2>4. i \in Nat /\ k \in Nat
    BY <2>1
  <2>5. ~(i < k) /\ ~(k < i)
    <3>1. i < k => indices[x] < indices[y]
      BY <2>2, <2>3 DEF SearchInv, StackFits
    <3>2. k < i => indices[y] < indices[x]
      BY <2>2, <2>3 DEF SearchInv, StackFits
    <3>3. indices[x] \in Nat /\ indices[y] \in Nat
      BY <1>4, <1>5
    <3> QED BY <1>7, <3>1, <3>2, <3>3
  <2> QED BY <2>2, <2>3, <2>4, <2>5
<1>8. \A j, k \in DOMAIN dfs : j < k => indices[dfs[j].node] < indices[dfs[k].node]
  BY DEF SearchInv, FramesFit
<1>9. index \in Nat /\ module \in Modules
  BY FS_CardinalityType DEF SearchInv, NumbersFit
<1> QED BY <1>2, <1>3, <1>4, <1>5, <1>6, <1>7, <1>8, <1>9

(* A first visit.  The frames below are those there were, the last of them    *)
(* past its mention of n, if there is one.                                    *)
LEMMA VisitExplores ==
    ASSUME SearchInv, TarjanInv, pc = "cycles", NEW n \in unresolved, n \notin DOMAIN indices,
           NEW base, FramesFit(base), DOMAIN base = DOMAIN dfs,
           \A k \in DOMAIN dfs : base[k].node = dfs[k].node /\ Leads(dfs[k].node, n),
           \A k \in DOMAIN dfs : \A i \in Nat :
              i < base[k].i => i < dfs[k].i \/ adj(dfs[k].node)[i] = n,
           Visit(n, base), RootsRemain',
           UNCHANGED <<module, pc, resolved, visible, sccs, diags>>
    PROVE  TarjanInv'
<1> DEFINE l == Len(dfs)
           f == [node |-> n, i |-> 1]
<1>1. /\ indices' = Put(indices, n, index) /\ lowlink' = Put(lowlink, n, index)
      /\ stack' = Append(stack, n) /\ dfs' = Append(base, f)
  BY DEF Visit
<1>2. /\ l \in Nat /\ DOMAIN dfs = 1 .. l /\ index \in Nat
      /\ \A k \in DOMAIN dfs : dfs[k].node \in ToSet(stack) /\ dfs[k].node \in DOMAIN indices
      /\ ToSet(stack) \subseteq DOMAIN indices
      /\ \A x \in DOMAIN indices : indices[x] \in Nat /\ indices[x] < index
      /\ \A x \in DOMAIN indices : lowlink[x] \in Nat /\ lowlink[x] <= indices[x]
      /\ module \in Modules
  BY SearchFacts
<1>3. /\ DOMAIN indices' = DOMAIN indices \union {n} /\ indices'[n] = index /\ lowlink'[n] = index
      /\ \A x \in DOMAIN indices : indices'[x] = indices[x] /\ lowlink'[x] = lowlink[x] /\ x # n
  BY <1>1 DEF Put, SearchInv, LowlinksFit
<1>4. ToSet(stack') = ToSet(stack) \union {n}
  <2>1. stack \in Seq(DOMAIN indices \union {n})
    <3>1. stack \in Seq(DOMAIN indices)
      BY DEF SearchInv, StackFits
    <3> QED BY <3>1
  <2> QED BY <1>1, <2>1, AppendIs
<1>5. /\ DOMAIN dfs' = 1 .. l + 1 /\ dfs'[l + 1] = f
      /\ \A k \in DOMAIN dfs : k \in DOMAIN dfs' /\ dfs'[k] = base[k]
      /\ \A k \in DOMAIN dfs' : k \in DOMAIN dfs \/ k = l + 1
  <2> DEFINE F == Frame \union {f}
  <2>1. base \in Seq(Frame)
    BY DEF FramesFit
  <2>2. base \in [1 .. Len(base) -> F] /\ Len(base) \in Nat
    BY <2>1
  <2> HIDE DEF F
  <2>3. base \in Seq(F)
    BY <2>2
  <2>4. f \in F
    BY DEF F
  <2>5. Len(base) = l
    BY <1>2, <2>2
  <2> HIDE DEF f
  <2> QED BY <1>1, <1>2, <2>3, <2>4, <2>5, AppendIs
<1>6. f.node = n /\ f.i = 1
  OBVIOUS
<1> HIDE DEF f, l
<1>7. /\ unresolved' = unresolved /\ \A x : adj(x)' = adj(x) /\ Mentioned(x)' = Mentioned(x)
      /\ \A S : Whole(S)' <=> Whole(S)
      /\ \A x, y : Leads(x, y)' <=> Leads(x, y)
      /\ \A C : IsComponent(C)' <=> IsComponent(C)
  BY LeadsStay
<1>8. ASSUME NEW x, NEW y, GoneBy(x, y)' PROVE x # n /\ (GoneBy(x, y) \/ y = n)
  <2>1. PICK i \in DOMAIN adj(x) : adj(x)[i] = y /\ \A k \in DOMAIN dfs' : dfs'[k].node = x => i < dfs'[k].i
    BY <1>7, <1>8 DEF GoneBy
  <2>2. i \in Nat /\ i >= 1
    BY <1>2, AdjTells
  <2>3. x # n
    BY <1>5, <1>6, <2>1, <2>2, <1>2
  <2>4. CASE \A k \in DOMAIN dfs : dfs[k].node = x => i < dfs[k].i
    BY <2>1, <2>3, <2>4 DEF GoneBy
  <2>5. CASE \E k \in DOMAIN dfs : dfs[k].node = x /\ ~(i < dfs[k].i)
    <3>1. PICK k \in DOMAIN dfs : dfs[k].node = x /\ ~(i < dfs[k].i)
      BY <2>5
    <3>2. i < base[k].i
      BY <1>5, <2>1, <3>1
    <3> QED BY <2>1, <2>2, <2>3, <3>1, <3>2
  <2> QED BY <2>4, <2>5
<1>9. /\ \A k \in DOMAIN dfs : dfs'[k].node = dfs[k].node /\ indices'[dfs'[k].node] = indices[dfs[k].node]
                               /\ indices'[dfs'[k].node] < index
      /\ dfs'[l + 1].node = n /\ indices'[dfs'[l + 1].node] = index
      /\ \A x \in ToSet(stack) : indices'[x] = indices[x] /\ indices[x] < index
  BY <1>2, <1>3, <1>5, <1>6
<1>10. GoneByVisited'
  <2> SUFFICES ASSUME NEW x \in DOMAIN indices', NEW y, GoneBy(x, y)' PROVE y \in DOMAIN indices'
    BY DEF GoneByVisited
  <2> QED BY <1>3, <1>8 DEF TarjanInv, GoneByVisited
<1>11. FramesLead'
  <2> SUFFICES ASSUME NEW k \in DOMAIN dfs', NEW x \in ToSet(stack'), indices'[dfs'[k].node] <= indices'[x]
               PROVE  Leads(dfs'[k].node, x)
    BY <1>7 DEF FramesLead
  <2>1. CASE x = n
    BY <1>2, <1>5, <1>9, <2>1, LeadsFacts
  <2>2. CASE x \in ToSet(stack)
    <3>1. k # l + 1
      BY <1>2, <1>9, <2>2
    <3>2. k \in DOMAIN dfs /\ dfs'[k].node = dfs[k].node /\ indices[dfs[k].node] <= indices[x]
      BY <1>5, <1>9, <2>2, <3>1
    <3> QED BY <2>2, <3>2 DEF TarjanInv, FramesLead
  <2> QED BY <1>4, <2>1, <2>2
<1>12. StackLeads'
  <2> SUFFICES ASSUME NEW x \in ToSet(stack')
               PROVE  \E k \in DOMAIN dfs' : indices'[dfs'[k].node] <= indices'[x] /\ Leads(x, dfs'[k].node)
    BY <1>7 DEF StackLeads
  <2>1. CASE x = n
    <3>1. l + 1 \in DOMAIN dfs' /\ indices'[dfs'[l + 1].node] <= indices'[x] /\ Leads(x, dfs'[l + 1].node)
      BY <1>2, <1>3, <1>5, <1>9, <2>1, LeadsFacts
    <3> QED BY <3>1
  <2>2. CASE x \in ToSet(stack)
    <3>1. PICK k \in DOMAIN dfs : indices[dfs[k].node] <= indices[x] /\ Leads(x, dfs[k].node)
      BY <2>2 DEF TarjanInv, StackLeads
    <3> QED BY <1>5, <1>9, <2>2, <3>1
  <2> QED BY <1>4, <2>1, <2>2
<1>13. LowlinksReal'
  <2> SUFFICES ASSUME NEW x \in ToSet(stack')
               PROVE  \E y \in ToSet(stack') : indices'[y] = lowlink'[x] /\ Leads(x, y)
    BY <1>7 DEF LowlinksReal
  <2>1. CASE x = n
    BY <1>3, <1>4, <2>1, LeadsFacts
  <2>2. CASE x \in ToSet(stack)
    <3>1. PICK y \in ToSet(stack) : indices[y] = lowlink[x] /\ Leads(x, y)
      BY <2>2 DEF TarjanInv, LowlinksReal
    <3>2. lowlink'[x] = lowlink[x] /\ indices'[y] = indices[y]
      BY <1>2, <1>3, <2>2
    <3> QED BY <1>4, <3>1, <3>2
  <2> QED BY <1>4, <2>1, <2>2
<1>14. LowlinksLow'
  <2> SUFFICES ASSUME NEW x \in ToSet(stack'), NEW y \in ToSet(stack'), GoneBy(x, y)',
                      NEW k \in DOMAIN dfs', IsOwner(k, x)'
               PROVE  lowlink'[dfs'[k].node] <= indices'[y]
    BY DEF LowlinksLow
  <2>1. x \in ToSet(stack) /\ x # n
    BY <1>4, <1>8
  <2>2. k \in DOMAIN dfs
    <3>1. indices'[dfs'[k].node] <= indices'[x]
      BY DEF IsOwner
    <3>2. k # l + 1
      BY <1>2, <1>9, <2>1, <3>1
    <3> QED BY <1>5, <3>2
  <2>3. lowlink'[dfs'[k].node] = lowlink[dfs[k].node] /\ lowlink[dfs[k].node] <= indices[dfs[k].node]
        /\ lowlink[dfs[k].node] \in Nat
    BY <1>2, <1>3, <1>9, <2>2
  <2>4. CASE y = n
    BY <1>2, <1>3, <2>2, <2>3, <2>4
  <2>5. CASE y # n
    <3>1. y \in ToSet(stack) /\ GoneBy(x, y)
      BY <1>4, <1>8, <2>5
    <3>2. IsOwner(k, x)
      <4>1. indices[dfs[k].node] <= indices[x]
        BY <1>9, <2>1, <2>2 DEF IsOwner
      <4>2. \A j \in DOMAIN dfs : k < j => indices[x] < indices[dfs[j].node]
        <5> TAKE j \in DOMAIN dfs
        <5>1. j \in DOMAIN dfs' /\ indices'[dfs'[j].node] = indices[dfs[j].node] /\ indices'[x] = indices[x]
          BY <1>5, <1>9, <2>1
        <5>2. k < j => indices'[x] < indices'[dfs'[j].node]
          BY <5>1 DEF IsOwner
        <5> QED BY <5>1, <5>2
      <4> QED BY <4>1, <4>2 DEF IsOwner
    <3>3. lowlink[dfs[k].node] <= indices[y]
      BY <2>1, <2>2, <3>1, <3>2 DEF TarjanInv, LowlinksLow
    <3> QED BY <1>9, <2>3, <3>1, <3>3
  <2> QED BY <2>4, <2>5
<1>15. Whole(Found)' /\ \A C \in ToSet(sccs') : IsComponent(C)'
  <2>1. sccs' = sccs /\ Found' = Found
    BY DEF Found
  <2>2. Whole(Found)' <=> Whole(Found)
    BY <1>7, <2>1 DEF Whole
  <2> QED BY <1>7, <2>1, <2>2 DEF TarjanInv
<1>16. Reported'
  BY DEF Reported
<1> QED BY <1>10, <1>11, <1>12, <1>13, <1>14, <1>15, <1>16 DEF TarjanInv

(* Going on in the top frame, for a root or past the mention of the neighbour. *)
LEMMA AdvancedIs ==
    ASSUME SearchInv, TarjanInv, AtNeighbour
    PROVE  /\ DOMAIN Advanced = DOMAIN dfs /\ Len(dfs) \in DOMAIN dfs
           /\ TopFrame = dfs[Len(dfs)] /\ TopFrame.node \in ToSet(stack)
           /\ \A k \in DOMAIN dfs : Advanced[k].node = dfs[k].node
           /\ \A k \in DOMAIN dfs : \A i \in Nat :
                 i < Advanced[k].i => i < dfs[k].i \/ (k = Len(dfs) /\ adj(dfs[k].node)[i] = Neighbour)
           /\ Neighbour \in Mentioned(TopFrame.node)
           /\ \A k \in DOMAIN dfs : Leads(dfs[k].node, Neighbour)
<1> DEFINE l == Len(dfs)
           n == TopFrame.node
<1>1. /\ dfs # <<>> /\ l \in DOMAIN dfs /\ l \in Nat /\ DOMAIN dfs = 1 .. l
      /\ \A i \in DOMAIN dfs : dfs[i] \in Frame /\ dfs[i].i \in Nat /\ dfs[i].node \in DOMAIN indices
      /\ TopFrame = dfs[l] /\ n \in ToSet(stack)
      /\ \A i \in DOMAIN dfs : i # l => indices[dfs[i].node] < indices[n]
      /\ dfs[l].i <= Len(adj(n))
  BY TopIs DEF AtNeighbour
<1>2. Advanced = [dfs EXCEPT ![l] = [dfs[l] EXCEPT !.i = dfs[l].i + 1]]
  BY <1>1 DEF Advanced
<1>3. /\ DOMAIN Advanced = DOMAIN dfs
      /\ \A k \in DOMAIN dfs : Advanced[k] = IF k = l THEN [dfs[l] EXCEPT !.i = dfs[l].i + 1] ELSE dfs[k]
  BY <1>2
<1>4. Advanced[l].node = dfs[l].node /\ Advanced[l].i = dfs[l].i + 1
  BY <1>1, <1>3 DEF Frame
<1>5. Neighbour = adj(n)[dfs[l].i]
  BY <1>1 DEF Neighbour
<1> HIDE DEF l
<1>6. \A k \in DOMAIN dfs : Advanced[k].node = dfs[k].node
  BY <1>3, <1>4
<1>7. ASSUME NEW k \in DOMAIN dfs, NEW i \in Nat, i < Advanced[k].i
      PROVE  i < dfs[k].i \/ (k = l /\ adj(dfs[k].node)[i] = Neighbour)
  <2>1. CASE k = l
    <3>1. i < dfs[l].i + 1 /\ dfs[l].i \in Nat
      BY <1>1, <1>4, <1>7, <2>1
    <3>2. i < dfs[l].i \/ i = dfs[l].i
      BY <3>1
    <3> QED BY <1>1, <1>5, <2>1, <3>2
  <2>2. CASE k # l
    BY <1>3, <1>7, <2>2
  <2> QED BY <2>1, <2>2
<1>8. Neighbour \in Mentioned(n) /\ n \in unresolved
  <2>1. /\ dfs[l].i \in 1 .. Len(adj(dfs[l].node)) + 1
        /\ module \in Modules /\ n \in DOMAIN indices /\ DOMAIN indices \subseteq unresolved
    BY <1>1 DEF SearchInv, FramesFit, NumbersFit
  <2>2. DOMAIN adj(n) = 1 .. Len(adj(n)) /\ Len(adj(n)) \in Nat
    BY <2>1, AdjTells
  <2>3. dfs[l].i \in DOMAIN adj(n)
    BY <1>1, <2>1, <2>2
  <2> QED BY <1>5, <2>1, <2>3, AdjTells
<1>9. ASSUME NEW k \in DOMAIN dfs PROVE Leads(dfs[k].node, Neighbour)
  <2>1. indices[dfs[k].node] <= indices[n]
    <3>1. indices[n] \in Nat /\ indices[dfs[k].node] \in Nat
      BY <1>1, SearchFacts
    <3> QED BY <1>1, <3>1
  <2>2. Leads(dfs[k].node, n)
    BY <1>1, <2>1 DEF TarjanInv, FramesLead
  <2> QED BY <1>8, <2>2, LeadsFacts
<1> QED BY <1>1, <1>3, <1>6, <1>7, <1>8, <1>9 DEF l

LEMMA SeeVisitedExplores == ASSUME SearchInv, TarjanInv, SeeVisited PROVE TarjanInv'
<1> DEFINE l == Len(dfs)
           p == TopFrame.node
           z == Neighbour
<1>1. /\ AtNeighbour /\ z \in DOMAIN indices /\ lowlink' = Lowered(p, z) /\ dfs' = Advanced
      /\ pc' = pc /\ pc = "cycles"
      /\ UNCHANGED <<module, resolved, visible, nodes, index, indices, stack, sccs, diags>>
  BY DEF SeeVisited, AtNeighbour
<1>2. /\ l \in Nat /\ DOMAIN dfs = 1 .. l
      /\ \A k \in DOMAIN dfs : dfs[k].node \in ToSet(stack) /\ dfs[k].node \in DOMAIN indices
      /\ \A j, k \in DOMAIN dfs : j < k => indices[dfs[j].node] < indices[dfs[k].node]
      /\ ToSet(stack) \subseteq DOMAIN indices
      /\ \A x \in DOMAIN indices : indices[x] \in Nat /\ lowlink[x] \in Nat
      /\ module \in Modules
  BY SearchFacts
<1>3. /\ DOMAIN dfs' = DOMAIN dfs /\ l \in DOMAIN dfs /\ p = dfs[l].node /\ p \in ToSet(stack)
      /\ \A k \in DOMAIN dfs : dfs'[k].node = dfs[k].node
      /\ \A k \in DOMAIN dfs : \A i \in Nat :
           i < dfs'[k].i => i < dfs[k].i \/ (k = l /\ adj(dfs[k].node)[i] = z)
      /\ z \in Mentioned(p)
  BY <1>1, AdvancedIs
<1> HIDE DEF l, p, z
<1>4. /\ unresolved' = unresolved /\ \A x : adj(x)' = adj(x) /\ Mentioned(x)' = Mentioned(x)
      /\ \A S : Whole(S)' <=> Whole(S)
      /\ \A x, y : Leads(x, y)' <=> Leads(x, y)
      /\ \A C : IsComponent(C)' <=> IsComponent(C)
  BY <1>1, LeadsStay
<1>5. /\ \A x \in DOMAIN indices : lowlink'[x] \in Nat /\ lowlink'[x] <= lowlink[x]
      /\ \A x \in DOMAIN indices : lowlink'[x] = lowlink[x] \/ (x = p /\ z \in ToSet(stack) /\ lowlink'[x] = indices[z])
      /\ z \in ToSet(stack) => lowlink'[p] <= indices[z]
  <2>1. p \in DOMAIN lowlink /\ DOMAIN lowlink = DOMAIN indices /\ p \in DOMAIN indices
    BY <1>2, <1>3 DEF SearchInv, LowlinksFit
  <2>2. CASE onStack(z) /\ indices[z] < lowlink[p]
    <3>1. lowlink' = Put(lowlink, p, indices[z]) /\ z \in ToSet(stack)
      BY <1>1, <2>2 DEF Lowered, onStack
    <3>2. \A x \in DOMAIN indices : lowlink'[x] = IF x = p THEN indices[z] ELSE lowlink[x]
      BY <2>1, <3>1 DEF Put
    <3>3. indices[z] \in Nat /\ lowlink[p] \in Nat
      BY <1>1, <1>2, <2>1
    <3> QED BY <1>2, <2>1, <2>2, <3>1, <3>2, <3>3
  <2>3. CASE ~(onStack(z) /\ indices[z] < lowlink[p])
    <3>1. lowlink' = lowlink
      BY <1>1, <2>3 DEF Lowered
    <3>2. z \in ToSet(stack) => lowlink[p] <= indices[z]
      BY <1>1, <1>2, <2>1, <2>3 DEF onStack
    <3> QED BY <1>2, <3>1, <3>2
  <2> QED BY <2>2, <2>3
<1>6. ASSUME NEW x, NEW y, GoneBy(x, y)' PROVE GoneBy(x, y) \/ (x = p /\ y = z)
  <2>1. PICK i \in DOMAIN adj(x) : adj(x)[i] = y /\ \A k \in DOMAIN dfs : dfs[k].node = x => i < dfs'[k].i
    BY <1>3, <1>4, <1>6 DEF GoneBy
  <2>2. i \in Nat
    BY <1>2, AdjTells
  <2> QED BY <1>3, <2>1, <2>2 DEF GoneBy
<1>7. \A k, x : IsOwner(k, x)' /\ k \in DOMAIN dfs => IsOwner(k, x)
  BY <1>1, <1>3 DEF IsOwner
<1>8. GoneByVisited'
  <2> SUFFICES ASSUME NEW x \in DOMAIN indices, NEW y, GoneBy(x, y)' PROVE y \in DOMAIN indices
    BY <1>1 DEF GoneByVisited
  <2> QED BY <1>1, <1>6 DEF TarjanInv, GoneByVisited
<1>9. FramesLead' /\ StackLeads'
  <2>1. FramesLead'
    BY <1>1, <1>3, <1>4 DEF TarjanInv, FramesLead
  <2>2. StackLeads'
    <3> SUFFICES ASSUME NEW x \in ToSet(stack)
                 PROVE  \E k \in DOMAIN dfs' : indices[dfs'[k].node] <= indices[x] /\ Leads(x, dfs'[k].node)
      BY <1>1, <1>4 DEF StackLeads
    <3>1. PICK k \in DOMAIN dfs : indices[dfs[k].node] <= indices[x] /\ Leads(x, dfs[k].node)
      BY DEF TarjanInv, StackLeads
    <3> QED BY <1>3, <3>1
  <2> QED BY <2>1, <2>2
<1>10. LowlinksReal'
  <2> SUFFICES ASSUME NEW x \in ToSet(stack)
               PROVE  \E y \in ToSet(stack) : indices[y] = lowlink'[x] /\ Leads(x, y)
    BY <1>1, <1>4 DEF LowlinksReal
  <2>1. CASE lowlink'[x] = lowlink[x]
    BY <2>1 DEF TarjanInv, LowlinksReal
  <2>2. CASE lowlink'[x] # lowlink[x]
    <3>1. x = p /\ z \in ToSet(stack) /\ indices[z] = lowlink'[x]
      BY <1>2, <1>5, <2>2
    <3>2. p \in unresolved
      BY <1>2, <1>3, SearchFacts
    <3>3. Leads(p, z)
      BY <1>3, <3>2, LeadsFacts
    <3> QED BY <3>1, <3>3
  <2> QED BY <2>1, <2>2
<1>11. LowlinksLow'
  <2> SUFFICES ASSUME NEW x \in ToSet(stack), NEW y \in ToSet(stack), GoneBy(x, y)',
                      NEW k \in DOMAIN dfs, IsOwner(k, x)'
               PROVE  lowlink'[dfs[k].node] <= indices[y]
    BY <1>1, <1>3 DEF LowlinksLow
  <2>1. IsOwner(k, x) /\ dfs[k].node \in DOMAIN indices /\ y \in DOMAIN indices
    BY <1>2, <1>7
  <2>2. CASE GoneBy(x, y)
    <3>1. lowlink[dfs[k].node] <= indices[y]
      BY <2>1, <2>2 DEF TarjanInv, LowlinksLow
    <3> QED BY <1>2, <1>5, <2>1, <3>1
  <2>3. CASE x = p /\ y = z
    <3>1. ~(k < l)
      <4>1. k < l => indices[x] < indices[dfs[l].node]
        BY <1>3, <2>1 DEF IsOwner
      <4>2. indices[x] \in Nat
        BY <1>2
      <4> QED BY <1>3, <2>3, <4>1, <4>2
    <3>2. k = l
      BY <1>2, <3>1
    <3> QED BY <1>3, <1>5, <2>3, <3>2
  <2> QED BY <1>6, <2>2, <2>3
<1>12. Whole(Found)' /\ \A C \in ToSet(sccs') : IsComponent(C)'
  <2>1. sccs' = sccs /\ Found' = Found
    BY <1>1 DEF Found
  <2>2. Whole(Found)' <=> Whole(Found)
    BY <1>4, <2>1 DEF Whole
  <2> QED BY <1>4, <2>1, <2>2 DEF TarjanInv
<1>13. RootsRemain' /\ Reported'
  BY <1>1, <1>4 DEF TarjanInv, RootsRemain, Reported
<1> QED BY <1>8, <1>9, <1>10, <1>11, <1>12, <1>13 DEF TarjanInv

(* Where the frame closed stands, and what is popped with it.                 *)
LEMMA ClosedIs ==
    ASSUME SearchInv, CloseNode
    PROVE  /\ Len(dfs) \in Nat /\ Len(dfs) >= 1 /\ DOMAIN dfs' = 1 .. Len(dfs) - 1
           /\ \A k \in DOMAIN dfs' : k \in DOMAIN dfs /\ dfs'[k] = dfs[k]
           /\ \A k \in DOMAIN dfs : k \in DOMAIN dfs' \/ k = Len(dfs)
           /\ TopFrame = dfs[Len(dfs)] /\ TopFrame.node \in ToSet(stack)
           /\ TopFrame.i > Len(adj(TopFrame.node))
           /\ UNCHANGED <<module, pc, resolved, visible, nodes, index, indices, diags>> /\ pc = "cycles"
           /\ \/ /\ lowlink[TopFrame.node] # indices[TopFrame.node]
                 /\ sccs' = sccs /\ stack' = stack
              \/ /\ lowlink[TopFrame.node] = indices[TopFrame.node]
                 /\ ToSet(stack') = {x \in ToSet(stack) : indices[x] < indices[TopFrame.node]}
                 /\ ToSet(sccs') = ToSet(sccs) \union
                        {{x \in ToSet(stack) : indices[TopFrame.node] <= indices[x]}}
           /\ lowlink' = IF dfs' # <<>> /\ lowlink[TopFrame.node] < lowlink[dfs'[Len(dfs) - 1].node]
                         THEN Put(lowlink, dfs'[Len(dfs) - 1].node, lowlink[TopFrame.node])
                         ELSE lowlink
           /\ dfs' # <<>> <=> Len(dfs) > 1
<1> DEFINE l == Len(dfs)
           n == TopFrame.node
           rest == SubSeq(dfs, 1, l - 1)
           b == Bottom(n)
           below == SubSeq(stack, 1, b - 1)
           popped == ToSet(SubSeq(stack, b, Len(stack)))
           above == {x \in ToSet(stack) : indices[n] <= indices[x]}
<1>1. /\ dfs # <<>> /\ pc = "cycles" /\ dfs' = rest /\ TopFrame.i > Len(adj(n))
      /\ IF lowlink[n] = indices[n]
         THEN /\ sccs' = Append(sccs, popped)
              /\ stack' = below
         ELSE sccs' = sccs /\ stack' = stack
      /\ lowlink' = IF rest # <<>> /\ lowlink[n] < lowlink[rest[Len(rest)].node]
                    THEN Put(lowlink, rest[Len(rest)].node, lowlink[n]) ELSE lowlink
      /\ UNCHANGED <<module, pc, resolved, visible, nodes, index, indices, diags>>
  BY DEF CloseNode
<1>2. /\ l \in Nat /\ l \in DOMAIN dfs /\ DOMAIN dfs = 1 .. l /\ TopFrame = dfs[l] /\ n \in ToSet(stack)
  BY <1>1, TopIs
<1>3. dfs \in Seq(Frame)
  BY DEF SearchInv, FramesFit
<1>4. /\ Len(rest) = l - 1 /\ DOMAIN rest = 1 .. l - 1 /\ l >= 1
      /\ \A i \in 1 .. l - 1 : i \in DOMAIN dfs /\ rest[i] = dfs[i]
      /\ (rest # <<>> <=> l > 1)
  <2>1. /\ rest \in Seq(Frame) /\ Len(rest) = l - 1 /\ DOMAIN rest = 1 .. l - 1 /\ l >= 1
        /\ \A i \in 1 .. l - 1 : i \in DOMAIN dfs /\ rest[i] = dfs[i]
    BY <1>2, <1>3
  <2> HIDE DEF rest
  <2>2. rest # <<>> <=> Len(rest) # 0
    BY <2>1
  <2> QED BY <1>2, <2>1, <2>2
<1>5. \A k \in DOMAIN dfs : k \in 1 .. l - 1 \/ k = l
  BY <1>2
<1> HIDE DEF rest
<1>6. ASSUME lowlink[n] = indices[n]
      PROVE  /\ ToSet(stack') = {x \in ToSet(stack) : indices[x] < indices[n]}
             /\ ToSet(sccs') = ToSet(sccs) \union {above}
  <2> HIDE DEF n
  <2>0. stack \in Seq(DOMAIN indices) /\ StackFits /\ NumbersFit
    BY DEF SearchInv, StackFits
  <2>1. b \in DOMAIN stack /\ stack[b] = n /\ b \in Nat /\ b >= 1
    BY <1>2, <2>0 DEF Bottom, ToSet
  <2>2. stack' = below /\ sccs' = Append(sccs, popped)
    BY <1>1, <1>6
  <2> HIDE DEF b
  <2>3. /\ DOMAIN below = 1 .. b - 1 /\ \A i \in 1 .. b - 1 : i \in DOMAIN stack /\ below[i] = stack[i]
        /\ ToSet(below) \union popped = ToSet(stack) /\ ToSet(below) \intersect popped = {}
    BY <2>0, <2>1, CutIs
  <2> HIDE DEF below, popped
  <2>4. \A x \in ToSet(stack) : x \in ToSet(below) <=> indices[x] < indices[n]
    <3> TAKE x \in ToSet(stack)
    <3>1. PICK p \in DOMAIN stack : stack[p] = x
      BY DEF ToSet
    <3>2. p \in Nat /\ p >= 1
      BY <2>0
    <3>3. \A i, k \in DOMAIN stack : i < k => indices[stack[i]] < indices[stack[k]]
      BY <2>0 DEF StackFits
    <3>4. indices[x] \in Nat /\ indices[n] \in Nat
      BY <1>2, SearchFacts
    <3>5. ASSUME x \in ToSet(below) PROVE indices[x] < indices[n]
      <4>1. PICK i \in 1 .. b - 1 : stack[i] = x
        BY <2>3, <3>5 DEF ToSet
      <4>2. i \in DOMAIN stack /\ i < b
        BY <2>1, <2>3
      <4> QED BY <2>1, <3>3, <4>1, <4>2
    <3>6. ASSUME indices[x] < indices[n] PROVE x \in ToSet(below)
      <4>1. p # b /\ ~(b < p)
        BY <2>1, <3>1, <3>3, <3>4, <3>6
      <4>2. p \in 1 .. b - 1
        BY <2>1, <3>2, <4>1
      <4> QED BY <2>3, <3>1, <4>2 DEF ToSet
    <3> QED BY <3>5, <3>6
  <2>5. ToSet(below) = {x \in ToSet(stack) : indices[x] < indices[n]}
    BY <2>3, <2>4
  <2>6. popped = above
    <3>1. \A x \in ToSet(stack) : indices[x] < indices[n] <=> ~(indices[n] <= indices[x])
      BY <1>2, SearchFacts
    <3> QED BY <2>3, <2>4, <3>1
  <2>7. ToSet(sccs') = ToSet(sccs) \union {popped}
    <3>1. sccs \in Seq(SUBSET Local)
      BY <2>0 DEF StackFits
    <3>2. popped \in SUBSET Local
      <4>1. unresolved \subseteq Local
        BY ModulesAssumption DEF SearchInv, unresolved, Declared, IsModule
      <4>2. ToSet(stack) \subseteq unresolved
        BY SearchFacts
      <4> QED BY <2>3, <4>1, <4>2
    <3> QED BY <2>2, <3>1, <3>2, AppendIs
  <2> QED BY <2>2, <2>5, <2>6, <2>7
<1> HIDE DEF l, n, above
<1>7. lowlink[n] # indices[n] => sccs' = sccs /\ stack' = stack
  BY <1>1
<1>8. /\ DOMAIN dfs' = 1 .. l - 1 /\ (\A k \in DOMAIN dfs' : k \in DOMAIN dfs /\ dfs'[k] = dfs[k])
      /\ (\A k \in DOMAIN dfs : k \in DOMAIN dfs' \/ k = l) /\ (dfs' # <<>> <=> l > 1)
  BY <1>1, <1>4, <1>5
<1>9. lowlink' = IF dfs' # <<>> /\ lowlink[n] < lowlink[dfs'[l - 1].node]
                 THEN Put(lowlink, dfs'[l - 1].node, lowlink[n]) ELSE lowlink
  BY <1>1, <1>4
<1> QED BY <1>1, <1>2, <1>4, <1>6, <1>7, <1>8, <1>9 DEF l, n, above

LEMMA CloseNodeExplores == ASSUME SearchInv, TarjanInv, CloseNode PROVE TarjanInv'
<1> DEFINE l == Len(dfs)
           n == TopFrame.node
           p == dfs[l - 1].node
           P == {x \in ToSet(stack) : indices[n] <= indices[x]}
<1>1. /\ l \in Nat /\ l >= 1 /\ DOMAIN dfs' = 1 .. l - 1
      /\ \A k \in DOMAIN dfs' : k \in DOMAIN dfs /\ dfs'[k] = dfs[k]
      /\ \A k \in DOMAIN dfs : k \in DOMAIN dfs' \/ k = l
      /\ n = dfs[l].node /\ dfs[l].i > Len(adj(n)) /\ n \in ToSet(stack)
      /\ UNCHANGED <<module, pc, resolved, visible, nodes, index, indices, diags>> /\ pc = "cycles"
      /\ dfs' # <<>> <=> l > 1
  BY ClosedIs
<1>2. /\ DOMAIN dfs = 1 .. l
      /\ \A k \in DOMAIN dfs : dfs[k].node \in ToSet(stack) /\ dfs[k].node \in DOMAIN indices
      /\ \A j, k \in DOMAIN dfs : j < k => indices[dfs[j].node] < indices[dfs[k].node]
      /\ ToSet(stack) \subseteq DOMAIN indices
      /\ \A x \in DOMAIN indices : indices[x] \in Nat /\ x \in unresolved
      /\ \A x \in DOMAIN indices : lowlink[x] \in Nat /\ lowlink[x] <= indices[x]
      /\ ToSet(stack) = DOMAIN indices \ Found /\ module \in Modules
  BY SearchFacts
<1>3. \/ lowlink[n] # indices[n] /\ sccs' = sccs /\ stack' = stack
      \/ /\ lowlink[n] = indices[n]
         /\ ToSet(stack') = {x \in ToSet(stack) : indices[x] < indices[n]}
         /\ ToSet(sccs') = ToSet(sccs) \union {P}
  BY ClosedIs
<1>4. l > 1 => p = dfs'[l - 1].node /\ l - 1 \in DOMAIN dfs' /\ l - 1 \in DOMAIN dfs /\ p \in DOMAIN indices
               /\ indices[p] < indices[n]
  BY <1>1, <1>2, SMTT(30)
<1>5. lowlink' = IF l > 1 /\ lowlink[n] < lowlink[p] THEN Put(lowlink, p, lowlink[n]) ELSE lowlink
  <2>1. lowlink' = IF dfs' # <<>> /\ lowlink[n] < lowlink[dfs'[l - 1].node]
                   THEN Put(lowlink, dfs'[l - 1].node, lowlink[n]) ELSE lowlink
    BY ClosedIs
  <2> QED BY <1>1, <1>4, <2>1
<1> HIDE DEF l, n, p
<1>6. /\ unresolved' = unresolved /\ \A x : adj(x)' = adj(x) /\ Mentioned(x)' = Mentioned(x)
      /\ \A S : Whole(S)' <=> Whole(S)
      /\ \A x, y : Leads(x, y)' <=> Leads(x, y)
      /\ \A C : IsComponent(C)' <=> IsComponent(C)
  BY <1>1, LeadsStay
<1>7. /\ \A x \in DOMAIN indices : lowlink'[x] \in Nat /\ lowlink'[x] <= lowlink[x]
      /\ \A x \in DOMAIN indices : \/ lowlink'[x] = lowlink[x]
                                   \/ l > 1 /\ x = p /\ lowlink[n] < lowlink[p] /\ lowlink'[x] = lowlink[n]
      /\ l > 1 => lowlink'[p] <= lowlink[n]
  <2>1. DOMAIN lowlink = DOMAIN indices /\ lowlink[n] \in Nat
    BY <1>1, <1>2 DEF SearchInv, LowlinksFit
  <2>2. CASE l > 1 /\ lowlink[n] < lowlink[p]
    <3>1. \A x \in DOMAIN indices : lowlink'[x] = IF x = p THEN lowlink[n] ELSE lowlink[x]
      BY <1>4, <1>5, <2>1, <2>2 DEF Put
    <3> QED BY <1>2, <1>4, <2>1, <2>2, <3>1
  <2>3. CASE ~(l > 1 /\ lowlink[n] < lowlink[p])
    BY <1>2, <1>4, <1>5, <2>1, <2>3
  <2> QED BY <2>2, <2>3
<1>8. \A x, y : GoneBy(x, y)' => GoneBy(x, y)
  <2> TAKE x, y
  <2> SUFFICES ASSUME GoneBy(x, y)' PROVE GoneBy(x, y)
    OBVIOUS
  <2>1. PICK i \in DOMAIN adj(x) : adj(x)[i] = y /\ \A k \in DOMAIN dfs' : dfs'[k].node = x => i < dfs'[k].i
    BY <1>6 DEF GoneBy
  <2>2. /\ i \in 1 .. Len(adj(x)) /\ Len(adj(x)) \in Nat
    BY <1>2, <2>1, AdjTells
  <2>3. ASSUME NEW k \in DOMAIN dfs, dfs[k].node = x PROVE i < dfs[k].i
    <3>1. dfs[k].i \in Nat
      BY SearchFacts
    <3> QED BY <1>1, <2>1, <2>2, <2>3, <3>1
  <2> QED BY <2>1, <2>3 DEF GoneBy
(* What is popped is closed already, but for n.                               *)
<1>9. ASSUME NEW x \in P, NEW y \in Mentioned(x), y # x PROVE GoneBy(x, y)
  <2>1. PICK i \in DOMAIN adj(x) : adj(x)[i] = y
    BY <1>2, <1>9, AdjTells
  <2>2. i \in 1 .. Len(adj(x)) /\ Len(adj(x)) \in Nat
    BY <1>2, <2>1, AdjTells
  <2>3. ASSUME NEW k \in DOMAIN dfs, dfs[k].node = x PROVE i < dfs[k].i
    <3>1. k = l
      <4>1. k \in 1 .. l /\ l \in DOMAIN dfs
        BY <1>1, <1>2
      <4>2. k < l => indices[x] < indices[n]
        BY <1>1, <1>2, <2>3, <4>1
      <4>3. indices[x] \in Nat /\ indices[n] \in Nat /\ indices[n] <= indices[x]
        BY <1>1, <1>2
      <4> QED BY <1>1, <4>1, <4>2, <4>3
    <3>2. dfs[k].i \in Nat
      BY SearchFacts
    <3> QED BY <1>1, <2>2, <2>3, <3>1, <3>2
  <2> QED BY <2>1, <2>3 DEF GoneBy
<1>10. \A k \in DOMAIN dfs : Leads(dfs[k].node, n) /\ indices[dfs[k].node] <= indices[n]
  <2> TAKE k \in DOMAIN dfs
  <2>1. indices[dfs[k].node] <= indices[n]
    BY <1>1, <1>2
  <2> QED BY <1>1, <2>1 DEF TarjanInv, FramesLead
<1>11. l \in DOMAIN dfs /\ \A x : indices[n] <= indices[x] => IsOwner(l, x)
  BY <1>1, <1>2 DEF IsOwner
<1> HIDE DEF P
<1>12. \A x : x \in P <=> x \in ToSet(stack) /\ indices[n] <= indices[x]
  BY DEF P
<1>13. ToSet(stack') \subseteq ToSet(stack)
  BY <1>3
<1>14. GoneByVisited'
  BY <1>1, <1>8 DEF TarjanInv, GoneByVisited
<1>15. FramesLead'
  <2> SUFFICES ASSUME NEW k \in DOMAIN dfs', NEW x \in ToSet(stack'), indices[dfs'[k].node] <= indices[x]
               PROVE  Leads(dfs'[k].node, x)
    BY <1>1, <1>6 DEF FramesLead
  <2>1. k \in DOMAIN dfs /\ dfs'[k] = dfs[k] /\ x \in ToSet(stack)
    BY <1>1, <1>13
  <2> QED BY <2>1 DEF TarjanInv, FramesLead
<1>16. StackLeads'
  <2> SUFFICES ASSUME NEW x \in ToSet(stack')
               PROVE  \E k \in DOMAIN dfs' : indices[dfs'[k].node] <= indices[x] /\ Leads(x, dfs'[k].node)
    BY <1>1, <1>6 DEF StackLeads
  <2>1. x \in ToSet(stack) /\ indices[x] \in Nat /\ indices[n] \in Nat
    BY <1>1, <1>2, <1>13
  <2>2. PICK k \in DOMAIN dfs : indices[dfs[k].node] <= indices[x] /\ Leads(x, dfs[k].node)
    BY <2>1 DEF TarjanInv, StackLeads
  <2>3. CASE k # l
    <3>1. k \in DOMAIN dfs' /\ dfs'[k] = dfs[k]
      BY <1>1, <2>3
    <3> QED BY <2>2, <3>1
  <2>4. CASE k = l
    <3>1. ~(indices[x] < indices[n])
      BY <1>1, <2>1, <2>2, <2>4
    <3>2. lowlink[n] # indices[n]
      BY <1>3, <3>1
    <3>3. PICK y \in ToSet(stack) : indices[y] = lowlink[n] /\ Leads(n, y)
      BY <1>1 DEF TarjanInv, LowlinksReal
    <3>4. PICK j \in DOMAIN dfs : indices[dfs[j].node] <= indices[y] /\ Leads(y, dfs[j].node)
      BY DEF TarjanInv, StackLeads
    <3>5. indices[y] < indices[n] /\ indices[y] \in Nat /\ indices[dfs[j].node] \in Nat
      BY <1>1, <1>2, <3>2, <3>3
    <3>6. j # l /\ indices[dfs[j].node] <= indices[x]
      BY <1>1, <2>1, <3>1, <3>4, <3>5
    <3>7. j \in DOMAIN dfs' /\ dfs'[j] = dfs[j]
      BY <1>1, <3>6
    <3>8. Leads(x, dfs[j].node)
      BY <1>1, <2>2, <2>4, <3>3, <3>4, LeadsFacts
    <3> QED BY <3>6, <3>7, <3>8
  <2> QED BY <2>3, <2>4
<1>17. LowlinksReal'
  <2> SUFFICES ASSUME NEW x \in ToSet(stack')
               PROVE  \E y \in ToSet(stack') : indices[y] = lowlink'[x] /\ Leads(x, y)
    BY <1>1, <1>6 DEF LowlinksReal
  <2>1. /\ x \in ToSet(stack) /\ indices[x] \in Nat /\ lowlink[x] \in Nat /\ lowlink[x] <= indices[x]
        /\ x \in DOMAIN indices
    BY <1>2, <1>13
  <2>2. CASE lowlink[n] # indices[n]
    <3>0. stack' = stack
      BY <1>3, <2>2
    <3>1. CASE lowlink'[x] = lowlink[x]
      BY <3>0, <3>1, <2>1 DEF TarjanInv, LowlinksReal
    <3>2. CASE lowlink'[x] # lowlink[x]
      <4>1. l > 1 /\ x = p /\ lowlink'[x] = lowlink[n]
        BY <1>7, <2>1, <3>2
      <4>2. PICK y \in ToSet(stack) : indices[y] = lowlink[n] /\ Leads(n, y)
        BY <1>1 DEF TarjanInv, LowlinksReal
      <4>3. Leads(p, n)
        BY <1>4, <1>10, <4>1 DEF p
      <4> QED BY <3>0, <4>1, <4>2, <4>3, LeadsFacts
    <3> QED BY <3>1, <3>2
  <2>3. CASE lowlink[n] = indices[n]
    <3>1. ToSet(stack') = {y \in ToSet(stack) : indices[y] < indices[n]}
      BY <1>3, <2>3
    <3>2. lowlink'[x] = lowlink[x]
      <4>1. indices[n] \in Nat
        BY <1>1, <1>2
      <4>2. x = p => ~(lowlink[n] < lowlink[p])
        BY <2>1, <2>3, <3>1, <4>1
      <4> QED BY <1>7, <2>1, <4>2
    <3>3. PICK y \in ToSet(stack) : indices[y] = lowlink[x] /\ Leads(x, y)
      BY <2>1 DEF TarjanInv, LowlinksReal
    <3>4. indices[y] < indices[n]
      <4>1. indices[n] \in Nat /\ indices[x] < indices[n]
        BY <1>1, <1>2, <3>1
      <4> QED BY <2>1, <3>3, <4>1
    <3> QED BY <3>1, <3>2, <3>3, <3>4
  <2> QED BY <2>2, <2>3
<1>18. LowlinksLow'
  <2> SUFFICES ASSUME NEW x \in ToSet(stack'), NEW y \in ToSet(stack'), GoneBy(x, y)',
                      NEW k \in DOMAIN dfs', IsOwner(k, x)'
               PROVE  lowlink'[dfs'[k].node] <= indices[y]
    BY <1>1 DEF LowlinksLow
  <2>1. /\ x \in ToSet(stack) /\ y \in ToSet(stack) /\ GoneBy(x, y)
        /\ k \in DOMAIN dfs /\ dfs'[k] = dfs[k] /\ k \in 1 .. l - 1
        /\ indices[x] \in Nat /\ indices[y] \in Nat /\ indices[n] \in Nat
        /\ dfs[k].node \in DOMAIN indices /\ lowlink[n] \in Nat
    BY <1>1, <1>2, <1>8, <1>13
  <2>2. /\ indices[dfs[k].node] <= indices[x]
        /\ \A j \in DOMAIN dfs' : k < j => indices[x] < indices[dfs[j].node]
    BY <1>1, <2>1 DEF IsOwner
  <2>3. CASE indices[x] < indices[n]
    <3>1. IsOwner(k, x)
      BY <1>1, <2>2, <2>3 DEF IsOwner
    <3>2. lowlink[dfs[k].node] <= indices[y]
      BY <2>1, <3>1 DEF TarjanInv, LowlinksLow
    <3> QED BY <1>2, <1>7, <2>1, <3>2
  <2>4. CASE ~(indices[x] < indices[n])
    <3>1. lowlink[n] <= indices[y]
      <4>1. IsOwner(l, x)
        BY <1>11, <2>1, <2>4
      <4> QED BY <1>1, <1>11, <2>1, <4>1 DEF TarjanInv, LowlinksLow
    <3>2. l > 1
      BY <1>1, <2>1
    <3>3. ~(k < l - 1)
      <4>1. k < l - 1 => indices[x] < indices[p]
        BY <1>4, <2>2, <3>2 DEF p
      <4>2. indices[p] \in Nat
        BY <1>2, <1>4, <3>2
      <4> QED BY <1>4, <2>1, <2>4, <3>2, <4>1, <4>2
    <3>4. dfs[k].node = p
      <4>1. k = l - 1
        BY <1>1, <2>1, <3>3
      <4> QED BY <4>1 DEF p
    <3> QED BY <1>2, <1>7, <2>1, <3>1, <3>2, <3>4
  <2> QED BY <2>3, <2>4
<1>19. Whole(Found)' /\ \A C \in ToSet(sccs') : IsComponent(C)'
  <2>1. CASE lowlink[n] # indices[n]
    <3>1. sccs' = sccs /\ Found' = Found
      BY <1>3, <2>1 DEF Found
    <3>2. Whole(Found)' <=> Whole(Found)
      BY <1>6, <3>1 DEF Whole
    <3> QED BY <1>6, <3>1, <3>2 DEF TarjanInv
  <2>2. CASE lowlink[n] = indices[n]
    <3>1. ToSet(sccs') = ToSet(sccs) \union {P} /\ Found' = Found \union P
      BY <1>3, <2>2 DEF Found
    <3>2. ASSUME NEW x \in P, NEW y \in Mentioned(x) PROVE y \in P \union Found
      <4>1. CASE y = x
        BY <4>1
      <4>2. CASE y # x
        <5>1. GoneBy(x, y) /\ x \in ToSet(stack) /\ x \in DOMAIN indices /\ indices[n] <= indices[x]
          BY <1>2, <1>9, <1>12, <4>2
        <5>2. y \in DOMAIN indices
          BY <5>1 DEF TarjanInv, GoneByVisited
        <5>3. CASE y \in ToSet(stack)
          <6>1. IsOwner(l, x) /\ l \in DOMAIN dfs
            BY <1>11, <5>1
          <6>2. lowlink[dfs[l].node] <= indices[y]
            BY <5>1, <5>3, <6>1 DEF TarjanInv, LowlinksLow
          <6> QED BY <1>1, <1>12, <2>2, <5>3, <6>2
        <5>4. CASE y \notin ToSet(stack)
          BY <1>2, <5>2, <5>4
        <5> QED BY <5>3, <5>4
      <4> QED BY <4>1, <4>2
    <3>3. Whole(Found) /\ Whole(Found \union P)
      BY <3>2 DEF TarjanInv, Whole
    <3>4. Found \subseteq unresolved /\ P \subseteq unresolved
      <4>1. Found \subseteq DOMAIN indices
        BY DEF SearchInv, StackFits, Found
      <4> QED BY <1>2, <1>12, <4>1
    <3>5. ASSUME NEW x \in P PROVE Leads(x, n) /\ Leads(n, x)
      <4>1. x \in ToSet(stack) /\ indices[n] <= indices[x]
        BY <1>12
      <4>2. PICK k \in DOMAIN dfs : Leads(x, dfs[k].node)
        BY <4>1 DEF TarjanInv, StackLeads
      <4>3. Leads(x, n)
        BY <1>10, <4>2, LeadsFacts
      <4>4. Leads(n, x)
        BY <1>1, <1>11, <4>1 DEF TarjanInv, FramesLead
      <4> QED BY <4>3, <4>4
    <3>6. ASSUME NEW x \in P, NEW y \in unresolved, Leads(x, y), Leads(y, x) PROVE y \in P
      <4>1. y \in Found \union P
        <5>1. Found \union P \in SUBSET unresolved /\ x \in Found \union P
          BY <3>4
        <5> QED BY <3>3, <3>6, <5>1, LeadsFacts
      <4>2. y \notin Found
        <5>1. Found \in SUBSET unresolved
          BY <3>4
        <5>2. y \in Found => x \in Found
          BY <3>3, <3>6, <5>1, LeadsFacts
        <5> QED BY <1>2, <1>12, <5>2
      <4> QED BY <4>1, <4>2
    <3>7. n \in P
      <4>1. indices[n] \in Nat
        BY <1>1, <1>2
      <4> QED BY <1>1, <1>12, <4>1
    <3>8. \A x, y \in P : Leads(x, y)
      BY <3>5, LeadsFacts
    <3>9. IsComponent(P)
      BY <3>4, <3>6, <3>7, <3>8 DEF IsComponent
    <3>10. Whole(Found)'
      BY <1>6, <3>1, <3>3 DEF Whole
    <3> QED BY <1>6, <3>1, <3>9, <3>10 DEF TarjanInv
  <2> QED BY <2>1, <2>2
<1>20. RootsRemain' /\ Reported'
  BY <1>1, <1>6 DEF TarjanInv, RootsRemain, Reported
<1> QED BY <1>14, <1>15, <1>16, <1>17, <1>18, <1>19, <1>20 DEF TarjanInv

LEMMA RootsExplore == ASSUME SearchInv, TarjanInv, SkipRoot \/ VisitRoot PROVE TarjanInv'
<1>1. /\ pc = "cycles" /\ dfs = <<>> /\ nodes # <<>> /\ nodes' = Tail(nodes)
      /\ UNCHANGED <<module, pc, resolved, visible, sccs, diags>>
  BY DEF SkipRoot, VisitRoot
<1>2. /\ nodes \in Seq(unresolved) /\ FramesFit(dfs) /\ Head(nodes) \in unresolved /\ DOMAIN dfs = {}
      /\ ToSet(nodes) = {Head(nodes)} \union ToSet(nodes')
  <2>1. nodes \in Seq(unresolved) /\ FramesFit(dfs) /\ DOMAIN dfs = {}
    BY <1>1 DEF SearchInv
  <2>2. /\ Len(nodes) \in Nat /\ Len(nodes) >= 1 /\ DOMAIN nodes = 1 .. Len(nodes)
        /\ DOMAIN Tail(nodes) = 1 .. Len(nodes) - 1
        /\ \A i \in 1 .. Len(nodes) - 1 : Tail(nodes)[i] = nodes[i + 1]
        /\ Head(nodes) = nodes[1] /\ Head(nodes) \in unresolved
    BY <1>1, <2>1
  <2>3. ASSUME NEW x \in ToSet(nodes) PROVE x = Head(nodes) \/ x \in ToSet(nodes')
    <3>1. PICK i \in 1 .. Len(nodes) : nodes[i] = x
      BY <2>2 DEF ToSet
    <3>2. i = 1 \/ (i - 1 \in DOMAIN Tail(nodes) /\ Tail(nodes)[i - 1] = x)
      BY <2>2, <3>1
    <3> QED BY <1>1, <2>2, <3>1, <3>2 DEF ToSet
  <2>4. ASSUME NEW x \in ToSet(nodes') PROVE x \in ToSet(nodes)
    <3>1. PICK i \in 1 .. Len(nodes) - 1 : nodes[i + 1] = x
      BY <1>1, <2>2 DEF ToSet
    <3>2. i + 1 \in DOMAIN nodes
      BY <2>2
    <3> QED BY <3>1, <3>2 DEF ToSet
  <2>5. Head(nodes) \in ToSet(nodes)
    <3>1. 1 \in DOMAIN nodes
      BY <2>2
    <3> QED BY <2>2, <3>1 DEF ToSet
  <2> QED BY <2>1, <2>2, <2>3, <2>4, <2>5
<1>3. CASE VisitRoot
  <2>1. Head(nodes) \notin DOMAIN indices /\ Visit(Head(nodes), dfs)
    BY <1>3 DEF VisitRoot
  <2>2. RootsRemain'
    <3>1. DOMAIN indices' = DOMAIN indices \union {Head(nodes)}
      BY <2>1 DEF Visit, Put
    <3>2. unresolved' = unresolved
      BY <1>1, LeadsStay
    <3> QED BY <1>1, <1>2, <3>1, <3>2 DEF TarjanInv, RootsRemain
  <2> QED BY <1>1, <1>2, <2>1, <2>2, VisitExplores
<1>4. CASE SkipRoot
  <2>1. Head(nodes) \in DOMAIN indices /\ UNCHANGED <<index, indices, lowlink, stack, dfs>>
    BY <1>4 DEF SkipRoot
  <2>2. /\ unresolved' = unresolved /\ \A x : adj(x)' = adj(x)
        /\ \A S : Whole(S)' <=> Whole(S)
        /\ \A x, y : Leads(x, y)' <=> Leads(x, y)
        /\ \A C : IsComponent(C)' <=> IsComponent(C)
    BY <1>1, LeadsStay
  <2>3. RootsRemain'
    BY <1>1, <1>2, <2>1, <2>2 DEF TarjanInv, RootsRemain
  <2>4. \A x, y : GoneBy(x, y)' <=> GoneBy(x, y)
    BY <2>1, <2>2 DEF GoneBy
  <2>5. GoneByVisited' /\ FramesLead' /\ StackLeads' /\ LowlinksReal'
    BY <2>1, <2>2, <2>4 DEF TarjanInv, GoneByVisited, FramesLead, StackLeads, LowlinksReal
  <2>6. LowlinksLow'
    BY <2>1, <2>4 DEF TarjanInv, LowlinksLow, IsOwner
  <2>7. Found' = Found /\ (Whole(Found)' <=> Whole(Found))
    BY <1>1, <2>2 DEF Found, Whole
  <2>8. Reported'
    BY <1>1 DEF Reported
  <2> QED BY <1>1, <2>2, <2>3, <2>5, <2>6, <2>7, <2>8 DEF TarjanInv
<1> QED BY <1>3, <1>4

LEMMA DescendExplores == ASSUME SearchInv, TarjanInv, Descend PROVE TarjanInv'
<1>1. /\ AtNeighbour /\ pc = "cycles" /\ Neighbour \notin DOMAIN indices /\ Visit(Neighbour, Advanced)
      /\ UNCHANGED <<module, pc, resolved, visible, nodes, sccs, diags>>
  BY DEF Descend, AtNeighbour
<1>2. FramesFit(Advanced) /\ Neighbour \in unresolved
  BY <1>1, AdvancedFits, NeighbourIs
<1>3. /\ DOMAIN Advanced = DOMAIN dfs
      /\ \A k \in DOMAIN dfs : Advanced[k].node = dfs[k].node /\ Leads(dfs[k].node, Neighbour)
      /\ \A k \in DOMAIN dfs : \A i \in Nat :
            i < Advanced[k].i => i < dfs[k].i \/ adj(dfs[k].node)[i] = Neighbour
  BY <1>1, AdvancedIs
<1>4. RootsRemain'
  <2>1. DOMAIN indices' = DOMAIN indices \union {Neighbour}
    BY <1>1 DEF Visit, Put
  <2>2. unresolved' = unresolved
    BY <1>1, LeadsStay
  <2> QED BY <1>1, <2>1, <2>2 DEF TarjanInv, RootsRemain
<1> DEFINE n == Neighbour
           base == Advanced
<1>5. /\ n \in unresolved /\ n \notin DOMAIN indices /\ FramesFit(base) /\ DOMAIN base = DOMAIN dfs
      /\ \A k \in DOMAIN dfs : base[k].node = dfs[k].node /\ Leads(dfs[k].node, n)
      /\ \A k \in DOMAIN dfs : \A i \in Nat : i < base[k].i => i < dfs[k].i \/ adj(dfs[k].node)[i] = n
      /\ Visit(n, base)
  BY <1>1, <1>2, <1>3
<1> HIDE DEF n, base
<1> QED BY <1>1, <1>4, <1>5, VisitExplores

(* Before the search there is nothing to say, and the report takes what it    *)
(* found.                                                                     *)
LEMMA ExploreStarts == Init => TarjanInv
<1> SUFFICES ASSUME Init PROVE TarjanInv
  OBVIOUS
<1>1. /\ pc = "passes" /\ DOMAIN indices = {} /\ DOMAIN dfs = {} /\ ToSet(stack) = {} /\ ToSet(sccs) = {}
  BY DEF Init, ToSet
<1>2. Found = {}
  BY <1>1 DEF Found
<1> QED BY <1>1, <1>2 DEF TarjanInv, GoneByVisited, FramesLead, StackLeads, LowlinksReal, LowlinksLow,
                          Whole, RootsRemain, Reported

LEMMA BoundsExplore ==
    ASSUME SearchInv, TarjanInv, Pass \/ EndPasses \/ Report \/ UNCHANGED vars PROVE TarjanInv'
<1>1. module' = module /\ UNCHANGED <<index, indices, lowlink, stack, dfs, sccs>>
  BY DEF Pass, EndPasses, Report, vars, tarjan
<1>2. CASE Pass \/ EndPasses
  <2>1. /\ pc = "passes" /\ DOMAIN indices' = {} /\ DOMAIN dfs' = {} /\ ToSet(stack') = {} /\ ToSet(sccs') = {}
    BY <1>1, <1>2 DEF Pass, EndPasses, SearchInv, NotBegun, ToSet
  <2>2. Found' = {}
    BY <2>1 DEF Found
  <2>3. RootsRemain'
    <3>1. CASE Pass
      BY <2>1, <3>1 DEF Pass, RootsRemain
    <3>2. CASE EndPasses
      <4>1. nodes' = Sorted(unresolved) /\ unresolved' = unresolved
        BY <3>2 DEF EndPasses, unresolved, Declared
      <4>2. IsFiniteSet(unresolved) /\ unresolved \in SUBSET Nat
        <5>1. unresolved \in SUBSET Local
          BY ModulesAssumption DEF SearchInv, unresolved, Declared, IsModule
        <5> QED BY <5>1, LocalAssumption, FS_Subset
      <4>3. \A x \in unresolved : x \in ToSet(nodes')
        BY <4>1, <4>2, SortedListsKeys DEF ToSet
      <4> QED BY <4>1, <4>3 DEF RootsRemain
    <3> QED BY <1>2, <3>1, <3>2
  <2>4. Reported'
    BY <1>2, <2>1 DEF Pass, EndPasses, Reported
  <2> QED BY <2>1, <2>2, <2>3, <2>4
          DEF TarjanInv, GoneByVisited, FramesLead, StackLeads, LowlinksReal, LowlinksLow, Whole
<1>3. CASE Report \/ UNCHANGED vars
  <2>1. resolved' = resolved /\ nodes' = nodes
    BY <1>3 DEF Report, vars, tarjan
  <2>2. /\ unresolved' = unresolved /\ \A x : adj(x)' = adj(x)
        /\ \A S : Whole(S)' <=> Whole(S)
        /\ \A x, y : Leads(x, y)' <=> Leads(x, y)
        /\ \A C : (IsComponent(C)' <=> IsComponent(C)) /\ (IsCycle(C)' <=> IsCycle(C))
    BY <1>1, <2>1, LeadsStay
  <2>3. RootsRemain'
    <3>1. pc # "passes" \/ pc' = "passes"
      BY <1>3 DEF Report, vars
    <3> QED BY <1>1, <2>1, <2>2, <3>1 DEF TarjanInv, RootsRemain
  <2>4. \A x, y : GoneBy(x, y)' <=> GoneBy(x, y)
    BY <1>1, <2>2 DEF GoneBy
  <2>5. GoneByVisited' /\ FramesLead' /\ StackLeads' /\ LowlinksReal'
    BY <1>1, <2>2, <2>4 DEF TarjanInv, GoneByVisited, FramesLead, StackLeads, LowlinksReal
  <2>6. LowlinksLow'
    BY <1>1, <2>4 DEF TarjanInv, LowlinksLow, IsOwner
  <2>7. Found' = Found /\ (Whole(Found)' <=> Whole(Found))
    BY <1>1, <2>2 DEF Found, Whole
  <2>8. Reported'
    <3>1. CASE Report
      BY <1>1, <2>1, <2>2, <3>1 DEF Report, Reported
    <3>2. CASE UNCHANGED vars
      BY <1>1, <2>1, <2>2, <3>2 DEF TarjanInv, Reported, vars
    <3> QED BY <1>3, <3>1, <3>2
  <2> QED BY <1>1, <2>2, <2>3, <2>5, <2>6, <2>7, <2>8 DEF TarjanInv
<1> QED BY <1>2, <1>3

LEMMA ExploreStep == SearchInv /\ TarjanInv /\ [Next]_vars => TarjanInv'
BY RootsExplore, DescendExplores, SeeVisitedExplores, CloseNodeExplores, BoundsExplore DEF Next

-----------------------------------------------------------------------------
(* From components to cycles.                                                 *)

LEMMA DependsTells ==
    /\ \A m, n \in unresolved : <<m, n>> \in DependsOn => Leads(m, n)
    /\ \A m, n \in unresolved : Leads(m, n) /\ m # n => <<m, n>> \in DependsOn
    /\ \A m, x, n \in unresolved : <<m, x>> \in DependsOn /\ Leads(x, n) => <<m, n>> \in DependsOn
    /\ \A m \in unresolved : <<m, m>> \in DependsOn <=>
          m \in Mentioned(m) \/ \E x \in unresolved : x # m /\ Leads(m, x) /\ Leads(x, m)
<1>1. ASSUME NEW m \in unresolved, NEW n \in unresolved, <<m, n>> \in DependsOn PROVE Leads(m, n)
  BY <1>1, DependsIs, LeadsFacts
<1>2. ASSUME NEW m \in unresolved, NEW n \in unresolved, Leads(m, n), m # n PROVE <<m, n>> \in DependsOn
  <2> DEFINE S == {y \in unresolved : y = m \/ \E x \in Mentioned(m) : Leads(x, y)}
  <2>1. S \in SUBSET unresolved /\ m \in S
    OBVIOUS
  <2>2. Whole(S)
    <3> SUFFICES ASSUME NEW y \in S, NEW z \in Mentioned(y) PROVE z \in S
      BY DEF Whole
    <3>1. z \in unresolved /\ Leads(z, z)
      BY LeadsFacts DEF Mentioned
    <3>2. CASE y = m
      BY <3>1, <3>2
    <3>3. CASE y # m
      <4>1. PICK x \in Mentioned(m) : Leads(x, y)
        BY <3>3
      <4>2. Leads(x, z)
        BY <4>1, LeadsFacts
      <4> QED BY <3>1, <4>2
    <3> QED BY <3>2, <3>3
  <2>3. n \in S
    <3> HIDE DEF S
    <3> QED BY <1>2, <2>1, <2>2, LeadsFacts
  <2> QED BY <1>2, <2>3, DependsIs
<1>3. ASSUME NEW m \in unresolved, NEW x \in unresolved, NEW n \in unresolved, <<m, x>> \in DependsOn, Leads(x, n)
      PROVE  <<m, n>> \in DependsOn
  <2>1. PICK y \in Mentioned(m) : Leads(y, x)
    BY <1>3, DependsIs
  <2>2. Leads(y, n)
    BY <1>3, <2>1, LeadsFacts
  <2> QED BY <2>2, DependsIs
<1>4. ASSUME NEW m \in unresolved
      PROVE  <<m, m>> \in DependsOn <=>
                m \in Mentioned(m) \/ \E x \in unresolved : x # m /\ Leads(m, x) /\ Leads(x, m)
  <2>1. ASSUME <<m, m>> \in DependsOn, m \notin Mentioned(m)
        PROVE  \E x \in unresolved : x # m /\ Leads(m, x) /\ Leads(x, m)
    <3>1. PICK x \in Mentioned(m) : Leads(x, m)
      BY <2>1, DependsIs
    <3>2. x \in unresolved /\ x # m /\ Leads(m, x)
      BY <2>1, LeadsFacts DEF Mentioned
    <3> QED BY <3>1, <3>2
  <2>2. ASSUME m \in Mentioned(m) PROVE <<m, m>> \in DependsOn
    BY <2>2, LeadsFacts, DependsIs
  <2>3. ASSUME NEW x \in unresolved, x # m, Leads(m, x), Leads(x, m) PROVE <<m, m>> \in DependsOn
    BY <1>2, <1>3, <2>3
  <2> QED BY <2>1, <2>2, <2>3
<1> QED BY <1>1, <1>2, <1>3, <1>4

MutualSet(S) == S # {} /\ S \X S \subseteq DependsOn

(* A component is a cycle if its members depend on one another.               *)
LEMMA CycleIsMutual ==
    ASSUME NEW C, IsComponent(C), IsFiniteSet(C)
    PROVE  IsCycle(C) <=> MutualSet(C)
<1>1. /\ C # {} /\ C \subseteq unresolved /\ \A x, y \in C : Leads(x, y)
      /\ \A x \in C, y \in unresolved : Leads(x, y) /\ Leads(y, x) => y \in C
  BY DEF IsComponent
<1>2. /\ Cardinality(C) \in Nat /\ Cardinality(C) # 0
      /\ Cardinality(C) = 1 <=> \E x : C = {x}
  BY <1>1, FS_CardinalityType, FS_EmptySet, FS_Singleton
<1>3. \A x \in unresolved : x \in selfLoop <=> x \in Mentioned(x)
  BY DEF selfLoop, Mentioned
<1>4. Cardinality(C) >= 2 <=> ~ \E x : C = {x}
  BY <1>2
<1>5. ASSUME IsCycle(C) PROVE MutualSet(C)
  <2> SUFFICES ASSUME NEW x \in C, NEW y \in C PROVE <<x, y>> \in DependsOn
    BY <1>1 DEF MutualSet
  <2>0. x \in unresolved /\ y \in unresolved /\ Leads(x, y)
    BY <1>1
  <2>1. CASE x # y
    BY <2>0, <2>1, DependsTells
  <2>2. CASE x = y /\ C \subseteq selfLoop
    BY <1>3, <2>0, <2>2, DependsTells
  <2>3. CASE x = y /\ Cardinality(C) >= 2
    <3>1. PICK z \in C : z # x
      BY <1>4, <2>3
    <3>2. z \in unresolved /\ Leads(x, z) /\ Leads(z, x)
      BY <1>1
    <3> QED BY <2>0, <2>3, <3>1, <3>2, DependsTells
  <2> QED BY <1>5, <2>1, <2>2, <2>3 DEF IsCycle
<1>6. ASSUME MutualSet(C) PROVE IsCycle(C)
  <2> SUFFICES ASSUME NEW x, C = {x} PROVE x \in selfLoop
    BY <1>4 DEF IsCycle
  <2>1. x \in unresolved /\ <<x, x>> \in DependsOn
    BY <1>1, <1>6 DEF MutualSet
  <2>2. ~ \E y \in unresolved : y # x /\ Leads(x, y) /\ Leads(y, x)
    BY <1>1
  <2> QED BY <1>3, <2>1, <2>2, DependsTells
<1> QED BY <1>5, <1>6

(* One member that depends on itself, and so do all.                          *)
LEMMA DependentIsMutual ==
    ASSUME NEW C, IsComponent(C), NEW x \in C, <<x, x>> \in DependsOn
    PROVE  MutualSet(C)
<1> SUFFICES ASSUME NEW y \in C, NEW z \in C PROVE <<y, z>> \in DependsOn
  BY DEF MutualSet
<1>1. /\ C \subseteq unresolved /\ \A m, n \in C : Leads(m, n)
      /\ x \in unresolved /\ y \in unresolved /\ z \in unresolved
  BY DEF IsComponent
<1>2. Leads(x, z) /\ Leads(y, x)
  BY <1>1
<1>3. <<x, z>> \in DependsOn
  BY <1>1, <1>2, DependsTells
<1>4. CASE y = x
  BY <1>3, <1>4
<1>5. CASE y # x
  BY <1>1, <1>2, <1>5, DependsTells
<1> QED BY <1>4, <1>5

(* In the end every unresolved local is in a component.                       *)
LEMMA AllFound ==
    ASSUME SearchInv, TarjanInv, pc = "done"
    PROVE  /\ Found = unresolved /\ IsFiniteSet(unresolved)
           /\ diags = {C \in ToSet(sccs) : IsCycle(C)}
           /\ \A C \in ToSet(sccs) :
                 IsComponent(C) /\ (IsCycle(C) <=> MutualSet(C)) /\ C \in SUBSET unresolved
<1>1. dfs = <<>> /\ nodes = <<>> /\ diags = {C \in ToSet(sccs) : IsCycle(C)}
  BY DEF TarjanInv, Reported
<1>2. Found = unresolved
  <2>1. stack = <<>>
    BY <1>1 DEF SearchInv, FramesFit
  <2>2. ToSet(stack) = {} /\ ToSet(nodes) = {}
    BY <1>1, <2>1 DEF ToSet
  <2>3. unresolved \subseteq DOMAIN indices
    BY <2>2 DEF TarjanInv, RootsRemain
  <2>4. Found \subseteq DOMAIN indices /\ DOMAIN indices \subseteq unresolved
    BY DEF SearchInv, StackFits, NumbersFit, Found
  <2>5. ToSet(stack) = DOMAIN indices \ Found
    BY SearchFacts
  <2> QED BY <2>2, <2>3, <2>4, <2>5
<1>3. IsFiniteSet(unresolved)
  <2>1. unresolved \in SUBSET Local
    BY ModulesAssumption DEF SearchInv, unresolved, Declared, IsModule
  <2> QED BY <2>1, LocalAssumption, FS_Subset
<1>4. ASSUME NEW C \in ToSet(sccs) PROVE IsComponent(C) /\ (IsCycle(C) <=> MutualSet(C)) /\ C \in SUBSET unresolved
  <2>1. IsComponent(C) /\ C \in SUBSET unresolved
    BY DEF TarjanInv, IsComponent
  <2>2. IsFiniteSet(C)
    BY <1>3, <2>1, FS_Subset
  <2> QED BY <2>1, <2>2, CycleIsMutual
<1> QED BY <1>1, <1>2, <1>3, <1>4

LEMMA SearchIsExact == ASSUME SearchInv, TarjanInv PROVE CyclesExact
<1> SUFFICES ASSUME pc = "done"
             PROVE  diags = {S \in SUBSET unresolved :
                               MutualSet(S) /\ \A n \in unresolved \ S : ~MutualSet(S \union {n})}
  BY DEF CyclesExact, MutualSet
<1>1. diags = {C \in ToSet(sccs) : IsCycle(C)} /\ Found = unresolved
  BY AllFound
<1>2. ASSUME NEW C \in ToSet(sccs) PROVE IsComponent(C) /\ (IsCycle(C) <=> MutualSet(C)) /\ C \in SUBSET unresolved
  BY AllFound
(* Locals that depend on one another lie in one component.                    *)
<1>3. ASSUME NEW S \in SUBSET unresolved, MutualSet(S), NEW C \in ToSet(sccs), NEW x \in S, x \in C
      PROVE  S \subseteq C
  <2> SUFFICES ASSUME NEW y \in S PROVE y \in C
    OBVIOUS
  <2>1. <<x, y>> \in DependsOn /\ <<y, x>> \in DependsOn
    BY <1>3 DEF MutualSet
  <2>2. Leads(x, y) /\ Leads(y, x)
    BY <2>1, DependsTells
  <2> QED BY <1>2, <1>3, <2>2 DEF IsComponent
<1>4. ASSUME NEW C \in diags
      PROVE  C \in SUBSET unresolved /\ MutualSet(C) /\ \A n \in unresolved \ C : ~MutualSet(C \union {n})
  <2>1. C \in ToSet(sccs) /\ MutualSet(C) /\ C \in SUBSET unresolved
    BY <1>1, <1>2, <1>4
  <2>2. ASSUME NEW n \in unresolved \ C PROVE ~MutualSet(C \union {n})
    <3>1. PICK x \in C : TRUE
      BY <2>1 DEF MutualSet
    <3>2. C \union {n} \in SUBSET unresolved /\ x \in C \union {n}
      BY <2>1
    <3> QED BY <1>3, <2>1, <2>2, <3>2
  <2> QED BY <2>1, <2>2
<1>5. ASSUME NEW S \in SUBSET unresolved, MutualSet(S), \A n \in unresolved \ S : ~MutualSet(S \union {n})
      PROVE  S \in diags
  <2>1. PICK x \in S : TRUE
    BY <1>5 DEF MutualSet
  <2>2. PICK C \in ToSet(sccs) : x \in C
    BY <1>1, <2>1 DEF Found
  <2>3. S \subseteq C /\ IsComponent(C) /\ C \subseteq unresolved
    BY <1>2, <1>3, <1>5, <2>1, <2>2
  <2>4. <<x, x>> \in DependsOn
    BY <1>5, <2>1 DEF MutualSet
  <2>5. MutualSet(C)
    BY <2>2, <2>3, <2>4, DependentIsMutual
  <2>6. S = C
    <3> SUFFICES ASSUME NEW n \in C, n \notin S PROVE FALSE
      BY <2>3
    <3>1. S \union {n} \subseteq C
      BY <2>3
    <3>2. MutualSet(S \union {n})
      BY <2>5, <3>1 DEF MutualSet
    <3> QED BY <1>5, <2>3, <3>2
  <2> QED BY <1>1, <1>2, <2>2, <2>5, <2>6
<1> QED BY <1>4, <1>5

(***************************************************************************)
(* For any module: the warnings are the dependency cycles among the locals *)
(* without a value, all of them and nothing else.                          *)
(***************************************************************************)
THEOREM CyclesAlwaysExact == Spec => []CyclesExact
BY SearchStarts, SearchStep, ExploreStarts, ExploreStep, SearchIsExact, PTL DEF Spec

-----------------------------------------------------------------------------
(* Why a local stays without a value.                                         *)

(* In a set of locals each of which mentions another, or itself, one depends  *)
(* on itself: one from which as little as possible can be reached.            *)
LEMMA NoEndIsCycle ==
    ASSUME IsFiniteSet(unresolved), NEW R \in SUBSET unresolved, R # {},
           \A m \in R : \E k \in R : k \in Mentioned(m)
    PROVE  \E k \in R : <<k, k>> \in DependsOn
<1> DEFINE D(m) == {y \in unresolved : <<m, y>> \in DependsOn}
           G == {Cardinality(D(m)) : m \in R}
<1>1. \A m : IsFiniteSet(D(m)) /\ Cardinality(D(m)) \in Nat /\ Cardinality(D(m)) <= Cardinality(unresolved)
  <2> TAKE m
  <2>1. D(m) \in SUBSET unresolved
    OBVIOUS
  <2> HIDE DEF D
  <2> QED BY <2>1, FS_Subset, FS_CardinalityType
<1>2. Cardinality(unresolved) \in Nat
  BY FS_CardinalityType
<1>3. \A m, y : y \in D(m) <=> y \in unresolved /\ <<m, y>> \in DependsOn
  OBVIOUS
<1> HIDE DEF D
<1>4. G \in SUBSET Nat /\ G # {} /\ \A g \in G : g <= Cardinality(unresolved)
  BY <1>1
<1>5. IsFiniteSet(G)
  BY <1>2, <1>4, FS_BoundedSetOfNaturals
<1>6. PICK g \in G : \A h \in G : g <= h
  <2> HIDE DEF G
  <2> QED BY <1>4, <1>5, LeastKey
<1>7. PICK m \in R : g = Cardinality(D(m))
  OBVIOUS
<1>8. PICK k \in R : k \in Mentioned(m)
  OBVIOUS
<1>9. <<m, k>> \in DependsOn
  BY LeadsFacts, DependsIs, <1>8
<1>10. D(k) \in SUBSET D(m)
  <2> SUFFICES ASSUME NEW y \in D(k) PROVE y \in D(m)
    OBVIOUS
  <2>1. y \in unresolved /\ <<k, y>> \in DependsOn
    BY <1>3
  <2>2. Leads(k, y)
    BY <2>1, DependsTells
  <2>3. <<m, y>> \in DependsOn
    BY <1>9, <2>1, <2>2, DependsTells
  <2> QED BY <1>3, <2>1, <2>3
<1>11. Cardinality(D(m)) <= Cardinality(D(k))
  BY <1>6, <1>7
<1>12. Cardinality(D(k)) <= Cardinality(D(m))
  BY <1>1, <1>10, FS_Subset
<1>13. D(m) = D(k)
  BY <1>1, <1>10, <1>11, <1>12, FS_Subset
<1> QED BY <1>3, <1>9, <1>13

LEMMA CauseIsFound == ASSUME SearchInv, TarjanInv, PassesInv PROVE UnresolvedHasCause
<1> SUFFICES ASSUME pc = "done", NEW n \in unresolved,
                    ~ \E m \in unresolved : HasCause(m) /\ (m = n \/ <<n, m>> \in DependsOn)
             PROVE  FALSE
  BY DEF UnresolvedHasCause
<1> DEFINE R == {m \in unresolved : m = n \/ <<n, m>> \in DependsOn}
<1>1. ASSUME NEW m \in R PROVE \E k \in R : k \in Mentioned(m)
  <2>1. m \in unresolved /\ ~HasCause(m)
    OBVIOUS
  <2>2. m \in Declared /\ m \notin resolved /\ Closed(resolved)
    BY <2>1 DEF PassesInv, unresolved
  <2>3. ~(expr(m).needs \subseteq resolved)
    BY <2>1, <2>2 DEF HasCause, Closed
  <2>4. PICK k \in expr(m).needs : k \notin resolved
    BY <2>3
  <2>5. k \in unresolved
    BY <2>1, <2>4 DEF HasCause, unresolved
  <2>6. expr(m).needs \subseteq expr(m).mentions
    BY <2>2, ModulesAssumption DEF SearchInv, IsModule, expr, Declared
  <2>7. k \in Mentioned(m)
    BY <2>4, <2>5, <2>6 DEF Mentioned
  <2>8. Leads(m, k) /\ <<m, k>> \in DependsOn
    BY <2>1, <2>5, <2>7, LeadsFacts, DependsIs
  <2>9. <<n, k>> \in DependsOn
    BY <2>1, <2>5, <2>8, DependsTells
  <2> QED BY <2>5, <2>7, <2>9
<1>2. R \in SUBSET unresolved /\ R # {} /\ IsFiniteSet(unresolved)
  BY AllFound
<1>3. PICK k \in R : <<k, k>> \in DependsOn
  <2> HIDE DEF R
  <2> QED BY <1>1, <1>2, NoEndIsCycle
<1>4. PICK C \in ToSet(sccs) : k \in C
  BY AllFound DEF Found
<1>5. C \in diags
  BY <1>3, <1>4, AllFound, DependentIsMutual
<1>6. HasCause(k)
  BY <1>4, <1>5 DEF HasCause
<1> QED BY <1>6

(***************************************************************************)
(* For any module: from each local without a value a chain of such locals  *)
(* leads to one that is in a reported cycle, needs a variable without a    *)
(* value, or needs a local nobody declared.                                *)
(***************************************************************************)
THEOREM UnresolvedAlwaysHasCause == Spec => []UnresolvedHasCause
BY SearchStarts, SearchStep, ExploreStarts, ExploreStep, PassesStart, PassesStep, CauseIsFound, PTL DEF Spec
=============================================================================
