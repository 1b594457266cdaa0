------------------------ MODULE CycleDetectorProofs ------------------------
(***************************************************************************)
(* Proofs about CycleDetector, for every finite set of files.  The main    *)
(* result: whatever the graph and whatever order the sets are iterated in, *)
(* a cycle reported by find_circular_dependencies is a closed walk of real *)
(* include edges.  It rests on the inductive invariant IInv: the explicit  *)
(* call stack is an injective chain of edges whose nodes are exactly the   *)
(* recursion stack, so the neighbour found on rec_stack occurs once in the *)
(* path, and path[index:] + [neighbour] closes a walk.                     *)
(***************************************************************************)
EXTENDS CycleDetector, TLAPS

(* The slice of a chain from the (only) occurrence of n, with n appended,  *)
(* is a closed walk when n is a successor of the chain's last node.        *)
LEMMA CycleFromIsClosedWalk ==
    ASSUME NEW g \in [Node -> SUBSET Node],
           NEW s \in Seq(Node),
           NEW n \in Node,
           \A i \in 1..(Len(s) - 1) : s[i + 1] \in g[s[i]],
           \A i, j \in 1..Len(s) : i # j => s[i] # s[j],
           n \in Range(s),
           n \in g[s[Len(s)]]
    PROVE  IsClosedWalk(CycleFrom(s, n), g)
<1>1. PICK k \in 1..Len(s) : s[k] = n
  BY DEF Range
<1>2. IndexOf(s, n) = k
  <2>1. s[k] = n /\ \A j \in 1..(k - 1) : s[j] # n
    BY <1>1
  <2>2. \A m \in 1..Len(s) : (s[m] = n /\ \A j \in 1..(m - 1) : s[j] # n) => m = k
    BY <1>1
  <2>. QED  BY <2>1, <2>2 DEF IndexOf
<1>. DEFINE c == SubSeq(s, k, Len(s)) \o <<n>>
<1>3. CycleFrom(s, n) = c
  BY <1>2 DEF CycleFrom
<1>4. /\ c \in Seq(Node)
      /\ Len(c) = Len(s) - k + 2
      /\ \A i \in 1..(Len(s) - k + 1) : c[i] = s[k + i - 1]
      /\ c[Len(s) - k + 2] = n
  BY <1>1
<1>5. \A i \in 1..(Len(c) - 1) : c[i + 1] \in g[c[i]]
  <2>. SUFFICES ASSUME NEW i \in 1..(Len(c) - 1) PROVE c[i + 1] \in g[c[i]]
    OBVIOUS
  <2>0. i \in 1..(Len(s) - k + 1)
    BY <1>1, <1>4
  <2>1. CASE i < Len(s) - k + 1
    <3>1. k + i - 1 \in 1..(Len(s) - 1)
      BY <1>1, <2>0, <2>1
    <3>2. c[i] = s[k + i - 1] /\ c[i + 1] = s[(k + i - 1) + 1]
      BY <1>1, <1>4, <2>0, <2>1
    <3>. QED  BY <3>1, <3>2
  <2>2. CASE i = Len(s) - k + 1
    <3>1. c[i] = s[Len(s)] /\ c[i + 1] = n
      BY <1>1, <1>4, <2>2
    <3>. QED  BY <3>1
  <2>. QED  BY <2>0, <2>1, <2>2
<1>6. Len(c) >= 2 /\ c[1] = n /\ c[Len(c)] = n
  <2>1. 1 \in 1..(Len(s) - k + 1)
    BY <1>1
  <2>. QED  BY <1>1, <1>4, <2>1
<1>. QED  BY <1>3, <1>4, <1>5, <1>6 DEF IsClosedWalk

-----------------------------------------------------------------------------
LEMMA InitIInv == Init => IInv
<1>. SUFFICES ASSUME Init PROVE IInv
  OBVIOUS
<1>1. TypeOK
  <2>1. roots \subseteq Node
    BY DEF Init, Keys
  <2>2. path \in Seq(Node) /\ todo \in Seq(SUBSET Node) /\ Len(todo) = Len(path)
    BY DEF Init
  <2>3. cycle \in Seq(Node) \cup {None} /\ done \in BOOLEAN
    BY DEF Init
  <2>. QED  BY <2>1, <2>2, <2>3 DEF Init, TypeOK
<1>2. recStack = Range(path)
  BY DEF Init, Range
<1>3. PathIsChain /\ PathInjective /\ FramesAreSuccessors /\ CycleIsReal
  BY DEF Init, PathIsChain, PathInjective, FramesAreSuccessors, CycleIsReal
<1>. QED  BY <1>1, <1>2, <1>3 DEF IInv, Init

LEMMA NextIInv == IInv /\ [Next]_vars => IInv'
<1>. SUFFICES ASSUME IInv, [Next]_vars PROVE IInv'
  OBVIOUS
<1>. USE DEF IInv, TypeOK, Graph
<1>0. ASSUME UNCHANGED <<dependencies, visited, recStack, path, todo, cycle>>,
             roots' \subseteq Node, done' \in BOOLEAN
      PROVE  IInv'
  <2>1. TypeOK'
    BY <1>0
  <2>2. PathIsChain' /\ PathInjective' /\ FramesAreSuccessors'
    BY <1>0 DEF PathIsChain, PathInjective, FramesAreSuccessors
  <2>3. recStack' = Range(path') /\ recStack' \subseteq visited'
    BY <1>0 DEF Range
  <2>4. CycleIsReal'
    BY <1>0 DEF CycleIsReal, IsClosedWalk
  <2>. QED  BY <2>1, <2>2, <2>3, <2>4
<1>1. CASE StartRoot
  <2>. PICK r \in roots \ visited :
          /\ roots' = roots \ {r}
          /\ visited' = visited \cup {r}
          /\ recStack' = {r}
          /\ path' = <<r>>
          /\ todo' = <<dependencies[r]>>
    BY <1>1 DEF StartRoot
  <2>1. UNCHANGED <<dependencies, cycle, done>>
    BY <1>1 DEF StartRoot
  <2>2. TypeOK'
    BY <2>1
  <2>3. PathIsChain' /\ PathInjective'
    BY DEF PathIsChain, PathInjective
  <2>4. recStack' = Range(path') /\ recStack' \subseteq visited'
    BY DEF Range
  <2>5. FramesAreSuccessors'
    BY <2>1 DEF FramesAreSuccessors
  <2>6. CycleIsReal'
    BY <2>1 DEF CycleIsReal
  <2>. QED  BY <2>2, <2>3, <2>4, <2>5, <2>6
<1>2. CASE SkipRoot
  <2>1. UNCHANGED <<dependencies, visited, recStack, path, todo, cycle, done>>
        /\ roots' \subseteq Node
    BY <1>2 DEF SkipRoot
  <2>. QED  BY <2>1, <1>0
<1>3. CASE Descend
  <2>. PICK nb \in todo[Len(todo)] :
          /\ nb \notin visited
          /\ visited' = visited \cup {nb}
          /\ recStack' = recStack \cup {nb}
          /\ path' = Append(path, nb)
          /\ todo' = Append([todo EXCEPT ![Len(todo)] = @ \ {nb}],
                            dependencies[nb])
    BY <1>3 DEF Descend
  <2>1. path # <<>> /\ UNCHANGED <<dependencies, roots, cycle, done>>
    BY <1>3 DEF Descend
  <2>2. nb \in dependencies[path[Len(path)]] /\ nb \notin Range(path)
    BY <2>1 DEF FramesAreSuccessors
  <2>3. TypeOK'
    BY <2>1, <2>2
  <2>4. PathIsChain'
    BY <2>1, <2>2 DEF PathIsChain
  <2>5. PathInjective'
    BY <2>1, <2>2 DEF PathInjective, Range
  <2>6. recStack' = Range(path')
    <3>1. path \in Seq(Node) /\ recStack = Range(path)
      BY DEF IInv, TypeOK
    <3>2. Range(Append(path, nb)) = Range(path) \cup {nb}
      BY <3>1 DEF Range
    <3>. QED
      BY <3>1, <3>2
  <2>7. FramesAreSuccessors'
    BY <2>1, <2>2 DEF FramesAreSuccessors
  <2>8. CycleIsReal'
    BY <2>1 DEF CycleIsReal, IsClosedWalk
  <2>. QED  BY <2>3, <2>4, <2>5, <2>6, <2>7, <2>8
<1>4. CASE FoundCycle
  <2>. PICK nb \in todo[Len(todo)] :
          nb \in visited /\ nb \in recStack /\ cycle' = CycleFrom(path, nb)
    BY <1>4 DEF FoundCycle
  <2>1. path # <<>> /\ done' = TRUE
        /\ UNCHANGED <<dependencies, roots, visited, recStack, path, todo>>
    BY <1>4 DEF FoundCycle
  <2>2. nb \in dependencies[path[Len(path)]] /\ nb \in Range(path) /\ nb \in Node
    BY <2>1 DEF FramesAreSuccessors
  <2>3. IsClosedWalk(cycle', dependencies')
    BY <2>1, <2>2, CycleFromIsClosedWalk DEF PathIsChain, PathInjective
  <2>4. cycle' \in Seq(Node) \cup {None}
    BY <2>3 DEF IsClosedWalk
  <2>. QED  BY <2>1, <2>3, <2>4
            DEF PathIsChain, PathInjective, FramesAreSuccessors, CycleIsReal
<1>5. CASE SkipVisited
  BY <1>5 DEF SkipVisited, PathIsChain, PathInjective, Range,
             FramesAreSuccessors, CycleIsReal
<1>6. CASE Return
  <2>1. /\ path # <<>> /\ todo[Len(todo)] = {}
        /\ recStack' = recStack \ {path[Len(path)]}
        /\ path' = SubSeq(path, 1, Len(path) - 1)
        /\ todo' = SubSeq(todo, 1, Len(todo) - 1)
        /\ UNCHANGED <<dependencies, roots, visited, cycle, done>>
    BY <1>6 DEF Return
  <2>2. TypeOK'
    BY <2>1
  <2>3. PathIsChain'
    BY <2>1 DEF PathIsChain
  <2>4. PathInjective'
    BY <2>1 DEF PathInjective
  <2>5. recStack' = Range(path')
    <3>1. /\ DOMAIN path' = 1..(Len(path) - 1)
          /\ \A i \in 1..(Len(path) - 1) : path'[i] = path[i]
      BY <2>1
    <3>2. Range(path') = {path[i] : i \in 1..(Len(path) - 1)}
      BY <3>1 DEF Range
    <3>3. \A i \in 1..(Len(path) - 1) : path[i] # path[Len(path)]
      BY <2>1 DEF PathInjective
    <3>4. Range(path) = {path[i] : i \in 1..(Len(path) - 1)} \cup {path[Len(path)]}
      <4>1. DOMAIN path = 1..(Len(path) - 1) \cup {Len(path)}
        BY <2>1
      <4>. QED  BY <4>1 DEF Range
    <3>. QED  BY <2>1, <3>2, <3>3, <3>4
  <2>6. FramesAreSuccessors'
    BY <2>1 DEF FramesAreSuccessors
  <2>7. CycleIsReal'
    BY <2>1 DEF CycleIsReal, IsClosedWalk
  <2>. QED  BY <2>1, <2>2, <2>3, <2>4, <2>5, <2>6, <2>7
<1>7. CASE Finish
  <2>1. UNCHANGED <<dependencies, visited, recStack, path, todo, cycle, roots>>
        /\ done' = TRUE
    BY <1>7 DEF Finish
  <2>. QED  BY <2>1, <1>0
<1>8. CASE Returned \/ UNCHANGED vars
  <2>1. UNCHANGED <<dependencies, visited, recStack, path, todo, cycle, roots, done>>
    BY <1>8 DEF Returned, vars
  <2>. QED  BY <2>1, <1>0
<1>. QED  BY <1>1, <1>2, <1>3, <1>4, <1>5, <1>6, <1>7, <1>8 DEF Next

-----------------------------------------------------------------------------
(* The detector's state keeps its types in every run.                      *)
THEOREM TypeCorrect == Spec => []TypeOK
<1>1. IInv => TypeOK
  BY DEF IInv
<1>. QED  BY <1>1, InitIInv, NextIInv, PTL DEF Spec

(* Every cycle find_circular_dependencies reports (line 209 prints it) is  *)
(* a closed walk of include edges, for every graph of any size.            *)
THEOREM CycleReportIsReal == Spec => []CycleIsReal
<1>1. IInv => CycleIsReal
  BY DEF IInv
<1>. QED  BY <1>1, InitIInv, NextIInv, PTL DEF Spec

=============================================================================
