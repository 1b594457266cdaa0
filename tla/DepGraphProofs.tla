-------------------------- MODULE DepGraphProofs ---------------------------
(***************************************************************************)
(* Proofs about DepGraph, for every set of files, names, include           *)
(* directories and file contents.  The main result: whatever order os.walk *)
(* yields the files in and whatever they include, build_dependency_graph   *)
(* keeps self.reverse_deps the exact transpose of self.dependencies, never *)
(* adds a self-edge, and gives outgoing edges only to the discovered .c    *)
(* and .S files.  It rests on the inductive invariant IInv: no edge exists *)
(* while self.files can still change, and every entry the build loop has   *)
(* yet to reach names a stored path.                                       *)
(***************************************************************************)
EXTENDS DepGraph, WellFoundedInduction, TLAPS

(* A nonempty set of natural numbers has a least element; this is what     *)
(* makes "the first include directory holding the target" well defined.   *)
LEMMA LeastElement ==
    ASSUME NEW S \in SUBSET Nat, S # {}
    PROVE  \E k \in S : \A j \in S : k <= j
<1>1. \E x \in S : \A y \in S : ~(<<y, x>> \in OpToRel(<, Nat))
  BY NatLessThanWellFounded, WFMin
<1>2. PICK x \in S : \A y \in S : ~(<<y, x>> \in OpToRel(<, Nat))
  BY <1>1
<1>3. \A y \in S : y < x => <<y, x>> \in OpToRel(<, Nat)
  BY Zenon DEF OpToRel
<1>4. \A y \in S : ~(y < x)
  BY <1>2, <1>3, Zenon
<1>5. \A y \in S : x <= y
  BY <1>4
<1>. QED  BY <1>5

(* The loop of lines 70-73 returns a file or falls through to None.        *)
LEMMA InIncludeDirsType ==
    ASSUME NEW i \in Name
    PROVE  InIncludeDirs(i) \in Node \cup {NoPath}
<1>. DEFINE hits == {k \in 1..Len(IncludeDirs) : InDir[IncludeDirs[k]][i] # NoPath}
<1>1. CASE hits = {}
  BY <1>1 DEF InIncludeDirs
<1>2. CASE hits # {}
  <2>1. \E k \in hits : \A j \in hits : k <= j
    <3>1. hits \in SUBSET Nat
      OBVIOUS
    <3>. QED  BY <1>2, <3>1, LeastElement
  <2>. DEFINE k == CHOOSE k \in hits : \A j \in hits : k <= j
  <2>2. k \in 1..Len(IncludeDirs)
    BY <2>1
  <2>3. IncludeDirs[k] \in DOMAIN InDir
    BY <2>2, DepGraphAssumption
  <2>4. InDir[IncludeDirs[k]][i] \in Node \cup {NoPath}
    BY <2>3, DepGraphAssumption
  <2>. QED  BY <1>2, <2>4 DEF InIncludeDirs
<1>. QED  BY <1>1, <1>2

(* resolve_include returns a file of the model or None.                    *)
LEMMA ResolvedTargetsType ==
    ASSUME TypeOK, NEW p \in Node
    PROVE  ResolvedTargets(p) \subseteq Node \ {p}
<1>. SUFFICES ASSUME NEW i \in text[p]
              PROVE  ResolveInclude(i) \in Node \cup {NoPath}
  BY DEF ResolvedTargets
<1>1. i \in Name /\ files[i] \in Node \cup {NoPath}
  BY DEF TypeOK
<1>2. InIncludeDirs(i) \in Node \cup {NoPath}
  BY <1>1, InIncludeDirsType
<1>. QED  BY <1>1, <1>2 DEF ResolveInclude

-----------------------------------------------------------------------------
LEMMA InitIInv == Init => IInv
<1>. SUFFICES ASSUME Init PROVE IInv
  OBVIOUS
<1>1. text \in [Node -> SUBSET Name]
  BY DEF Init
<1>2. files \in [Name -> Node \cup {NoPath}]
  BY DEF Init
<1>3. TypeOK
  BY <1>1, <1>2 DEF Init, TypeOK
<1>4. GraphWellFormed
  BY DEF Init, GraphWellFormed, Graph, Keys
<1>. QED  BY <1>3, <1>4 DEF Init, IInv

LEMMA NextIInv == IInv /\ [Next]_vars => IInv'
<1>. SUFFICES ASSUME IInv, [Next]_vars PROVE IInv'
  OBVIOUS
<1>. USE DepGraphAssumption DEF IInv, TypeOK
<1>1. CASE VisitFile
  <2>. PICK p \in toVisit :
          /\ toVisit' = toVisit \ {p}
          /\ files' = IF Discovered(p) THEN [files EXCEPT ![BaseName[p]] = p]
                                       ELSE files
    BY <1>1 DEF VisitFile
  <2>1. phase = "discover" /\ UNCHANGED <<text, toParse, dependencies, reverseDeps, phase>>
    BY <1>1 DEF VisitFile
  <2>2. files' \in [Name -> Node \cup {NoPath}]
    BY DEF Discovered
  <2>3. GraphWellFormed'
    BY <2>1 DEF GraphWellFormed, Graph, Keys
  <2>. QED  BY <2>1, <2>2, <2>3
<1>2. CASE StartBuild
  BY <1>2 DEF StartBuild, GraphWellFormed, DiscoveredPaths, Keys
<1>3. CASE SkipHeader
  BY <1>3 DEF SkipHeader, GraphWellFormed, DiscoveredPaths, Keys
<1>4. CASE ParseSource
  <2>. PICK i \in toParse :
          /\ Ext[files[i]] \in {"c", "S"}
          /\ toParse' = toParse \ {i}
          /\ dependencies' = [dependencies EXCEPT ![files[i]] = @ \cup ResolvedTargets(files[i])]
          /\ reverseDeps' = [q \in Node |-> IF q \in ResolvedTargets(files[i])
                                               THEN reverseDeps[q] \cup {files[i]}
                                               ELSE reverseDeps[q]]
    BY <1>4 DEF ParseSource
  <2>. DEFINE p == files[i]
  <2>1. phase = "build" /\ UNCHANGED <<text, toVisit, files, phase>>
    BY <1>4 DEF ParseSource
  <2>2. p \in Node /\ p \in DiscoveredPaths
    BY DEF DiscoveredPaths
  <2>3. ResolvedTargets(p) \subseteq Node \ {p}
    BY <2>2, ResolvedTargetsType
  <2>4. TypeOK'
    BY <2>1, <2>2, <2>3
  <2>5. \A m, q \in Node : q \in dependencies'[m] <=> m \in reverseDeps'[q]
    BY <2>2, <2>3 DEF GraphWellFormed
  <2>6. dependencies' \in Graph
    BY <2>2, <2>3 DEF GraphWellFormed, Graph
  <2>7. \A m \in Keys(dependencies') : m \in DiscoveredPaths' /\ Ext[m] \in {"c", "S"}
    BY <2>1, <2>2 DEF GraphWellFormed, Keys, DiscoveredPaths
  <2>8. \A j \in toParse' : files'[j] \in Node
    BY <2>1
  <2>. QED  BY <2>1, <2>4, <2>5, <2>6, <2>7, <2>8 DEF GraphWellFormed
<1>5. CASE EndBuild
  BY <1>5 DEF EndBuild, GraphWellFormed, DiscoveredPaths, Keys
<1>6. CASE Built \/ UNCHANGED vars
  BY <1>6 DEF Built, vars, GraphWellFormed, DiscoveredPaths, Keys
<1>. QED  BY <1>1, <1>2, <1>3, <1>4, <1>5, <1>6 DEF Next

-----------------------------------------------------------------------------
(* The builder's state keeps its types in every run.                       *)
THEOREM TypeCorrect == Spec => []TypeOK
<1>1. IInv => TypeOK
  BY DEF IInv
<1>. QED  BY <1>1, InitIInv, NextIInv, PTL DEF Spec

(* After every step of build_dependency_graph (lines 89-94 add the edges), *)
(* self.reverse_deps is the transpose of self.dependencies, no file        *)
(* depends on itself, and only discovered .c/.S files have edges out.      *)
THEOREM GraphIsWellFormed == Spec => []GraphWellFormed
<1>1. IInv => GraphWellFormed
  BY DEF IInv
<1>. QED  BY <1>1, InitIInv, NextIInv, PTL DEF Spec

=============================================================================
