--------------------------- MODULE IncludeGraph ----------------------------
(***************************************************************************)
(* The dependency graph DependencyAnalyzer builds (check_deps.py 18-19,    *)
(* 81-94) and the graph notions its algorithms are judged by.  A graph is  *)
(* the forward mapping self.dependencies, a function from each file path  *)
(* to the set of paths it includes.                                        *)
(***************************************************************************)
EXTENDS Naturals, Sequences, FiniteSets, Functions

CONSTANT Node       \* the file paths that can appear in the graph

ASSUME NodeFinite == IsFiniteSet(Node)

(* Graphs the builder can produce: no file includes itself, because        *)
(* build_dependency_graph adds an edge only when resolved != file_path.   *)
Graph == {g \in [Node -> SUBSET Node] : \A n \in Node : n \notin g[n]}

(* The keys of the defaultdict: a key is created when the first edge out   *)
(* of a file is added (line 93), so the keys are the files with an edge.   *)
Keys(g) == {n \in Node : g[n] # {}}

(* Files that some file includes.                                          *)
Targets(g) == UNION {g[n] : n \in Node}

(* A closed walk of g: at least one edge, every consecutive pair an edge,  *)
(* and the last node equal to the first.                                   *)
IsClosedWalk(s, g) ==
    /\ s \in Seq(Node)
    /\ Len(s) >= 2
    /\ s[1] = s[Len(s)]
    /\ \A i \in 1..(Len(s) - 1) : s[i + 1] \in g[s[i]]

(* Reach(g)[m][n]: n can be reached from m along one or more edges.  R[S]  *)
(* allows only inner nodes from S (Warshall's construction).               *)
Reach(g) ==
    LET R[S \in SUBSET Node] ==
          IF S = {} THEN [m \in Node |-> [n \in Node |-> n \in g[m]]]
          ELSE LET u == CHOOSE u \in S : TRUE
                   P == R[S \ {u}]
               IN  [m \in Node |-> [n \in Node |->
                        P[m][n] \/ (P[m][u] /\ P[u][n])]]
    IN  R[Node]

(* The nodes that lie on some cycle of g.                                  *)
OnCycle(g) == {n \in Node : Reach(g)[n][n]}

HasCycle(g) == OnCycle(g) # {}

=============================================================================
