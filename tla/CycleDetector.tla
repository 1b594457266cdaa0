--------------------------- MODULE CycleDetector ---------------------------
(***************************************************************************)
(* DependencyAnalyzer.find_circular_dependencies (check_deps.py 96-125).   *)
(*                                                                         *)
(* The code runs a recursive depth-first search over self.dependencies.    *)
(* The Python call stack is made explicit here: path[i] is the node of the *)
(* i-th active dfs() call and todo[i] the neighbours its for loop has not  *)
(* yet reached.  One step is one iteration of one loop.  Neighbours are    *)
(* taken in any order: they come from iterating a set of path strings,     *)
(* whose order changes from run to run with Python's hash seed.            *)
(*                                                                         *)
(* The graph is the one build_dependency_graph leaves behind: a function   *)
(* from node to its set of successors, without self-loops.  Its keys, the  *)
(* roots the outer loop iterates, are the nodes with an outgoing edge,     *)
(* since the builder only creates a key when it adds an edge.              *)
(***************************************************************************)
EXTENDS IncludeGraph

CONSTANT None   \* the value None that the detector returns when acyclic

ASSUME NoneAssumption == None \notin Seq(Node)

VARIABLES
    dependencies,   \* self.dependencies: node -> set of nodes it includes
    roots,          \* nodes of list(self.dependencies.keys()) not yet tried
    visited,        \* the visited set shared by all dfs() calls
    recStack,       \* rec_stack of the current outer iteration
    path,           \* the path list of the current outer iteration
    todo,           \* todo[i]: neighbours the i-th dfs() frame has yet to see
    cycle,          \* the value returned so far (None until a cycle is found)
    done            \* find_circular_dependencies has returned

vars == <<dependencies, roots, visited, recStack, path, todo, cycle, done>>

-----------------------------------------------------------------------------
(* path.index(neighbor): the first position of n in the path (line 110).  *)
IndexOf(s, n) ==
    CHOOSE i \in 1..Len(s) : s[i] = n /\ \A j \in 1..(i - 1) : s[j] # n

(* Mutant: the slice is returned without the neighbour appended, so the   *)
(* reported path is not closed.                                            *)
CycleFromUnclosed(s, n) == SubSeq(s, IndexOf(s, n), Len(s))

(* path[cycle_start:] + [neighbor] (lines 110-111).                        *)
CycleFrom(s, n) == SubSeq(s, IndexOf(s, n), Len(s)) \o <<n>>

Init ==
    /\ dependencies \in Graph
    /\ roots = Keys(dependencies)
    /\ visited = {}
    /\ recStack = {}
    /\ path = <<>>
    /\ todo = <<>>
    /\ cycle = None
    /\ done = FALSE

(* Lines 120-122 and 99-101: the outer loop takes an unvisited key r and   *)
(* calls dfs(r, [], visited, set()), which marks r visited, puts it on the *)
(* fresh recursion stack and path, and starts its loop over r's neighbours.*)
StartRoot ==
    /\ ~done
    /\ path = <<>>
    /\ \E r \in roots \ visited :
        /\ roots' = roots \ {r}
        /\ visited' = visited \cup {r}
        /\ recStack' = {r}
        /\ path' = <<r>>
        /\ todo' = <<dependencies[r]>>
    /\ UNCHANGED <<dependencies, cycle, done>>

(* Line 121: a key already visited by an earlier dfs() is passed over.     *)
SkipRoot ==
    /\ ~done
    /\ path = <<>>
    /\ \E r \in roots \cap visited : roots' = roots \ {r}
    /\ UNCHANGED <<dependencies, visited, recStack, path, todo, cycle, done>>

(* Mutant: a recursive call marks its node visited but never puts it on   *)
(* the recursion stack, as if rec_stack.add(node) ran for the root only.   *)
DescendNoRecStack ==
    /\ ~done
    /\ path # <<>>
    /\ \E nb \in todo[Len(todo)] :
        /\ nb \notin visited
        /\ visited' = visited \cup {nb}
        /\ path' = Append(path, nb)
        /\ todo' = Append([todo EXCEPT ![Len(todo)] = @ \ {nb}],
                          dependencies[nb])
    /\ UNCHANGED <<dependencies, roots, recStack, cycle, done>>

(* Lines 103-105 and 99-101: the top frame's loop reaches an unvisited     *)
(* neighbour and recurses into dfs(neighbor, path, visited, rec_stack).    *)
Descend ==
    /\ ~done
    /\ path # <<>>
    /\ \E nb \in todo[Len(todo)] :
        /\ nb \notin visited
        /\ visited' = visited \cup {nb}
        /\ recStack' = recStack \cup {nb}
        /\ path' = Append(path, nb)
        /\ todo' = Append([todo EXCEPT ![Len(todo)] = @ \ {nb}],
                          dependencies[nb])
    /\ UNCHANGED <<dependencies, roots, cycle, done>>

(* Lines 108-111: the neighbour is on the recursion stack.  The cycle is   *)
(* built from the path and returned through every active frame (lines    *)
(* 106-107) and by the outer loop (lines 123-124).                         *)
FoundCycle ==
    /\ ~done
    /\ path # <<>>
    /\ \E nb \in todo[Len(todo)] :
        /\ nb \in visited
        /\ nb \in recStack
        /\ cycle' = CycleFrom(path, nb)
    /\ done' = TRUE
    /\ UNCHANGED <<dependencies, roots, visited, recStack, path, todo>>

(* Mutant: the for loop of line 103 does not advance past a neighbour     *)
(* it passes over.                                                         *)
SkipVisitedStay ==
    /\ ~done
    /\ path # <<>>
    /\ \E nb \in todo[Len(todo)] :
        /\ nb \in visited
        /\ nb \notin recStack
        /\ todo' = todo
    /\ UNCHANGED <<dependencies, roots, visited, recStack, path, cycle, done>>

(* Lines 104 and 108 both false: a neighbour visited by an earlier call    *)
(* and no longer on the stack is passed over.                              *)
SkipVisited ==
    /\ ~done
    /\ path # <<>>
    /\ \E nb \in todo[Len(todo)] :
        /\ nb \in visited
        /\ nb \notin recStack
        /\ todo' = [todo EXCEPT ![Len(todo)] = @ \ {nb}]
    /\ UNCHANGED <<dependencies, roots, visited, recStack, path, cycle, done>>

(* Mutant: the frame's node is popped off the path but its loop state is  *)
(* kept, as if the caller resumed the callee's loop.                       *)
ReturnKeepFrame ==
    /\ ~done
    /\ path # <<>>
    /\ todo[Len(todo)] = {}
    /\ recStack' = recStack \ {path[Len(path)]}
    /\ path' = SubSeq(path, 1, Len(path) - 1)
    /\ UNCHANGED <<dependencies, roots, visited, todo, cycle, done>>

(* Lines 113-115: the loop is exhausted; dfs() pops its node off the path  *)
(* and the recursion stack and returns None to its caller.                 *)
Return ==
    /\ ~done
    /\ path # <<>>
    /\ todo[Len(todo)] = {}
    /\ recStack' = recStack \ {path[Len(path)]}
    /\ path' = SubSeq(path, 1, Len(path) - 1)
    /\ todo' = SubSeq(todo, 1, Len(todo) - 1)
    /\ UNCHANGED <<dependencies, roots, visited, cycle, done>>

(* Line 125: every key has been tried without finding a cycle.            *)
Finish ==
    /\ ~done
    /\ path = <<>>
    /\ roots = {}
    /\ done' = TRUE
    /\ UNCHANGED <<dependencies, roots, visited, recStack, path, todo, cycle>>

(* The function has returned; nothing further happens.                     *)
Returned == done /\ UNCHANGED vars

Next ==
    \/ StartRoot
    \/ SkipRoot
    \/ Descend
    \/ FoundCycle
    \/ SkipVisited
    \/ Return
    \/ Finish
    \/ Returned

Spec == Init /\ [][Next]_vars

(* find_circular_dependencies runs in one thread and every step is a       *)
(* Python statement that cannot block, so a step is taken whenever one is  *)
(* possible.                                                               *)
FairSpec == Spec /\ WF_vars(Next)

-----------------------------------------------------------------------------
(***************************************************************************)
(* Properties.                                                             *)
(***************************************************************************)

TypeOK ==
    /\ dependencies \in Graph
    /\ roots \subseteq Node
    /\ visited \subseteq Node
    /\ recStack \subseteq Node
    /\ path \in Seq(Node)
    /\ todo \in Seq(SUBSET Node)
    /\ Len(todo) = Len(path)
    /\ cycle \in Seq(Node) \cup {None}
    /\ done \in BOOLEAN

(* What --check-cycles prints as "Circular dependency found: a -> b -> a"  *)
(* (line 209) is a real circular include: a closed walk of dependency     *)
(* edges that starts and ends at the same file.                            *)
CycleIsReal == cycle # None => IsClosedWalk(cycle, dependencies)

(* When find_circular_dependencies returns, it returns None exactly when   *)
(* the dependency graph has no cycle: the search from the keys alone, with *)
(* a visited set shared between roots, misses no cycle (spec section 8).  *)
DetectsIffCyclic == done => (cycle = None <=> ~HasCycle(dependencies))

(* find_circular_dependencies returns on every graph: the visited set     *)
(* shared by all dfs() calls keeps any node from being entered twice and   *)
(* every frame's loop passes each neighbour once, so the search cannot go  *)
(* on forever, cycles or not.                                              *)
Termination == <>done

-----------------------------------------------------------------------------
(* The inductive invariant behind CycleIsReal.  The explicit call stack is *)
(* a chain of edges without repetition, the recursion stack is exactly the *)
(* set of its nodes (so path.index finds every node of rec_stack), all of  *)
(* them are visited, and each frame's pending neighbours are successors of *)
(* its node.                                                               *)
PathIsChain ==
    \A i \in 1..(Len(path) - 1) : path[i + 1] \in dependencies[path[i]]

PathInjective ==
    \A i, j \in 1..Len(path) : i # j => path[i] # path[j]

FramesAreSuccessors ==
    \A i \in 1..Len(todo) : todo[i] \subseteq dependencies[path[i]]

IInv ==
    /\ TypeOK
    /\ PathIsChain
    /\ PathInjective
    /\ recStack = Range(path)
    /\ recStack \subseteq visited
    /\ FramesAreSuccessors
    /\ CycleIsReal

=============================================================================
