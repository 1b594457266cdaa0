---------------------------- MODULE BuildOrder -----------------------------
(***************************************************************************)
(* DependencyAnalyzer.get_build_order (check_deps.py 127-151): Kahn's      *)
(* algorithm over self.dependencies.                                       *)
(*                                                                         *)
(* Lines 129-139 (counting in-degrees and seeding the queue) are one step. *)
(* The queue is seeded in the insertion order of the in_degree dict.  That *)
(* order follows the dependency keys and the iteration order of their      *)
(* sets of string paths, which Python's hash seed changes from run to run, *)
(* so any order of the zero-count nodes is taken.  Each iteration of the   *)
(* while loop (lines 143-144) and of the inner for loop (lines 146-149) is *)
(* a step; the inner loop visits the neighbours in any order, again being  *)
(* a loop over a set.                                                      *)
(***************************************************************************)
EXTENDS IncludeGraph

VARIABLES
    dependencies,   \* self.dependencies: node -> set of nodes it includes
    inDegree,       \* in_degree: node -> count (0 for nodes not in the dict)
    counted,        \* the keys of the in_degree dict
    queue,          \* the deque
    result,         \* the order built so far
    pending,        \* neighbours of the dequeued node the for loop has yet to see
    phase           \* "count", "sort" or "done"

vars == <<dependencies, inDegree, counted, queue, result, pending, phase>>

(* The orderings of a finite set S: sequences listing each element once.   *)
Orderings(S) ==
    {s \in [1..Cardinality(S) -> S] : Range(s) = S}

(* Mutant: each count is one short, as if the edge loop skipped the first  *)
(* neighbour.                                                              *)
InDegreeOfOffByOne(g) == [n \in Node |-> Cardinality({m \in Node : n \in g[m]}) - 1]

(* Lines 132-136: every key gets an entry, every edge adds one to the      *)
(* count of its target.                                                    *)
InDegreeOf(g) == [n \in Node |-> Cardinality({m \in Node : n \in g[m]})]

Init ==
    /\ dependencies \in Graph
    /\ inDegree = [n \in Node |-> 0]
    /\ counted = {}
    /\ queue = <<>>
    /\ result = <<>>
    /\ pending = {}
    /\ phase = "count"

(* Mutant: the deque is seeded with every entry of in_degree, the filter   *)
(* "if degree == 0" of line 139 dropped.                                   *)
CountSeedAll ==
    /\ phase = "count"
    /\ inDegree' = InDegreeOf(dependencies)
    /\ counted' = Keys(dependencies) \cup Targets(dependencies)
    /\ queue' \in Orderings(counted')
    /\ phase' = "sort"
    /\ UNCHANGED <<dependencies, result, pending>>

(* Lines 129-139: the counts, then the deque of the zero-count entries.    *)
Count ==
    /\ phase = "count"
    /\ inDegree' = InDegreeOf(dependencies)
    /\ counted' = Keys(dependencies) \cup Targets(dependencies)
    /\ queue' \in Orderings({n \in counted' : inDegree'[n] = 0})
    /\ phase' = "sort"
    /\ UNCHANGED <<dependencies, result, pending>>

(* Mutant: the head of the deque is read (queue[0]) but never popped.      *)
DequeuePeek ==
    /\ phase = "sort"
    /\ pending = {}
    /\ queue # <<>>
    /\ result' = Append(result, Head(queue))
    /\ pending' = dependencies[Head(queue)]
    /\ UNCHANGED <<dependencies, inDegree, counted, queue, phase>>

(* Lines 142-144 and 146: while the deque is not empty, pop its left end,  *)
(* append it to the result and start the loop over its neighbours.         *)
Dequeue ==
    /\ phase = "sort"
    /\ pending = {}
    /\ queue # <<>>
    /\ result' = Append(result, Head(queue))
    /\ queue' = Tail(queue)
    /\ pending' = dependencies[Head(queue)]
    /\ UNCHANGED <<dependencies, inDegree, counted, phase>>

(* Mutant: the zero test of line 148 reads the count before the decrement  *)
(* of line 147 (the two lines swapped).                                    *)
RelaxTestFirst ==
    /\ phase = "sort"
    /\ \E nb \in pending :
        /\ pending' = pending \ {nb}
        /\ inDegree' = [inDegree EXCEPT ![nb] = @ - 1]
        /\ queue' = IF inDegree[nb] = 0 THEN Append(queue, nb) ELSE queue
    /\ UNCHANGED <<dependencies, counted, result, phase>>

(* Mutant: the loop over the neighbours ends after the first one, as if a *)
(* break followed the enqueue test of line 148.                           *)
RelaxBreak ==
    /\ phase = "sort"
    /\ \E nb \in pending :
        /\ pending' = {}
        /\ inDegree' = [inDegree EXCEPT ![nb] = @ - 1]
        /\ queue' = IF inDegree'[nb] = 0 THEN Append(queue, nb) ELSE queue
    /\ UNCHANGED <<dependencies, counted, result, phase>>

(* Lines 147-149: decrement the neighbour's count and enqueue it on the    *)
(* right when the count reaches zero.                                      *)
Relax ==
    /\ phase = "sort"
    /\ \E nb \in pending :
        /\ pending' = pending \ {nb}
        /\ inDegree' = [inDegree EXCEPT ![nb] = @ - 1]
        /\ queue' = IF inDegree'[nb] = 0 THEN Append(queue, nb) ELSE queue
    /\ UNCHANGED <<dependencies, counted, result, phase>>

(* Lines 142 and 151: the deque is empty; the result is returned.          *)
Finish ==
    /\ phase = "sort"
    /\ pending = {}
    /\ queue = <<>>
    /\ phase' = "done"
    /\ UNCHANGED <<dependencies, inDegree, counted, queue, result, pending>>

(* The function has returned; nothing further happens.                     *)
Returned == phase = "done" /\ UNCHANGED vars

Next == Count \/ Dequeue \/ Relax \/ Finish \/ Returned

Spec == Init /\ [][Next]_vars

-----------------------------------------------------------------------------
(***************************************************************************)
(* Properties.                                                             *)
(***************************************************************************)

TypeOK ==
    /\ dependencies \in Graph
    /\ inDegree \in [Node -> Nat]
    /\ counted \subseteq Node
    /\ queue \in Seq(Node)
    /\ result \in Seq(Node)
    /\ pending \subseteq Node
    /\ phase \in {"count", "sort", "done"}

(* --build-order prints a file only after every file that includes it: no  *)
(* file is listed twice, and each file's includers all come earlier.  So   *)
(* the order is "includers first, headers last", the reverse of a compile  *)
(* order (the direction spec section 9 leaves open).                       *)
IncludersFirst ==
    /\ \A i, j \in DOMAIN result : i # j => result[i] # result[j]
    /\ \A j \in DOMAIN result : \A m \in Node :
          result[j] \in dependencies[m] =>
             \E i \in 1..(j - 1) : result[i] = m

(* When get_build_order returns, it lists every file of the graph exactly  *)
(* when the graph is acyclic, and it never lists a file on a cycle         *)
(* (spec section 8: the order degrades to a strict subset on a cycle).     *)
CompleteIffAcyclic ==
    phase = "done" =>
        /\ (Range(result) = Keys(dependencies) \cup Targets(dependencies))
              <=> ~HasCycle(dependencies)
        /\ Range(result) \cap OnCycle(dependencies) = {}

(* The files on a cycle of g and every file reached along edges from one. *)
BehindCycle(g) == {n \in Node : \E m \in OnCycle(g) : Reach(g)[m][n]}

(* When get_build_order returns on a cyclic graph, the files it leaves out *)
(* are exactly those it cannot order: each one lies on a cycle or is       *)
(* included, directly or through other files, from a file on a cycle.  A   *)
(* file none of whose includer chains meets a cycle has its count brought  *)
(* to zero by line 147 and is listed, whatever the set iteration orders.   *)
OmitsOnlyBehindCycles ==
    phase = "done" =>
        (Keys(dependencies) \cup Targets(dependencies)) \ Range(result)
            \subseteq BehindCycle(dependencies)

-----------------------------------------------------------------------------
(***************************************************************************)
(* The inductive invariant behind TypeOK and IncludersFirst.  in_degree[n] *)
(* counts the includers m of n whose edge to n the for loop has not yet    *)
(* passed: m is not output yet, or m is the node being expanded and n is   *)
(* still pending.  Every node waiting in the deque or already output has   *)
(* no such includer; the deque lists no node twice nor any node output;    *)
(* and the pending neighbours are those of the last node output.           *)
(***************************************************************************)
Last == result[Len(result)]

Relaxed(m, n) == m \in Range(result) /\ ~(m = Last /\ n \in pending)

Waiting(n) == {m \in Node : n \in dependencies[m] /\ ~Relaxed(m, n)}

Distinct(s) == \A i, j \in DOMAIN s : i # j => s[i] # s[j]

IInv ==
    /\ TypeOK
    /\ phase = "count" => result = <<>> /\ queue = <<>> /\ pending = {}
    /\ phase # "count" => \A n \in Node : inDegree[n] = Cardinality(Waiting(n))
    /\ \A n \in Range(result) \cup Range(queue) : Waiting(n) = {}
    /\ Distinct(queue)
    /\ Range(result) \cap Range(queue) = {}
    /\ result = <<>> => pending = {}
    /\ result # <<>> => pending \subseteq dependencies[Last]
    /\ IncludersFirst

================================================================
