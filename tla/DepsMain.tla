------------------------------ MODULE DepsMain -----------------------------
(***************************************************************************)
(* check_deps.py main() (lines 186-222): one run of the dependency checker.*)
(* The graph is built (DepGraph), the statistics are printed              *)
(* (print_statistics, 173-184), then, as the flags ask, the cycle check    *)
(* (CycleDetector), the build order (BuildOrder) and the DOT export        *)
(* (generate_dot_graph, 153-171) run on the same self.dependencies.        *)
(*                                                                         *)
(* The detector and the sorter read self.dependencies through a            *)
(* defaultdict, which inserts an empty entry for every header they look    *)
(* up.  Those entries add no edge, and every such header is already an     *)
(* edge target, so the keys the sorter iterates add no node to its count;  *)
(* the model therefore keeps self.dependencies unchanged after the build.  *)
(***************************************************************************)
EXTENDS IncludeGraph

CONSTANTS Name, BaseName, Ext, RootTags, GuestAllow, SyscallS, IncludeDirs,
          InDir, MayInclude, NoPath, None

VARIABLES
    text, toVisit, files, toParse, dependencies, reverseDeps, phase, \* DepGraph
    stage,          \* where main() is: "build", "cycles", "order", "dot", "exit"
    checkCycles,    \* args.check_cycles
    buildOrder,     \* args.build_order
    dot,            \* args.dot given
    exitCode,       \* the process exit status, once stage = "exit"
    dotNodes,       \* the paths written as node statements
    dotEdges,       \* the pairs written as edge statements
    roots, visited, recStack, path, todo, cycle, done,      \* CycleDetector
    inDegree, counted, queue, result, pending, sortPhase    \* BuildOrder

graphVars == <<text, toVisit, files, toParse, dependencies, reverseDeps, phase>>
cdVars == <<roots, visited, recStack, path, todo, cycle, done>>
boVars == <<inDegree, counted, queue, result, pending, sortPhase>>
mainVars == <<stage, checkCycles, buildOrder, dot, exitCode, dotNodes, dotEdges>>
vars == <<graphVars, cdVars, boVars, mainVars>>

DG == INSTANCE DepGraph
CD == INSTANCE CycleDetector
BO == INSTANCE BuildOrder WITH phase <- sortPhase

-----------------------------------------------------------------------------
Init ==
    /\ DG!Init
    /\ stage = "build"
    /\ checkCycles \in BOOLEAN
    /\ buildOrder \in BOOLEAN
    /\ dot \in BOOLEAN
    /\ exitCode = 0
    /\ dotNodes = {}
    /\ dotEdges = {}
    /\ roots = {} /\ visited = {} /\ recStack = {} /\ path = <<>> /\ todo = <<>>
    /\ cycle = None /\ done = FALSE
    /\ inDegree = [n \in Node |-> 0] /\ counted = {} /\ queue = <<>>
    /\ result = <<>> /\ pending = {} /\ sortPhase = "count"

(* Line 199: analyzer.build_dependency_graph(), one loop step at a time.   *)
BuildStep ==
    /\ stage = "build"
    /\ \/ DG!VisitFile \/ DG!StartBuild \/ DG!SkipHeader \/ DG!ParseSource
       \/ DG!EndBuild
    /\ UNCHANGED <<cdVars, boVars, mainVars>>

(* Line 203, print_statistics (173-184): max() of line 180 over the items  *)
(* of an empty self.dependencies raises ValueError, which nothing catches: *)
(* the run ends with a traceback and exit status 1.  Otherwise the         *)
(* statistics are printed and main() goes on to the requested reports;     *)
(* list(self.dependencies.keys()) (line 119) is the detector's roots.     *)
PrintStatistics ==
    /\ stage = "build"
    /\ phase = "done"
    /\ IF Keys(dependencies) = {}
          THEN /\ stage' = "exit"
               /\ exitCode' = 1
               /\ UNCHANGED roots
          ELSE /\ stage' = "cycles"
               /\ roots' = Keys(dependencies)
               /\ UNCHANGED exitCode
    /\ UNCHANGED <<graphVars, checkCycles, buildOrder, dot, dotNodes, dotEdges,
                   visited, recStack, path, todo, cycle, done, boVars>>

(* Lines 205-211: with --check-cycles, find_circular_dependencies runs.    *)
CycleStep ==
    /\ stage = "cycles"
    /\ checkCycles
    /\ \/ CD!StartRoot \/ CD!SkipRoot \/ CD!Descend \/ CD!FoundCycle
       \/ CD!SkipVisited \/ CD!Return \/ CD!Finish
    /\ UNCHANGED <<text, toVisit, files, toParse, reverseDeps, phase,
                   boVars, mainVars>>

(* Lines 205 and 213: the cycle check is done or was not asked for.        *)
EndCycles ==
    /\ stage = "cycles"
    /\ checkCycles => done
    /\ stage' = "order"
    /\ UNCHANGED <<graphVars, cdVars, boVars, checkCycles, buildOrder, dot,
                   exitCode, dotNodes, dotEdges>>

(* Lines 213-217: with --build-order, get_build_order runs.                *)
OrderStep ==
    /\ stage = "order"
    /\ buildOrder
    /\ \/ BO!Count \/ BO!Dequeue \/ BO!Relax \/ BO!Finish
    /\ UNCHANGED <<text, toVisit, files, toParse, reverseDeps, phase,
                   cdVars, mainVars>>

(* Lines 213 and 219: the order is printed or was not asked for.           *)
EndOrder ==
    /\ stage = "order"
    /\ buildOrder => sortPhase = "done"
    /\ stage' = "dot"
    /\ UNCHANGED <<graphVars, cdVars, boVars, checkCycles, buildOrder, dot,
                   exitCode, dotNodes, dotEdges>>

(* Lines 219-222 and 153-171: with --dot the graph is written, one node    *)
(* statement per entry of self.files and one edge statement per edge, and  *)
(* main() returns (exit status 0).  An open() or write() failure raises an *)
(* OSError nothing catches: exit status 1 after the reports already        *)
(* printed.                                                                *)
WriteDot ==
    /\ stage = "dot"
    /\ dot
    /\ \/ /\ dotNodes' = DG!DiscoveredPaths
          /\ dotEdges' = {e \in Node \X Node : e[2] \in dependencies[e[1]]}
          /\ exitCode' = 0
       \/ /\ exitCode' = 1
          /\ UNCHANGED <<dotNodes, dotEdges>>
    /\ stage' = "exit"
    /\ UNCHANGED <<graphVars, cdVars, boVars, checkCycles, buildOrder, dot>>

(* Line 219 false: main() returns, exit status 0.                          *)
NoDot ==
    /\ stage = "dot"
    /\ ~dot
    /\ stage' = "exit"
    /\ exitCode' = 0
    /\ UNCHANGED <<graphVars, cdVars, boVars, checkCycles, buildOrder, dot,
                   dotNodes, dotEdges>>

(* The process has exited.                                                 *)
Exited == stage = "exit" /\ UNCHANGED vars

Next ==
    \/ BuildStep \/ PrintStatistics \/ CycleStep \/ EndCycles
    \/ OrderStep \/ EndOrder \/ WriteDot \/ NoDot \/ Exited

Spec == Init /\ [][Next]_vars

-----------------------------------------------------------------------------
(* The discovered .c and .S files, the ones the build loop parses.        *)
SourcesDiscovered == {p \in DG!DiscoveredPaths : Ext[p] \in {"c", "S"}}

(* Spec sections 6 and 7: the only fatal error is finding no source file   *)
(* at all; the run never ends before the reports (in print_statistics)     *)
(* while some .c or .S file was discovered.                                *)
FatalOnlyOnEmptyDiscovery ==
    [][(stage = "build" /\ stage' = "exit") => SourcesDiscovered = {}]_vars

=============================================================================
