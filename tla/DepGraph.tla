------------------------------ MODULE DepGraph -----------------------------
(***************************************************************************)
(* DependencyAnalyzer.build_dependency_graph (check_deps.py 81-94) with    *)
(* the calls it makes: find_source_files (22-46), parse_includes (48-61)   *)
(* and resolve_include (63-79).                                            *)
(*                                                                         *)
(* A file on disk is a model value of Node with its bare name, extension   *)
(* and the markers its directory path contains (the code tests substrings  *)
(* of the os.walk root).  A file's text is abstracted to the set of        *)
(* include targets its "#include" lines name; an unreadable file yields    *)
(* the empty set, exactly as parse_includes does after its warning.        *)
(*                                                                         *)
(* Discovery visits the files in any order: os.walk's directory order and  *)
(* the overlap of its roots ('.' and each subdirectory are all walked)    *)
(* decide which of two files with the same bare name is kept, and the      *)
(* model lets either be.  Each visit and each file the build loop reads is *)
(* one step.                                                               *)
(***************************************************************************)
EXTENDS IncludeGraph

CONSTANTS
    Name,           \* bare file names and include targets (strings)
    BaseName,       \* BaseName[p]: os.path.basename of path p
    Ext,            \* Ext[p]: "c", "h", "S" or "other"
    RootTags,       \* RootTags[p]: which of the substrings tested occur in p's root
    GuestAllow,     \* the allow-list of line 40
    SyscallS,       \* the name 'syscall.S' of line 43
    IncludeDirs,    \* include_dirs, in order: ['include', 'guest']
    InDir,          \* InDir[d][i]: relpath of d/i if it exists, else NoPath
    MayInclude,     \* MayInclude[p]: the include targets p's text may name
    NoPath          \* None

Tag == {"clib", "guestos", "guest", "app"}

ASSUME DepGraphAssumption ==
    /\ IsFiniteSet(Name)
    /\ BaseName \in [Node -> Name]
    /\ Ext \in [Node -> {"c", "h", "S", "other"}]
    /\ RootTags \in [Node -> SUBSET Tag]
    /\ \A p \in Node : "guestos" \in RootTags[p] => "guest" \in RootTags[p]
    /\ GuestAllow \subseteq Name /\ SyscallS \in Name
    /\ IncludeDirs \in Seq(DOMAIN InDir)
    /\ \A d \in DOMAIN InDir : InDir[d] \in [Name -> Node \cup {NoPath}]
    /\ MayInclude \in [Node -> SUBSET Name]
    /\ NoPath \notin Node

VARIABLES
    text,           \* text[p]: the include targets named in the text of p
    toVisit,        \* files os.walk has yet to yield
    files,          \* self.files: bare name -> path (NoPath when absent)
    toParse,        \* names of self.files.items() the build loop has yet to reach
    dependencies,   \* self.dependencies: path -> set of paths it includes
    reverseDeps,    \* self.reverse_deps: path -> set of paths including it
    phase           \* "discover", "build" or "done"

vars == <<text, toVisit, files, toParse, dependencies, reverseDeps, phase>>

-----------------------------------------------------------------------------
(* Lines 30-46: whether visiting p stores it in self.files.  A root        *)
(* containing 'clib' or a guest OS directory is skipped; then the          *)
(* extension filter; under 'guest' only the allow-list is kept; under      *)
(* 'app' syscall.S is dropped.                                             *)
Discovered(p) ==
    /\ "clib" \notin RootTags[p]
    /\ "guestos" \notin RootTags[p]
    /\ Ext[p] \in {"c", "h", "S"}
    /\ IF "guest" \in RootTags[p]
          THEN BaseName[p] \in GuestAllow
          ELSE ~("app" \in RootTags[p] /\ BaseName[p] = SyscallS)

(* Lines 70-73: the first include directory holding the target.           *)
InIncludeDirs(i) ==
    LET hits == {k \in 1..Len(IncludeDirs) : InDir[IncludeDirs[k]][i] # NoPath}
    IN  IF hits = {} THEN NoPath
        ELSE LET k == CHOOSE k \in hits : \A j \in hits : k <= j
             IN  InDir[IncludeDirs[k]][i]

(* resolve_include, lines 63-79: the discovered file of that bare name,    *)
(* else the include-directory hit, else None (system headers included).   *)
ResolveInclude(i) ==
    IF files[i] # NoPath THEN files[i] ELSE InIncludeDirs(i)

(* Mutant: the test "if resolved" of line 92 dropped, so None is added.    *)
ResolvedTargetsWithNone(p) == {ResolveInclude(i) : i \in text[p]} \ {p}

(* Mutant: the test resolved != file_path of line 92 dropped.             *)
ResolvedTargetsWithSelf(p) == {ResolveInclude(i) : i \in text[p]} \ {NoPath}

(* Lines 89-92: the paths a source file gets edges to: its resolved        *)
(* includes other than None and itself.                                    *)
ResolvedTargets(p) == {ResolveInclude(i) : i \in text[p]} \ {NoPath, p}

-----------------------------------------------------------------------------
Init ==
    /\ \E lines \in SUBSET {e \in Node \X Name : e[2] \in MayInclude[e[1]]} :
          text = [p \in Node |-> {i \in Name : <<p, i>> \in lines}]
    /\ toVisit = Node
    /\ files = [i \in Name |-> NoPath]
    /\ toParse = {}
    /\ dependencies = [p \in Node |-> {}]
    /\ reverseDeps = [p \in Node |-> {}]
    /\ phase = "discover"

(* Lines 33-46: os.walk yields p; it is stored under its bare name,        *)
(* overwriting an earlier file of the same name, or left out.              *)
VisitFile ==
    /\ phase = "discover"
    /\ \E p \in toVisit :
        /\ toVisit' = toVisit \ {p}
        /\ files' = IF Discovered(p) THEN [files EXCEPT ![BaseName[p]] = p]
                                     ELSE files
    /\ UNCHANGED <<text, toParse, dependencies, reverseDeps, phase>>

(* Lines 83-85: find_source_files returns; the build loop starts over the  *)
(* entries of self.files.                                                  *)
StartBuild ==
    /\ phase = "discover"
    /\ toVisit = {}
    /\ toParse' = {i \in Name : files[i] # NoPath}
    /\ phase' = "build"
    /\ UNCHANGED <<text, toVisit, files, dependencies, reverseDeps>>

(* Lines 86-87: an entry whose path is not a .c or .S file is passed over. *)
SkipHeader ==
    /\ phase = "build"
    /\ \E i \in toParse :
        /\ Ext[files[i]] \notin {"c", "S"}
        /\ toParse' = toParse \ {i}
    /\ UNCHANGED <<text, toVisit, files, dependencies, reverseDeps, phase>>

(* Lines 89-94: a source file is parsed and one forward and one reverse    *)
(* edge is added for every resolved include other than itself.             *)
ParseSource ==
    /\ phase = "build"
    /\ \E i \in toParse :
        LET p == files[i] IN
        /\ Ext[p] \in {"c", "S"}
        /\ toParse' = toParse \ {i}
        /\ dependencies' = [dependencies EXCEPT ![p] = @ \cup ResolvedTargets(p)]
        /\ reverseDeps' = [q \in Node |-> IF q \in ResolvedTargets(p)
                                             THEN reverseDeps[q] \cup {p}
                                             ELSE reverseDeps[q]]
    /\ UNCHANGED <<text, toVisit, files, phase>>

(* The loop of line 85 is exhausted: the graph is built.                   *)
EndBuild ==
    /\ phase = "build"
    /\ toParse = {}
    /\ phase' = "done"
    /\ UNCHANGED <<text, toVisit, files, toParse, dependencies, reverseDeps>>

(* build_dependency_graph has returned; nothing further happens here.      *)
Built == phase = "done" /\ UNCHANGED vars

Next == VisitFile \/ StartBuild \/ SkipHeader \/ ParseSource \/ EndBuild \/ Built

Spec == Init /\ [][Next]_vars

-----------------------------------------------------------------------------
(* The paths stored in self.files.                                         *)
DiscoveredPaths == {files[i] : i \in Name} \ {NoPath}

TypeOK ==
    /\ text \in [Node -> SUBSET Name]
    /\ toVisit \subseteq Node
    /\ files \in [Name -> Node \cup {NoPath}]
    /\ toParse \subseteq Name
    /\ dependencies \in [Node -> SUBSET Node]
    /\ reverseDeps \in [Node -> SUBSET Node]
    /\ phase \in {"discover", "build", "done"}

(* After every insertion of build_dependency_graph (spec sections 3, 4.4   *)
(* and 8): the reverse index is exactly the transpose of the forward       *)
(* mapping, no file depends on itself, and only discovered .c/.S files    *)
(* have outgoing edges.                                                    *)
GraphWellFormed ==
    /\ \A p, q \in Node : q \in dependencies[p] <=> p \in reverseDeps[q]
    /\ dependencies \in Graph
    /\ \A p \in Keys(dependencies) : p \in DiscoveredPaths /\ Ext[p] \in {"c", "S"}

(* Spec section 3: edges only exist between two resolved, discovered files *)
(* (the targets of the graph are files of the discovery mapping).          *)
EdgesBetweenDiscovered ==
    \A p \in Node : dependencies[p] \subseteq DiscoveredPaths

(* Spec section 4.4: once the graph is built, a discovered file, header or *)
(* not, has an edge to every discovered file its includes resolve to       *)
(* ("header-to-header edges are also captured").                           *)
HeaderIncludesCaptured ==
    phase = "done" =>
        \A p \in DiscoveredPaths : \A i \in text[p] :
            LET q == ResolveInclude(i)
            IN  q \in DiscoveredPaths \ {p} => q \in dependencies[p]

-----------------------------------------------------------------------------
(* The inductive invariant behind GraphWellFormed.  While os.walk runs no  *)
(* edge exists yet and the build loop has not started; once it has,        *)
(* self.files no longer changes and every entry the loop has yet to reach  *)
(* names a stored path.                                                    *)
IInv ==
    /\ TypeOK
    /\ GraphWellFormed
    /\ phase = "discover" => /\ dependencies = [p \in Node |-> {}]
                             /\ reverseDeps = [p \in Node |-> {}]
                             /\ toParse = {}
    /\ \A i \in toParse : files[i] \in Node

=============================================================================
