# TLA+ models of the Avatar build scripts

This directory holds TLA+ specifications of the Python tools under
`src/scripts/`. It also holds the TLC configurations that model-check
them and the TLAPS proofs about them. The checked-in code is three
independent command-line scripts:

| script | what it does | state it changes |
|---|---|---|
| `check_deps.py` | walks the source tree, parses `#include` lines, builds the include graph, then prints statistics, a circular dependency, a build order and/or a DOT file | the analyzer's `files`, `dependencies`, `reverse_deps`; the DFS and Kahn working sets; the DOT file; the exit status |
| `add_file_headers.py` | walks the tree and prepends a copyright header to files that have none | the files it rewrites |
| `avatar_symbols.py` | reads the symbol table of an `objdump` listing (`build/dis.txt`) and prints the sections, the symbols of one section, or a memory-layout summary | none besides its output and exit status |

The scripts do not interact with each other. Inside `check_deps.py`, `main()`
runs the components in sequence on one `DependencyAnalyzer` object. First the
graph builder fills `self.files`, `self.dependencies` and `self.reverse_deps`.
Then `print_statistics` reads them. Then, depending on the flags,
`find_circular_dependencies`, `get_build_order` and `generate_dot_graph` read
`self.dependencies`.

## Inventory

Components of `check_deps.py`:

- **discovery** (`find_source_files`, lines 22-46): `os.walk` over 14
  overlapping roots. It uses substring tests on the root path (`clib`,
  `guest/linux`, `guest/nimbos`, `guest/testos`, `guest`, `app`), an
  extension filter, an allow-list under `guest`, and it drops `syscall.S`
  under `app`. Files are stored by bare name, and the last one stored wins.
- **include parsing** (`parse_includes`, 48-61): a regex over every line. An
  exception gives the empty set.
- **resolution** (`resolve_include`, 63-79): the bare name in `self.files`,
  else the first include directory in which the file exists, else `None`.
- **graph construction** (`build_dependency_graph`, 81-94): parses only `.c`
  and `.S` files and adds forward and reverse edges, without self-edges.
- **cycle detection** (`find_circular_dependencies`, 96-125): a recursive DFS
  with one visited set shared by all roots and a fresh `rec_stack` per root.
- **build order** (`get_build_order`, 127-151): Kahn's algorithm.
- **DOT export** (`generate_dot_graph`, 153-171) and **statistics**
  (`print_statistics`, 173-184).
- **driver** (`main`, 186-222).

Components of `avatar_symbols.py`, run in sequence by `main()` (335-371):

- **reading** (`read_symbol_table_from_file`, 24-79): the lines between the
  first `SYMBOL TABLE:` line and the next `Disassembly of section .text:`
  line, blank ones dropped.
- **parsing** (`SymbolAnalyzer.parse_symbols`, 96-160): split on whitespace,
  keep rows of at least five parts with a 16-digit address, and guess the
  columns from the number of parts.
- **reports**: `list_available_sections` (319-333), `print_section_symbols`
  (266-317) through `filter_by_section` (166-168), and
  `print_section_analysis` (228-264) through `analyze_memory_layout`
  (199-226).

Iteration order: every loop over a `set` of paths (the neighbours, and the
keys inserted from them) follows Python's string hash. That hash is
randomised per process, so the models take every order.

## Modules and their correspondence to the code

- `IncludeGraph`: the graph type shared by all modules.
  - `Graph`: a function from file to its set of successors, with no
    self-loops. It models `defaultdict(set)` after construction.
  - `Keys` and `Targets`.
  - Reference definitions that use no code: `Reach` (Warshall's closure),
    `OnCycle`, `HasCycle` and `IsClosedWalk`. The properties are stated
    against them.
- `DepGraph`: discovery, parsing, resolution and graph construction.
  - A file is a model value. Its bare name, extension and the markers its
    root contains are constants (`BaseName`, `Ext`, `RootTags`). The text
    of a file is abstracted to the set of include targets it names: `Init`
    takes any subset of `MayInclude[p]`, and the empty set also stands for
    an unreadable file.
  - `VisitFile` is one `os.walk` yield, with the filters in `Discovered`.
    Files are visited in any order, which decides the winner of a name
    collision.
  - `StartBuild`, `SkipHeader`, `ParseSource` and `EndBuild` are the build
    loop. `ParseSource` is the whole body of the loop: it parses the file,
    resolves every include and adds the forward and reverse edges.
- `CycleDetector`: the DFS with an explicit call stack.
  - `path[i]` and `todo[i]` are the node and the unvisited neighbours of the
    i-th active `dfs` frame.
  - `StartRoot` and `SkipRoot` are the outer loop. `Descend`, `FoundCycle`
    and `SkipVisited` are the three branches of the inner loop, `Return` is
    the pop, and `Finish` is the final `return None`.
  - A found cycle is returned through every active frame at once (lines
    106-107), so no frame step follows `FoundCycle`.
- `BuildOrder`: Kahn's algorithm.
  - `Count` is lines 129-139, including the seeding of the deque in any
    order.
  - `Dequeue` is one iteration of the while loop, and `Relax` one iteration
    of the inner for loop.
- `DepsMain`: `main()`, composing `DepGraph`, `CycleDetector` and
  `BuildOrder` through `INSTANCE`.
  - The command-line flags are chosen in `Init`.
  - `PrintStatistics` models the crash of `max()` on an empty graph.
  - `WriteDot` writes the node and edge sets, or fails with exit status 1.
  - The `defaultdict` reads of the DFS and of Kahn's algorithm insert empty
    entries. These add no edge and no node the sorter counts, so the model
    keeps `dependencies` fixed after the build (argued in the module header).
  - Only the `deps_main_exit` run checks it. Once the graph is built it is
    fixed, so whether the cycle report and the build order agree follows
    from `DetectsIffCyclic` and `CompleteIffAcyclic`, which the component
    runs check on every graph of four files.
- `HeaderTool`: `add_file_headers.py`.
  - A text is a sequence of blocks: the file's own `#!` line, the `#!`
    lines of the python and shell templates, an Avatar header, and body
    text. A body block stands for at least the 1000 characters that
    `has_copyright_header` looks at.
  - The tree is a set of directories (`Parent`, `DirName`) and files.
  - `Walk` is `os.walk` with the pruning of line 270: a directory named
    `build`, `.git`, `__pycache__`, `clib` or `guest` below the argument
    is not entered. `Ancestors` follows `Parent` links through a recursive
    function `up[n]`, at most `Cardinality(Dir)` steps. It is not a
    `RECURSIVE` operator, so a module with theorems may extend `HeaderTool`.
  - `PatternHit` is the exclude-pattern test of lines 281-283. Which
    stripped patterns occur in a path is the constant `Contains`.
  - `NextPath` is one path argument.
  - `SkipExcluded` is an excluded walked file.
  - `ProcessFile` is the whole of `process_file` and the counter its result
    selects. `ProcessResult` tests the conditions in the code's order:
    binary, has a header (unless `--force`), no template, `--dry-run`, and
    the uncaught `OSError` of the write, which ends the run. `NewContent`
    is the shebang handling of lines 196-210.
  - Two constant assumptions. A path argument is a file or a directory of
    the tree, never both: `os.path.isfile` and `isdir` exclude each other.
    A name whose suffix is `.py` or `.sh` is not itself a template key, so
    such a file gets the python or shell template by its suffix.
  - `Summary` prints the totals.
- `HeaderDryRun`: two runs of `add_file_headers.py` on the same tree and
  command line, one with `--dry-run`. The real run is `HeaderTool`'s own
  variables. The dry run is a second copy, `Dry == INSTANCE HeaderTool WITH
  content <- dContent, ...`. The two processes share nothing, so their steps
  interleave.
- `SymbolTool`: `avatar_symbols.py`.
  - A line is a sequence of columns, each a sequence of whitespace-free
    tokens: one column of text, or the five columns of a symbol row (address,
    flags, section, size, name). The flags column may hold one, two or three
    groups, which is what `re.split(r'\s+', ...)` cannot tell apart. `Split`
    is that split.
  - The token facts the code depends on are constants: `Hex16` (the address
    regex of line 111), `Hexable` and `HexVal` (`int(t, 16)`), and `InStr`
    (Python's `a in b`).
  - `FindTable`, `CollectLine` and `EndCollect` are the reading function: the
    two marker searches, then one iteration of the collecting loop per step.
    A missing file, an undecodable one, or one without a table ends the run
    with status 1.
  - `ParseLine` is one iteration of `parse_symbols`. `Symbol` builds the dict
    of lines 142-152, and `SizeOf` is lines 133-140.
  - `ListSections`, `PrintSectionSymbols` and `StartAnalysis` are the three
    branches of `main()`. `AnalyzeSymbol` is one iteration of the loop of
    lines 202-215, and `PrintSectionAnalysis` is the size computation and
    the printed rows.
  - Formatting, the `--sort` order and the `--file` path are left out: they
    change no value a property compares.
  - `RowShaped` and `DocumentedLayout` describe the listings of the two row
    layouts that the docstring of `parse_symbols` (lines 89-96) names. A
    row has a one-token address, section and size column, one or two flag
    groups, and a one-token name after a single flag group. No other line
    splits into five or more parts led by 16 hex digits. They are the
    hypothesis of the theorem `ColumnsParsed`, not part of the model.

`PROJECT.json` "map" names the source lines of every definition.

## Runs

| run | checks | result |
|---|---|---|
| `cycle_detector` | `TypeOK`, `CycleIsReal`, `DetectsIffCyclic`, and `Termination` under `WF_vars(Next)`, on every graph over 4 files | pass, ~187k states |
| `build_order` | `TypeOK`, `IncludersFirst`, `CompleteIffAcyclic`, `OmitsOnlyBehindCycles`, on every graph over 4 files | pass, 1198 states |
| `dep_graph` | `TypeOK`, `GraphWellFormed` over a tree with a guest allow-listed file, an excluded guest OS header, an app `syscall.S`, a name collision and a system header | pass, ~99k states |
| `dep_graph_edges` | `EdgesBetweenDiscovered` | violation (finding) |
| `dep_graph_headers` | `HeaderIncludesCaptured` | violation (finding) |
| `deps_main_exit` | `FatalOnlyOnEmptyDiscovery` | violation (finding) |
| `header_tool` | `TypeOK`, `HeaderOnce`, `WalkedFilesGetHeaders` over a tree of `.`, `src` and `guest` with a C file with and without a header, python and shell scripts, a Makefile, a README, an object file and a read-only header; overlapping path arguments; dry and real runs; with and without `--exclude`; and the action property `TextKept` | pass, 2520 states |
| `header_tool_force` | `HeaderOnce` with `--force` | violation (finding) |
| `header_tool_upper` | `ShebangKept` on the tree with the script `src/GEN.PY` added | violation (finding) |
| `header_dry_run` | `DryRunPredictsRun`: a dry run and a real run of the same command line | violation (finding) |
| `symbol_tool` | `TypeOK`, `ParsedAsColumns`, `SectionExtentsMatch` over four listings (full; no end marker; empty table; no table) with section symbols, five-part rows, a `.text.boot` section, an `*ABS*` size and a 32-bit address; every file state, `--list-sections`, `--section` value and default | pass, 310 states |
| `symbol_tool_size` | `SectionSizeCoversSymbols` | violation (finding) |


What the properties say:

- `CycleIsReal`: a reported cycle is a closed walk of real edges.
- `DetectsIffCyclic`: the detector returns `None` exactly on acyclic graphs.
  This is the correctness of the shared visited set.
- `IncludersFirst`: the order lists no file twice, and lists every file after
  all of its includers. The order is therefore includers first, the reverse
  of a compile order.
- `CompleteIffAcyclic`: the order is complete exactly on acyclic graphs, and
  never contains a file on a cycle.
- `OmitsOnlyBehindCycles`: on a cyclic graph the order leaves out only
  files that lie on a cycle or are included, directly or not, from a file
  on one. `CompleteIffAcyclic` says the order is incomplete on a cyclic
  graph; this says by how much. No file whose includer chains all avoid
  cycles is lost, whatever order the sets are iterated in.
- `GraphWellFormed`: the reverse index is the transpose of the forward map,
  there are no self-edges, and only discovered `.c`/`.S` files have edges out.
- `HeaderOnce`: no file ends a run with two headers. This needs the second
  visit of a file that is reached twice to recognise the header that the
  first visit inserted after a `#!` line.
- `ShebangKept` (violation run): a script's own `#!` line stays first,
  as the comment at line 200 says.
- `WalkedFilesGetHeaders`: after a real run, every walked text file that
  has a template has a header.
- `TextKept` (action property): at every step, each file's old text is its
  new text with one run of blocks taken out. The tool never loses or moves
  a line of a file; it only inserts a header.
- `Termination`: `find_circular_dependencies` returns on every graph.
- `DryRunPredictsRun`: the dry-run summary's count equals the real run's.
- `ParsedAsColumns`: the symbols parsed so far are exactly the table's
  symbol rows, in order, with address, section, size and name read from the
  right columns.
- `SectionExtentsMatch`: at every iteration of `analyze_memory_layout`, the
  dict holds exactly the sections met so far. Each entry has the exact count
  and the least and greatest address of that section's symbols.
- `SectionSizeCoversSymbols`: every symbol of a section ends within the
  start plus the printed size.

Every property of a passing run has a mutant in `PROJECT.json`. A mutant is
a plausible bug in the mapped code, and TLC finds it violating the property.

Bounds:

- Four nodes give every graph shape with cycles of length 2, 3 and 4, cycles
  reachable only through visited nodes, and diamonds, where in-degrees above
  one matter.
- The `DepGraph` tree has one file for each filter branch and each
  resolution branch. It includes a file resolved only through the `guest`
  include directory, a name collision and an unresolvable include.
- `MCHeaderTool` has one file for each result of `process_file` and for
  each branch of the shebang code. Its path arguments overlap, so files
  are visited twice. One argument walks `guest` directly; that directory is
  pruned when it lies below the argument.
- `MCDepsMain` has three sources that may include each other and two
  headers. Each file's includes range over every subset of a small set, so
  some trees resolve no include at all.

Fairness: only `cycle_detector` assumes any, through
`FairSpec == Spec /\ WF_vars(Next)` in `CycleDetector`.
`find_circular_dependencies` runs in one thread, and each step is a Python
statement that cannot block. A step is therefore taken whenever one is
enabled, which is what weak fairness of `Next` says. The guards of the
actions cover every state before `done`, so a stutter is never forced. The
mutant `SkipVisitedStay` leaves the loop at a neighbour it passes over,
which is a stutter, and TLC then finds a run that never returns. That run
does not use symmetry, because symmetry is unsound with liveness. Every other
property is a safety property. Those runs stop at `Returned`, `Built` or
`Exited`, which are terminal stuttering steps.

- `MCSymbolTool`'s full listing has two sections that share a prefix, a
  section whose symbols sit at different addresses, a row of every width
  and a row the parser must skip. The other three listings reach every
  exit of the reading function.
- `MCHeaderDryRun` runs both tools on `MCHeaderTool`'s tree, whose path
  arguments overlap.

## Findings

1. The include-directory fallback (line 72) resolves includes to files that
   discovery excluded.
2. Headers are never parsed (line 86), so header-to-header edges and header
   cycles are invisible. Spec section 4.4 says they are captured.
3. A tree whose sources resolve no include crashes in `max()` (line 180) with
   exit status 1. The spec makes only empty discovery fatal.
4. `add_file_headers.py --force` prepends a second header. Its help text
   says it overwrites the existing one.
5. `--dry-run` overstates the real run. Its help text says it shows what
   would be done. With the arguments `src/tool.py src`, the dry run counts
   `tool.py` twice (lines 212-213 and 261). The real run adds the header
   once and then finds it already there.
7. A script named with an upper-case suffix, such as `GEN.PY`, loses its
   own first line. `get_header_for_file` picks the python template by the
   lower-cased suffix (line 150). The shebang branch tests
   `filepath.endswith('.py')`, which is case-sensitive (line 201), so line
   207 writes the whole template, `#!/usr/bin/env python3` included, in
   front of the script's own `#!` line. The comment at line 200 says
   "Keep shebang, add header after".
6. The section analysis of `avatar_symbols.py` takes a section's size as
   `max_addr - min_addr` (line 224). This leaves out the last symbol's own
   size, so a symbol extends past start plus size.

Observations made on other instances of the same modules. No standing run
checks them; each is reproduced by the change described:

- The `*.a` exclude pattern is tested as a substring of the path, so walked
  `.asm` files never get a header. Run `MCHeaderTool.cfg` with
  `File <- MCFileAsm`; `WalkedFilesGetHeaders` is then violated.
- A script that is a single `#!` line without a final newline gets the
  template in front of it: `content.split('\n', 1)` has one element (line
  199). With `MCInitContent` giving `run.sh` the text `<<"shebang">>`,
  `ShebangKept` is violated.
- `--list-sections` counts a section with the substring filter of line 168
  (line 327), so `.text` includes the symbols of `.text.boot`.
- `parse_symbols` guesses the columns from the number of parts (lines
  118-129). objdump prints an indirect function's flags as `g     i F`, so
  such a row (`Row(H40, <<"g", "i", "F">>, ".text", H8, "memcpy")` in
  `MCSymbolTool`) gets type `i`, section `F`, size 0 and the size glued
  into its name, and `ParsedAsColumns` is violated.

## Proofs (TLAPS)

- `CycleDetectorProofs` proves two theorems for every finite set of files:
  - `TypeCorrect`: `Spec => []TypeOK`.
  - `CycleReportIsReal`: `Spec => []CycleIsReal`.

  The inductive invariant `IInv` (in `CycleDetector`) strengthens `TypeOK`.
  It says:
  - the path is an injective chain of edges;
  - `recStack` is exactly the set of nodes on the path, all of which are
    visited;
  - every frame's pending neighbours are successors of its node.

  This strengthening is needed because `path.index(neighbor)` must find the
  neighbour's only occurrence on the path. The lemma `CycleFromIsClosedWalk`
  then shows that the slice plus the neighbour is a closed walk.
- `DepGraphProofs` proves two theorems for every file tree, name set,
  include-directory list and file content:
  - `TypeCorrect`.
  - `GraphIsWellFormed`: `Spec => []GraphWellFormed`.

  The invariant adds two facts: while discovery runs there are no edges and
  no build entries; and every pending build entry names a stored path. The
  "first include directory" is a `CHOOSE` of a least index. The lemma
  `LeastElement`, proved from `WFMin` and `NatLessThanWellFounded`, shows
  that this least index exists.

- `SymbolToolProofs` proves two theorems for every token set, listing and
  command line:
  - `TypeCorrect`: `Spec => []TypeOK`, including that every dict
    `parse_symbols` builds is a well-typed record (lemma `SymbolType`).
  - `LayoutExtents`: `Spec => []SectionExtentsMatch`.

  The inductive invariant `IInv` adds two facts to `TypeOK` and the
  property. The layout loop has not started while the listing is read and
  parsed (`k = 1`), so the symbols may grow without disturbing the dict.
  The collecting loop stays within the listing (lemma `TableBounds`, over
  the least marker lines). The step of the layout loop
  (`AnalyzeSymbolExtents`) is split on whether the section is new. In both
  cases the new count follows from `FS_AddElement`, and the new extents
  from the old ones by `min` and `max`.

  A third theorem, `ColumnsParsed`, is
  `Spec => [](DocumentedLayout(lines) => ParsedAsColumns)`. It holds for
  every listing of the two row layouts the docstring names, with one or two
  flag groups. It does not hold for others: the observation under Findings
  shows a row with three flag groups breaking `ParsedAsColumns`. TLC
  confirms that the four listings of the `symbol_tool` run satisfy
  `DocumentedLayout`, so the hypothesis is not vacuous there.
  - The inductive invariant `ColumnsInv` holds under `DocumentedLayout(lines)`.
    It adds two facts to the property. The table keeps the listing's layout.
    Nothing is parsed while the table is being collected, so `CollectLine`
    may append to it.
  - The lemma `RowParts` states where `re.split` puts each column's tokens.
    `RowSymbol` shows that `parse_symbols` guesses the column layout from
    the number of parts. With one flag group it gets five parts and no type.
    With two it gets six or more parts and takes the second group for the
    type. Either way it reads the row's section, size and name.
  - `RowLengths` does that arithmetic over plain naturals. Z3 cannot mix
    `Len` of an untyped column with this case split.
- `BuildOrderProofs` proves two theorems for every finite set of files
  and every graph without self-edges:
  - `TypeCorrect`: `Spec => []TypeOK`. In particular, no `in_degree` entry
    is decremented below zero.
  - `IncludersFirstHolds`: `Spec => []IncludersFirst`.

  The inductive invariant `IInv` is built around `Waiting(n)`, the
  includers of `n` that have not yet relaxed their edge to `n`. An includer
  `m` has relaxed that edge once `m` is in the result, unless `m` is the
  last file output and `n` is still among its pending neighbours.
  - After counting, `in_degree[n]` equals the size of `Waiting(n)`.
  - Every file in the result or the queue has no waiting includer.
  - The queue has no duplicates and shares no file with the result.
  - The pending neighbours are neighbours of the last file output.

  This is what the code's correctness rests on. A file enters the queue
  exactly when its last includer relaxes the edge, so it is emitted after
  all of its includers and only once. The seeding of the deque lists each
  zero-in-degree file once (`OrderingsDistinct`).

- `HeaderToolProofs` proves four theorems for every tree, file text and
  command line:
  - `TypeCorrect`: `Spec => []TypeOK`.
  - `HeaderOnceHolds`:
    `Spec => [](~force /\ OriginalHeadersInWindow => HeaderOnce)`. Both
    hypotheses are needed. `header_tool_force` shows `--force` adding a
    second header. A header below the first 1000 characters is not seen by
    `has_copyright_header` (line 145), so the tool adds another.
  - `WalkedFilesGetHeadersHolds`:
    `Spec => [](WalkedFilesNotExcluded => WalkedFilesGetHeaders)`. The
    hypothesis says no walked text file with a template matches an exclude
    pattern. The `.asm` observation shows what happens otherwise.
  - `TextKeptHolds`: `Spec => TextKept`.

  TLC checks that the hypotheses hold in every state of the `header_tool`
  run, so they are not vacuous. The inductive invariant `IInv` (checked by
  TLC on the `header_tool` instance, and with `--force` and all ten files)
  adds three facts to `TypeOK`:
  - `HeaderOnceInv`: without `--force`, every file is either as it was, or
    had no header and now has exactly one that `has_copyright_header` sees.
    A file with a header is never written again, so a second visit cannot
    add another.
  - `WalkInv`: in a real run that has not crashed, every file that a
    started directory argument reaches is pending or `Handled`. `Handled`
    means it has a header, is binary, has no template or matches a
    pattern. `NextPath` starts an argument only when nothing is pending.
  - `DoneInv`: the summary is printed only after the last argument.

  Lemmas used:
  - `NewContentShape`: the written text is either the `#!` line, the
    header and the rest, or the template in front of the old text.
  - `NewContentHeader`, from `PrefixHeader`: the new text has a header that
    `has_copyright_header` sees, and exactly one if the old text had none.
  - `NewContentKeeps`, from `RemovedFront` and `RemovedSecond`: the old
    text is the new one with the inserted blocks taken out.

Only model-checked, and out of TLAPS's reach:

- `DetectsIffCyclic`, `CompleteIffAcyclic` and `OmitsOnlyBehindCycles`, which rest
  on the recursive reachability `Reach`. What it computes for every input
  would need induction over data.
- `Termination`: liveness under fairness is beyond TLAPS here.
- `ParsedAsColumns` for listings outside the documented layouts. There it
  fails, which is the observation above.
- The properties of `HeaderDryRun` and `DepsMain`. Both compose other
  modules through `INSTANCE`. The lemmas
  proved about those modules do not carry over to the instances, because
  the instances' built-in operators are distinct symbols to the prover.

## Not modelled

- In `avatar_symbols.py`: `search_symbols` (regular expressions), and
  `sort_by_address`, `filter_by_flags`, `filter_by_type`, `get_functions`,
  `get_objects`, `get_global_symbols` and `get_local_symbols`, which
  `main()` never calls. Also the `--sort` order and the text of the printed
  rows. A `BrokenPipeError` while printing (lines 262, 315, 329) only cuts
  the output short.
- In `add_file_headers.py`:
  - the text of the templates, the printing, and the per-argument prefix
    of the paths tested against the exclude patterns;
  - a write that fails after truncating the file.
- Python's recursion limit in `dfs`.
- Output wording and the DOT layout.

## Plan

1. Termination of `get_build_order` and of the walks, under the same
   fairness as `Termination`.
2. `CompleteIffAcyclic` for acyclic graphs stated without `Reach`, e.g.
   through a topological numbering given as a witness.
3. `HeaderDryRun`: prove that the dry run's count bounds the real run's
   from above, which redoes `HeaderToolProofs`' invariant for the `Dry`
   instance.
