----------------------------- MODULE HeaderTool -----------------------------
(***************************************************************************)
(* add_file_headers.py: main() (lines 223-308) walking its path arguments  *)
(* and process_file (172-221) on every file it reaches.                    *)
(*                                                                         *)
(* A file's text is abstracted to a sequence of blocks: "shebang" (the     *)
(* file's own #! line), "pyshebang" and "shshebang" (the #! lines the      *)
(* python and shell templates start with), "header" (an Avatar copyright   *)
(* header, a few hundred characters holding "Copyright" and "Avatar        *)
(* Project") and "body" (other text, taken to be at least the 1000         *)
(* characters has_copyright_header looks at).  Every block but the last    *)
(* ends with a newline, so a lone "shebang" is a one-line file.            *)
(*                                                                         *)
(* os.walk yields the files of a directory in the order of the file        *)
(* system's listing; the model yields them in any order.                   *)
(***************************************************************************)
EXTENDS Naturals, Sequences, FiniteSets

CONSTANTS
    File,           \* the files of the tree
    Dir,            \* the directories of the tree
    Top,            \* the parent of a top-level directory
    Parent,         \* Parent[d]: the directory holding d, or Top
    DirName,        \* DirName[d]: the last component of d's path
    FileDir,        \* FileDir[f]: the directory holding f
    FileName,       \* FileName[f]: os.path.basename of f
    Suffix,         \* Suffix[f]: Path(f).suffix, as written
    Contains,       \* Contains[f]: the stripped exclude patterns f's path contains
    Binary,         \* the files that are not valid UTF-8
    Unwritable,     \* the files whose open(..., 'w') raises
    InitContent,    \* InitContent[f]: the texts f may hold before the run
    PathArgs,       \* the args.paths lists considered (elements of File \cup Dir)
    ExcludeArgs,    \* the --exclude lists considered (sets of stripped patterns)
    ForceFlags,     \* the values of --force considered
    DryRunFlags     \* the values of --dry-run considered

Block == {"shebang", "pyshebang", "shshebang", "header", "body"}

ASSUME HeaderToolAssumption ==
    /\ Top \notin Dir /\ File \cap Dir = {}
    /\ Parent \in [Dir -> Dir \cup {Top}]
    /\ \A f \in File : FileDir[f] \in Dir
    /\ Binary \subseteq File /\ Unwritable \subseteq File
    /\ \A f \in File : InitContent[f] \subseteq Seq(Block)
    /\ ForceFlags \subseteq BOOLEAN /\ DryRunFlags \subseteq BOOLEAN
    /\ PathArgs \subseteq Seq(File \cup Dir)

VARIABLES
    content,        \* content[f]: the text of f now
    original,       \* original[f]: the text of f before the run
    paths,          \* args.paths
    excludes,       \* args.exclude, stripped of '*'
    force,          \* args.force
    dryRun,         \* args.dry_run
    argIdx,         \* how many entries of args.paths were started
    pending,        \* files of the current path argument not yet reached
    walking,        \* the current argument is a directory being walked
    processed,      \* the counters of lines 250-252
    skipped,
    alreadyHasHeader,
    stage           \* "run", "done" (summary printed) or "crashed"

vars == <<content, original, paths, excludes, force, dryRun, argIdx, pending,
          walking, processed, skipped, alreadyHasHeader, stage>>

-----------------------------------------------------------------------------
(* Lines 22-44: HEADER_TEMPLATES, keyed by file name or suffix.            *)
HEADER_TEMPLATES ==
    [k \in {".c", ".h", ".cpp", ".hpp", ".cc", ".S", ".s", ".asm", ".sh", ".py",
            "Makefile", "makefile"} |->
        CASE k \in {".c", ".h", ".cpp", ".hpp", ".cc"} -> "c_header"
          [] k \in {".S", ".s", ".asm"} -> "asm_header"
          [] k = ".sh" -> "shell_header"
          [] k = ".py" -> "python_header"
          [] OTHER -> "makefile_header"]

(* A name whose suffix is .py or .sh has a non-empty stem before it, so it *)
(* is never one of the keys above, which are either whole names or a dot   *)
(* and a suffix (Path(".py").suffix is empty): such a file gets the python *)
(* or the shell template by its suffix (lines 149-153).                    *)
ASSUME SuffixAssumption ==
    \A f \in File : Suffix[f] \in {".py", ".sh"} => FileName[f] \notin DOMAIN HEADER_TEMPLATES

(* str.lower() on the suffixes the trees of the model use.                 *)
LowerCase(s) ==
    LET upper == [u \in {".C", ".H", ".S", ".PY", ".SH"} |->
                    CASE u = ".C" -> ".c" [] u = ".H" -> ".h" [] u = ".S" -> ".s"
                      [] u = ".PY" -> ".py" [] OTHER -> ".sh"]
    IN  IF s \in DOMAIN upper THEN upper[s] ELSE s

(* get_header_for_file (147-170): the template by name, else by the        *)
(* lower-cased suffix, else none.                                          *)
Template(f) ==
    IF FileName[f] \in DOMAIN HEADER_TEMPLATES THEN HEADER_TEMPLATES[FileName[f]]
    ELSE IF LowerCase(Suffix[f]) \in DOMAIN HEADER_TEMPLATES
         THEN HEADER_TEMPLATES[LowerCase(Suffix[f])]
         ELSE "none"

(* The text of each template (lines 46-141): the python and shell ones     *)
(* start with their own #! line.                                           *)
HeaderText(t) ==
    CASE t = "python_header" -> <<"pyshebang", "header">>
      [] t = "shell_header"  -> <<"shshebang", "header">>
      [] OTHER               -> <<"header">>

(* Mutant: the header is only recognised at the very start of the text.  *)
HasCopyrightHeaderAtStart(c) == c # <<>> /\ c[1] = "header"

(* has_copyright_header (143-145): both words within the first 1000        *)
(* characters, i.e. a header block before any body block.                  *)
HasCopyrightHeader(c) ==
    \E i \in 1..Len(c) : c[i] = "header" /\ \A j \in 1..(i - 1) : c[j] # "body"

(* Mutant: the .sh branch slices off len('#!/usr/bin/env python3\n'), 23   *)
(* characters, which cuts "Copyright" out of the shell template.           *)
NewContentShellSlice(f) ==
    LET c == content[f]
        h == HeaderText(Template(f))
    IN  IF /\ c # <<>>
           /\ c[1] \in {"shebang", "pyshebang", "shshebang"}
           /\ Len(c) > 1
           /\ Suffix[f] \in {".py", ".sh"}
        THEN <<c[1]>> \o (IF Suffix[f] = ".sh" THEN <<"body">> ELSE Tail(h)) \o Tail(c)
        ELSE h \o c

(* Mutant: the shebang branch writes the header and the rest of the file  *)
(* but forgets lines[0].                                                   *)
NewContentDropShebang(f) ==
    LET c == content[f]
        h == HeaderText(Template(f))
    IN  IF /\ c # <<>>
           /\ c[1] \in {"shebang", "pyshebang", "shshebang"}
           /\ Len(c) > 1
           /\ Suffix[f] \in {".py", ".sh"}
        THEN Tail(h) \o Tail(c)
        ELSE h \o c

(* Lines 196-210: the new text.  A file starting with #! and having a      *)
(* second line keeps its first line when its path ends in .py or .sh and   *)
(* gets the template without the template's own #! line after it;          *)
(* otherwise the template is put in front.                                 *)
NewContent(f) ==
    LET c == content[f]
        h == HeaderText(Template(f))
    IN  IF /\ c # <<>>
           /\ c[1] \in {"shebang", "pyshebang", "shshebang"}
           /\ Len(c) > 1
           /\ Suffix[f] \in {".py", ".sh"}
        THEN <<c[1]>> \o Tail(h) \o Tail(c)
        ELSE h \o c

(* Lines 240-243 and 245-248.                                              *)
ExcludeDirs == {"build", ".git", "__pycache__", "clib", "guest"}
DefaultPatterns == {".o", ".bin", ".img", ".gz", ".pyc", ".so", ".a", ".lib", ".dll"}

(* The directories from d up to the top: up[n] is d's n-th parent, and a  *)
(* chain of Parent links is at most Cardinality(Dir) long.                 *)
Ancestors(d) ==
    LET up[n \in Nat] == IF n = 0 THEN d
                         ELSE IF up[n - 1] \in Dir THEN Parent[up[n - 1]] ELSE Top
    IN  {up[n] : n \in 0..Cardinality(Dir)} \ {Top}

(* Mutant: the walk yields the subdirectories too, as if the loop of line *)
(* 277 ran over dirs + files.                                              *)
WalkWithDirs(a) ==
    {f \in File : /\ a \in Ancestors(FileDir[f])
                  /\ \A e \in Ancestors(FileDir[f]) :
                        (e # a /\ a \in Ancestors(e)) => DirName[e] \notin ExcludeDirs}
    \cup {e \in Dir : e # a /\ a \in Ancestors(e)}

(* Lines 268-270: os.walk(a) with the excluded names pruned from dirs: the *)
(* files below a whose directories strictly below a are not excluded (the *)
(* argument itself is never tested).                                       *)
Walk(a) ==
    {f \in File : /\ a \in Ancestors(FileDir[f])
                  /\ \A e \in Ancestors(FileDir[f]) :
                        (e # a /\ a \in Ancestors(e)) => DirName[e] \notin ExcludeDirs}

(* Lines 281-283: endswith(p) or p in filepath, for every stripped pattern.*)
PatternHit(f) == Contains[f] \cap (DefaultPatterns \cup excludes) # {}

(* The copyright headers a text holds.                                     *)
HeaderCount(c) == Cardinality({i \in 1..Len(c) : c[i] = "header"})

-----------------------------------------------------------------------------
Init ==
    /\ content \in [File -> UNION {InitContent[f] : f \in File}]
    /\ \A f \in File : content[f] \in InitContent[f]
    /\ original = content
    /\ paths \in PathArgs
    /\ excludes \in ExcludeArgs
    /\ force \in ForceFlags
    /\ dryRun \in DryRunFlags
    /\ argIdx = 0
    /\ pending = {}
    /\ walking = FALSE
    /\ processed = 0 /\ skipped = 0 /\ alreadyHasHeader = 0
    /\ stage = "run"

(* Lines 258-268: the next path argument.  A file is processed directly;   *)
(* a directory is walked; anything else is passed over silently.           *)
NextPath ==
    /\ stage = "run"
    /\ pending = {}
    /\ argIdx < Len(paths)
    /\ LET a == paths[argIdx + 1] IN
          /\ pending' = CASE a \in File -> {a} [] a \in Dir -> Walk(a) [] OTHER -> {}
          /\ walking' = (a \in Dir)
    /\ argIdx' = argIdx + 1
    /\ UNCHANGED <<content, original, paths, excludes, force, dryRun,
                   processed, skipped, alreadyHasHeader, stage>>

(* Lines 280-287: a walked file matching an exclude pattern is counted as  *)
(* skipped and not opened.                                                 *)
SkipExcluded ==
    /\ stage = "run"
    /\ walking
    /\ \E f \in pending :
        /\ PatternHit(f)
        /\ pending' = pending \ {f}
        /\ skipped' = skipped + 1
    /\ UNCHANGED <<content, original, paths, excludes, force, dryRun, argIdx,
                   walking, processed, alreadyHasHeader, stage>>

(* process_file (172-221): its result, tested in the code's order.  A    *)
(* file that is not UTF-8 is "binary"; one with a header is "has_header"   *)
(* unless --force; one without a template is "no_template"; under          *)
(* --dry-run it is "would_add"; otherwise the new text is written and it  *)
(* is "added", unless open(..., 'w') raises an OSError ("write_error"),    *)
(* which nobody catches.                                                   *)
ProcessResult(f) ==
    IF f \in Binary THEN "binary"
    ELSE IF HasCopyrightHeader(content[f]) /\ ~force THEN "has_header"
    ELSE IF Template(f) = "none" THEN "no_template"
    ELSE IF dryRun THEN "would_add"
    ELSE IF f \in Unwritable THEN "write_error"
    ELSE "added"

(* Lines 259-266 and 289-295: process_file on a reached file and the       *)
(* counter its result selects; a write error ends the run with a traceback *)
(* and no summary.                                                         *)
ProcessFile ==
    /\ stage = "run"
    /\ \E f \in pending :
        LET r == ProcessResult(f) IN
        /\ walking => ~PatternHit(f)
        /\ pending' = pending \ {f}
        /\ content' = IF r = "added" THEN [content EXCEPT ![f] = NewContent(f)]
                      ELSE content
        /\ processed' = IF r \in {"added", "would_add"} THEN processed + 1
                        ELSE processed
        /\ alreadyHasHeader' = IF r = "has_header" THEN alreadyHasHeader + 1
                               ELSE alreadyHasHeader
        /\ skipped' = IF r \in {"binary", "no_template"} THEN skipped + 1 ELSE skipped
        /\ stage' = IF r = "write_error" THEN "crashed" ELSE stage
    /\ UNCHANGED <<original, paths, excludes, force, dryRun, argIdx, walking>>

(* Lines 297-308: every argument is done; the summary is printed.          *)
Summary ==
    /\ stage = "run"
    /\ pending = {}
    /\ argIdx = Len(paths)
    /\ stage' = "done"
    /\ UNCHANGED <<content, original, paths, excludes, force, dryRun, argIdx,
                   pending, walking, processed, skipped, alreadyHasHeader>>

(* The process has exited.                                                 *)
Exited == stage \in {"done", "crashed"} /\ UNCHANGED vars

Next == NextPath \/ SkipExcluded \/ ProcessFile \/ Summary \/ Exited

Spec == Init /\ [][Next]_vars

-----------------------------------------------------------------------------
TypeOK ==
    /\ content \in [File -> Seq(Block)]
    /\ original \in [File -> Seq(Block)]
    /\ paths \in Seq(File \cup Dir) /\ argIdx \in 0..Len(paths)
    /\ pending \subseteq File /\ walking \in BOOLEAN
    /\ force \in BOOLEAN /\ dryRun \in BOOLEAN
    /\ processed \in Nat /\ skipped \in Nat /\ alreadyHasHeader \in Nat
    /\ stage \in {"run", "done", "crashed"}

(* Running the tool never leaves a file with two Avatar headers: a file    *)
(* that had none gets exactly one, however often the path arguments reach  *)
(* it, and a file that had one keeps it (--force, whose help text reads    *)
(* "Overwrite existing headers", included).                                *)
HeaderOnce ==
    \A f \in File :
        HeaderCount(content[f]) <= IF HeaderCount(original[f]) = 0 THEN 1
                                   ELSE HeaderCount(original[f])

(* Line 200, "Keep shebang, add header after": a script that started with  *)
(* its own #! line still starts with it, so its interpreter is unchanged.  *)
ShebangKept ==
    \A f \in File :
        (original[f] # <<>> /\ original[f][1] = "shebang") =>
            (content[f] # <<>> /\ content[f][1] = "shebang")

(* Every file a directory argument reaches outside the excluded            *)
(* directories that has a template, is text and has no header yet has one *)
(* once the summary of a real run is printed.                              *)
WalkedFilesGetHeaders ==
    (stage = "done" /\ ~dryRun) =>
        \A i \in 1..Len(paths) :
            paths[i] \in Dir =>
                \A f \in Walk(paths[i]) :
                    (Template(f) # "none" /\ f \notin Binary) =>
                        HasCopyrightHeader(content[f])

(* The text s with the n blocks after its first i taken out.              *)
Removed(s, i, n) == SubSeq(s, 1, i) \o SubSeq(s, i + n + 1, Len(s))

(* process_file only ever inserts: at every step, each file's old text is *)
(* its new text with one run of blocks taken out, so no line of the file   *)
(* is lost or moved, whatever the shebang handling of lines 196-210 does.  *)
TextKept ==
    [][\A f \in File :
          \E i \in 0..Len(content'[f]), n \in 0..Len(content'[f]) :
              Removed(content'[f], i, n) = content[f]]_vars

=============================================================================
