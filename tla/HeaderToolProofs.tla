-------------------------- MODULE HeaderToolProofs --------------------------
(***************************************************************************)
(* Proofs about add_file_headers.py (module HeaderTool) for every tree,    *)
(* every content of its files and every command line: the type            *)
(* invariant, that a run without --force never leaves a file with two      *)
(* Avatar headers, and that every walked file that has a template gets a   *)
(* header in a real run that reaches its summary.                          *)
(***************************************************************************)
EXTENDS HeaderTool, FiniteSetTheorems, SequenceTheorems, TLAPS

(* A text holds no Avatar header block.                                    *)
NoHeader(c) == \A i \in 1..Len(c) : c[i] # "header"

(* The header a text holds, if any, lies within the 1000 characters        *)
(* has_copyright_header (line 145) reads: before any body block.           *)
HeaderInWindow(c) == ~NoHeader(c) => HasCopyrightHeader(c)

(* Before the run, every file's header lies within that window.            *)
OriginalHeadersInWindow == \A f \in File : HeaderInWindow(original[f])

(* No file a directory argument walks to that has a template and is text  *)
(* matches an exclude pattern (the substring test of lines 281-283).       *)
WalkedFilesNotExcluded ==
    \A i \in 1..Len(paths) :
        paths[i] \in Dir =>
            \A f \in Walk(paths[i]) :
                (Template(f) # "none" /\ f \notin Binary) => ~PatternHit(f)

(* A text with exactly one header, which has_copyright_header sees.        *)
OneHeader(c) == HasCopyrightHeader(c) /\ HeaderCount(c) = 1

(* Without --force, a file is either as it was or it had no header and    *)
(* has exactly one now.                                                    *)
HeaderOnceInv ==
    (~force /\ OriginalHeadersInWindow) =>
        \A f \in File : \/ content[f] = original[f]
                        \/ NoHeader(original[f]) /\ OneHeader(content[f])

(* A file needs no more work: it has a header, or process_file or the      *)
(* exclude patterns leave it alone whatever its text.                      *)
Handled(f) ==
    HasCopyrightHeader(content[f]) \/ f \in Binary \/ Template(f) = "none"
    \/ PatternHit(f)

(* In a real run that has not crashed, every file the directory arguments  *)
(* started so far reach is still pending or needs no more work.            *)
WalkInv ==
    (~dryRun /\ stage # "crashed") =>
        \A i \in 1..argIdx :
            paths[i] \in Dir => \A f \in Walk(paths[i]) : f \in pending \/ Handled(f)

(* The summary is printed only once every argument is done.              *)
DoneInv == stage = "done" => pending = {} /\ argIdx = Len(paths)

(* The inductive invariant behind HeaderOnce and WalkedFilesGetHeaders.    *)
IInv == TypeOK /\ HeaderOnceInv /\ WalkInv /\ DoneInv

-----------------------------------------------------------------------------
(* Every template text is a sequence of blocks.                            *)
LEMMA HeaderTextType ==
    ASSUME NEW t
    PROVE  HeaderText(t) \in {<<"pyshebang", "header">>, <<"shshebang", "header">>,
                              <<"header">>}
BY DEF HeaderText

(* The text process_file writes is a sequence of blocks.                   *)
LEMMA NewContentType ==
    ASSUME NEW f \in File, content[f] \in Seq(Block)
    PROVE  NewContent(f) \in Seq(Block)
<1>1. HeaderText(Template(f)) \in Seq(Block)
  <2>1. /\ <<"pyshebang", "header">> \in Seq(Block)
        /\ <<"shshebang", "header">> \in Seq(Block)
        /\ <<"header">> \in Seq(Block)
    BY DEF Block
  <2>. QED
    BY <2>1, HeaderTextType
<1>2. CASE content[f] # <<>>
  <2>1. <<content[f][1]>> \in Seq(Block)
    BY <1>2
  <2>2. Tail(HeaderText(Template(f))) \in Seq(Block)
    <3>1. /\ Tail(<<"pyshebang", "header">>) \in Seq(Block)
          /\ Tail(<<"shshebang", "header">>) \in Seq(Block)
          /\ Tail(<<"header">>) \in Seq(Block)
      BY DEF Block
    <3>. QED
      BY <3>1, HeaderTextType
  <2>3. Tail(content[f]) \in Seq(Block)
    BY <1>2
  <2>. QED
    BY <1>1, <2>1, <2>2, <2>3 DEF NewContent
<1>3. CASE content[f] = <<>>
  BY <1>1, <1>3 DEF NewContent
<1>. QED
  BY <1>2, <1>3

(* A text made of a prefix whose only header block is at k, with nothing *)
(* but #! lines before it, followed by any text, has a header that         *)
(* has_copyright_header sees; if the rest has no header, it has one.       *)
LEMMA PrefixHeader ==
    ASSUME NEW p \in Seq(Block), NEW q \in Seq(Block), NEW k \in 1..Len(p),
           p[k] = "header",
           \A j \in 1..Len(p) : j # k => p[j] \notin {"header", "body"}
    PROVE  /\ HasCopyrightHeader(p \o q)
           /\ NoHeader(q) => HeaderCount(p \o q) = 1
<1>1. HasCopyrightHeader(p \o q)
  <2>1. k \in 1..Len(p \o q) /\ (p \o q)[k] = "header"
    OBVIOUS
  <2>2. \A j \in 1..(k - 1) : (p \o q)[j] # "body"
    OBVIOUS
  <2>. QED
    BY <2>1, <2>2 DEF HasCopyrightHeader
<1>2. ASSUME NoHeader(q) PROVE HeaderCount(p \o q) = 1
  <2>1. {i \in 1..Len(p \o q) : (p \o q)[i] = "header"} = {k}
    BY <1>2 DEF NoHeader
  <2>. QED
    BY <2>1, FS_Singleton DEF HeaderCount
<1>. QED
  BY <1>1, <1>2

(* The template texts, each with the position of its header.               *)
LEMMA TemplatePrefix ==
    ASSUME NEW t
    PROVE  LET h == HeaderText(t) IN
           /\ h \in Seq(Block)
           /\ Len(h) \in 1..Len(h) /\ h[Len(h)] = "header"
           /\ \A j \in 1..Len(h) : j # Len(h) => h[j] \notin {"header", "body"}
<1>1. CASE HeaderText(t) = <<"pyshebang", "header">>
  BY <1>1 DEF Block
<1>2. CASE HeaderText(t) = <<"shshebang", "header">>
  BY <1>2 DEF Block
<1>3. CASE HeaderText(t) = <<"header">>
  BY <1>3 DEF Block
<1>. QED
  BY <1>1, <1>2, <1>3, HeaderTextType

(* A file that starts with #!, has a second line and ends in .py or .sh    *)
(* gets the python or the shell template (lines 149-153).                  *)
LEMMA ScriptTemplate ==
    ASSUME NEW f \in File, Suffix[f] \in {".py", ".sh"}
    PROVE  Tail(HeaderText(Template(f))) = <<"header">>
<1>1. FileName[f] \notin DOMAIN HEADER_TEMPLATES
  BY SuffixAssumption
<1>2. LowerCase(Suffix[f]) = Suffix[f]
  BY DEF LowerCase
<1>3. Template(f) \in {"python_header", "shell_header"}
  BY <1>1, <1>2 DEF Template, HEADER_TEMPLATES
<1>. QED
  BY <1>3 DEF HeaderText

(* The condition of line 197-201 under which the file keeps its #! line.  *)
ScriptBranch(f) ==
    LET c == content[f] IN
    /\ c # <<>>
    /\ c[1] \in {"shebang", "pyshebang", "shshebang"}
    /\ Len(c) > 1
    /\ Suffix[f] \in {".py", ".sh"}

(* The two shapes of process_file's new text: the #! line, the header and *)
(* the rest of the file; or the template in front of the whole file.       *)
LEMMA NewContentShape ==
    ASSUME NEW f \in File, content[f] \in Seq(Block)
    PROVE  /\ ScriptBranch(f) =>
                 NewContent(f) = <<content[f][1], "header">> \o Tail(content[f])
           /\ ~ScriptBranch(f) => NewContent(f) = HeaderText(Template(f)) \o content[f]
<1> DEFINE c == content[f]
           h == HeaderText(Template(f))
<1>1. ASSUME ScriptBranch(f)
      PROVE  NewContent(f) = <<c[1], "header">> \o Tail(c)
  <2>1. Tail(h) = <<"header">>
    BY <1>1, ScriptTemplate DEF ScriptBranch
  <2>2. NewContent(f) = <<c[1]>> \o Tail(h) \o Tail(c)
    BY <1>1 DEF NewContent, ScriptBranch
  <2>3. <<c[1]>> \o <<"header">> = <<c[1], "header">>
    <3>1. \A x \in Block : <<x>> \o <<"header">> = <<x, "header">>
      <4> SUFFICES ASSUME NEW x \in Block
                   PROVE  <<x>> \o <<"header">> = <<x, "header">>
        OBVIOUS
      <4>1. /\ Len(<<x>> \o <<"header">>) = 2
            /\ (<<x>> \o <<"header">>)[1] = x
            /\ (<<x>> \o <<"header">>)[2] = "header"
            /\ <<x>> \o <<"header">> \in Seq(Block)
            /\ <<x, "header">> \in Seq(Block)
        BY DEF Block
      <4>2. /\ Len(<<x>> \o <<"header">>) = Len(<<x, "header">>)
            /\ \A i \in 1..Len(<<x>> \o <<"header">>) :
                  (<<x>> \o <<"header">>)[i] = <<x, "header">>[i]
        BY <4>1
      <4>. QED
        BY <4>1, <4>2, SeqEqual, Zenon
    <3>. QED
      BY <1>1, <3>1 DEF ScriptBranch
  <2>. QED
    BY <2>1, <2>2, <2>3
<1>2. ASSUME ~ScriptBranch(f)
      PROVE  NewContent(f) = h \o c
  BY <1>2 DEF NewContent, ScriptBranch
<1>. QED
  BY <1>1, <1>2

(* process_file's new text has a header has_copyright_header sees, and    *)
(* exactly one if the old text had none.                                   *)
LEMMA NewContentHeader ==
    ASSUME NEW f \in File, content[f] \in Seq(Block)
    PROVE  /\ HasCopyrightHeader(NewContent(f))
           /\ NoHeader(content[f]) => HeaderCount(NewContent(f)) = 1
<1> DEFINE c == content[f]
           h == HeaderText(Template(f))
<1>1. CASE ScriptBranch(f)
  <2> DEFINE p == <<c[1], "header">>
  <2>1. NewContent(f) = p \o Tail(c)
    BY <1>1, NewContentShape
  <2>2. /\ p \in Seq(Block) /\ Tail(c) \in Seq(Block)
        /\ 2 \in 1..Len(p) /\ p[2] = "header"
        /\ \A j \in 1..Len(p) : j # 2 => p[j] \notin {"header", "body"}
    BY <1>1 DEF Block, ScriptBranch
  <2>3. NoHeader(c) => NoHeader(Tail(c))
    BY <1>1 DEF NoHeader, ScriptBranch
  <2>4. /\ HasCopyrightHeader(p \o Tail(c))
        /\ NoHeader(Tail(c)) => HeaderCount(p \o Tail(c)) = 1
    BY <2>2, PrefixHeader
  <2>. QED
    BY <2>1, <2>3, <2>4
<1>2. CASE ~ScriptBranch(f)
  <2>1. NewContent(f) = h \o c
    BY <1>2, NewContentShape
  <2>2. /\ h \in Seq(Block)
        /\ Len(h) \in 1..Len(h) /\ h[Len(h)] = "header"
        /\ \A j \in 1..Len(h) : j # Len(h) => h[j] \notin {"header", "body"}
    BY TemplatePrefix
  <2>3. /\ HasCopyrightHeader(h \o c)
        /\ NoHeader(c) => HeaderCount(h \o c) = 1
    BY <2>2, PrefixHeader
  <2>. QED
    BY <2>1, <2>3
<1>. QED
  BY <1>1, <1>2

(* The type invariant holds initially.                                     *)
LEMMA InitTypeOK == Init => TypeOK
<1> SUFFICES ASSUME Init PROVE TypeOK
  OBVIOUS
<1>1. content \in [File -> Seq(Block)]
  BY HeaderToolAssumption DEF Init
<1>2. paths \in Seq(File \cup Dir)
  BY HeaderToolAssumption DEF Init
<1>3. force \in BOOLEAN /\ dryRun \in BOOLEAN
  BY HeaderToolAssumption DEF Init
<1>4. argIdx \in 0..Len(paths)
  BY <1>2 DEF Init
<1>. QED
  BY <1>1, <1>2, <1>3, <1>4 DEF Init, TypeOK

(* Every step keeps the type invariant.                                    *)
LEMMA NextTypeOK == TypeOK /\ [Next]_vars => TypeOK'
<1> SUFFICES ASSUME TypeOK, [Next]_vars PROVE TypeOK'
  OBVIOUS
<1>1. CASE NextPath
  <2>1. paths[argIdx + 1] \in File \cup Dir
    BY <1>1 DEF NextPath, TypeOK
  <2>2. Walk(paths[argIdx + 1]) \subseteq File
    BY DEF Walk
  <2>. QED
    BY <1>1, <2>1, <2>2, HeaderToolAssumption DEF NextPath, TypeOK
<1>2. CASE SkipExcluded
  BY <1>2 DEF SkipExcluded, TypeOK
<1>3. CASE ProcessFile
  <2>1. PICK f \in pending :
          /\ pending' = pending \ {f}
          /\ content' = IF ProcessResult(f) = "added"
                        THEN [content EXCEPT ![f] = NewContent(f)] ELSE content
          /\ processed' \in {processed, processed + 1}
          /\ alreadyHasHeader' \in {alreadyHasHeader, alreadyHasHeader + 1}
          /\ skipped' \in {skipped, skipped + 1}
          /\ stage' \in {stage, "crashed"}
    BY <1>3 DEF ProcessFile
  <2>2. NewContent(f) \in Seq(Block)
    BY NewContentType DEF TypeOK
  <2>. QED
    BY <1>3, <2>1, <2>2 DEF ProcessFile, TypeOK
<1>4. CASE Summary
  BY <1>4 DEF Summary, TypeOK
<1>5. CASE Exited \/ UNCHANGED vars
  BY <1>5 DEF Exited, vars, TypeOK
<1>. QED
  BY <1>1, <1>2, <1>3, <1>4, <1>5 DEF Next

(* The type invariant of add_file_headers.py's state holds in every        *)
(* reachable state, for every tree and command line.                       *)
THEOREM TypeCorrect == Spec => []TypeOK
BY InitTypeOK, NextTypeOK, PTL DEF Spec

-----------------------------------------------------------------------------
(* What process_file's result says of the file, in the code's order.       *)
LEMMA ResultFacts ==
    ASSUME NEW f
    PROVE  /\ ProcessResult(f) = "added" =>
                 /\ f \notin Binary /\ Template(f) # "none" /\ ~dryRun
                 /\ ~HasCopyrightHeader(content[f]) \/ force
           /\ (~dryRun /\ ProcessResult(f) # "write_error") =>
                 \/ ProcessResult(f) = "added"
                 \/ f \in Binary \/ HasCopyrightHeader(content[f])
                 \/ Template(f) = "none"
BY DEF ProcessResult

(* The steps of process_file, named once for the proofs below.             *)
LEMMA ProcessFileStep ==
    ASSUME ProcessFile
    PROVE  \E f \in pending :
             /\ pending' = pending \ {f}
             /\ content' = IF ProcessResult(f) = "added"
                           THEN [content EXCEPT ![f] = NewContent(f)] ELSE content
             /\ stage' = IF ProcessResult(f) = "write_error" THEN "crashed" ELSE stage
             /\ stage = "run"
             /\ UNCHANGED <<original, paths, excludes, force, dryRun, argIdx>>
BY DEF ProcessFile

(* The initial states satisfy the inductive invariant.                     *)
LEMMA InitIInv == Init => IInv
<1> SUFFICES ASSUME Init PROVE IInv
  OBVIOUS
<1>. QED
  BY InitTypeOK DEF Init, IInv, HeaderOnceInv, WalkInv, DoneInv

(* Without --force a file is written only while it has no header and it    *)
(* then gets exactly one: HeaderOnceInv is kept by every step.             *)
LEMMA NextHeaderOnce == IInv /\ [Next]_vars => HeaderOnceInv'
<1> SUFFICES ASSUME IInv, [Next]_vars, ~force', OriginalHeadersInWindow'
             PROVE  \A g \in File : \/ content'[g] = original'[g]
                                    \/ NoHeader(original'[g]) /\ OneHeader(content'[g])
  BY DEF HeaderOnceInv
<1>1. CASE ProcessFile
  <2>1. PICK f \in pending :
             /\ pending' = pending \ {f}
             /\ content' = IF ProcessResult(f) = "added"
                           THEN [content EXCEPT ![f] = NewContent(f)] ELSE content
             /\ UNCHANGED <<original, force>>
    BY <1>1, ProcessFileStep
  <2>2. /\ ~force /\ OriginalHeadersInWindow
        /\ \A g \in File : \/ content[g] = original[g]
                           \/ NoHeader(original[g]) /\ OneHeader(content[g])
    BY <2>1 DEF IInv, HeaderOnceInv, OriginalHeadersInWindow
  <2>3. CASE ProcessResult(f) # "added"
    BY <2>1, <2>2, <2>3
  <2>4. CASE ProcessResult(f) = "added"
    <3>1. f \in File /\ content[f] \in Seq(Block)
      BY DEF IInv, TypeOK
    <3>2. ~HasCopyrightHeader(content[f]) /\ Template(f) # "none"
      BY <2>2, <2>4, ResultFacts
    <3>3. content[f] = original[f]
      BY <2>2, <3>1, <3>2 DEF OneHeader
    <3>4. NoHeader(original[f])
      BY <2>2, <3>1, <3>2, <3>3 DEF OriginalHeadersInWindow, HeaderInWindow
    <3>5. OneHeader(NewContent(f))
      BY <3>1, <3>3, <3>4, NewContentHeader DEF OneHeader
    <3>6. content' = [content EXCEPT ![f] = NewContent(f)]
      BY <2>1, <2>4
    <3>. QED
      BY <2>1, <2>2, <3>1, <3>4, <3>5, <3>6 DEF IInv, TypeOK
  <2>. QED
    BY <2>3, <2>4
<1>2. CASE ~ProcessFile
  <2>1. UNCHANGED <<content, original, force>>
    BY <1>2 DEF Next, NextPath, SkipExcluded, Summary, Exited, vars
  <2>. QED
    BY <2>1 DEF IInv, HeaderOnceInv, OriginalHeadersInWindow, HeaderInWindow
<1>. QED
  BY <1>1, <1>2

(* A file that needs no more work keeps needing none while its text and   *)
(* the exclude patterns stay as they are.                                  *)
LEMMA HandledKept ==
    ASSUME NEW f, content'[f] = content[f], excludes' = excludes, Handled(f)
    PROVE  Handled(f)'
BY DEF Handled, PatternHit

(* The summary is printed only after the last argument: DoneInv is kept.   *)
LEMMA NextDone == IInv /\ [Next]_vars => DoneInv'
<1> SUFFICES ASSUME IInv, [Next]_vars PROVE DoneInv'
  OBVIOUS
<1>1. CASE ProcessFile
  BY <1>1, ProcessFileStep DEF DoneInv
<1>. QED
  BY <1>1 DEF Next, NextPath, SkipExcluded, Summary, Exited, vars, IInv, DoneInv

(* Starting an argument finds nothing pending, so every file of the        *)
(* arguments before it needs no more work, and a directory argument makes  *)
(* all of its walk pending.                                                *)
LEMMA NextPathWalk == IInv /\ NextPath => WalkInv'
<1> SUFFICES ASSUME IInv, NextPath, ~dryRun', stage' # "crashed",
                    NEW i \in 1..argIdx', paths'[i] \in Dir, NEW f \in Walk(paths'[i])
             PROVE  f \in pending' \/ Handled(f)'
  BY DEF WalkInv
<1>1. argIdx' = argIdx + 1 /\ argIdx \in Nat /\ pending = {}
      /\ UNCHANGED <<content, paths, excludes, dryRun, stage>>
  BY DEF NextPath, IInv, TypeOK
<1>2. CASE i = argIdx + 1
  <2>1. paths[i] \notin File
    BY <1>1, <1>2, HeaderToolAssumption
  <2>. QED
    BY <1>1, <1>2, <2>1 DEF NextPath
<1>3. CASE i \in 1..argIdx
  <2>1. Handled(f)
    BY <1>1, <1>3 DEF IInv, WalkInv
  <2>. QED
    BY <1>1, <2>1, HandledKept
<1>. QED
  BY <1>1, <1>2, <1>3

(* process_file leaves the file it took needing no more work, unless the   *)
(* run is a dry run or has crashed.                                        *)
LEMMA ProcessFileWalk == IInv /\ ProcessFile => WalkInv'
<1> SUFFICES ASSUME IInv, ProcessFile, ~dryRun', stage' # "crashed",
                    NEW i \in 1..argIdx', paths'[i] \in Dir, NEW g \in Walk(paths'[i])
             PROVE  g \in pending' \/ Handled(g)'
  BY DEF WalkInv
<1>1. PICK f \in pending :
           /\ pending' = pending \ {f}
           /\ content' = IF ProcessResult(f) = "added"
                         THEN [content EXCEPT ![f] = NewContent(f)] ELSE content
           /\ stage' = IF ProcessResult(f) = "write_error" THEN "crashed" ELSE stage
           /\ stage = "run"
           /\ UNCHANGED <<original, paths, excludes, force, dryRun, argIdx>>
  BY ProcessFileStep
<1>2. g \in pending \/ Handled(g)
  BY <1>1 DEF IInv, WalkInv
<1>3. f \in File /\ content[f] \in Seq(Block) /\ content \in [File -> Seq(Block)]
  BY <1>1 DEF IInv, TypeOK
<1>4. CASE g # f
  <2>1. content'[g] = content[g]
    BY <1>1, <1>3, <1>4
  <2>. QED
    BY <1>1, <1>2, <1>4, <2>1, HandledKept
<1>5. CASE g = f
  <2>1. CASE ProcessResult(f) = "added"
    <3>1. content'[f] = NewContent(f)
      BY <1>1, <1>3, <2>1
    <3>. QED
      BY <1>3, <1>5, <3>1, NewContentHeader DEF Handled
  <2>2. CASE ProcessResult(f) # "added"
    <3>1. ProcessResult(f) # "write_error" /\ ~dryRun
      BY <1>1
    <3>2. f \in Binary \/ HasCopyrightHeader(content[f]) \/ Template(f) = "none"
      BY <2>2, <3>1, ResultFacts
    <3>. QED
      BY <1>1, <1>5, <2>2, <3>2 DEF Handled, PatternHit
  <2>. QED
    BY <2>1, <2>2
<1>. QED
  BY <1>4, <1>5

(* Every step keeps WalkInv.                                               *)
LEMMA NextWalk == IInv /\ [Next]_vars => WalkInv'
<1> SUFFICES ASSUME IInv, [Next]_vars PROVE WalkInv'
  OBVIOUS
<1>1. CASE NextPath
  BY <1>1, NextPathWalk
<1>2. CASE ProcessFile
  BY <1>2, ProcessFileWalk
<1>3. CASE SkipExcluded
  <2> SUFFICES ASSUME ~dryRun', stage' # "crashed",
                      NEW i \in 1..argIdx', paths'[i] \in Dir, NEW g \in Walk(paths'[i])
               PROVE  g \in pending' \/ Handled(g)'
    BY DEF WalkInv
  <2>1. PICK f \in pending : PatternHit(f) /\ pending' = pending \ {f}
    BY <1>3 DEF SkipExcluded
  <2>2. UNCHANGED <<content, paths, excludes, dryRun, argIdx, stage>>
    BY <1>3 DEF SkipExcluded
  <2>3. g \in pending \/ Handled(g)
    BY <2>2 DEF IInv, WalkInv
  <2>. QED
    BY <2>1, <2>2, <2>3, HandledKept DEF Handled, PatternHit
<1>4. CASE Summary \/ Exited \/ UNCHANGED vars
  <2>1. UNCHANGED <<content, paths, excludes, dryRun, argIdx, pending>>
    BY <1>4 DEF Summary, Exited, vars
  <2>2. stage \in {"run", "done", "crashed"}
    BY DEF IInv, TypeOK
  <2>. QED
    BY <1>4, <2>1, <2>2, HandledKept DEF Summary, Exited, vars, IInv, WalkInv
<1>. QED
  BY <1>1, <1>2, <1>3, <1>4 DEF Next

(* Every step keeps the inductive invariant.                               *)
LEMMA NextIInv == IInv /\ [Next]_vars => IInv'
BY NextTypeOK, NextHeaderOnce, NextWalk, NextDone DEF IInv

(* The inductive invariant holds in every reachable state.                 *)
LEMMA IInvHolds == Spec => []IInv
BY InitIInv, NextIInv, PTL DEF Spec

(* HeaderOnce: a run of add_file_headers.py without --force, on files       *)
(* whose headers lie within the first 1000 characters, leaves no file with *)
(* two Avatar headers: process_file writes only a text in which            *)
(* has_copyright_header finds none, and the text it writes has exactly    *)
(* one, which a second visit of the same file then finds.                  *)
THEOREM HeaderOnceHolds ==
    Spec => [](~force /\ OriginalHeadersInWindow => HeaderOnce)
<1>1. IInv => (~force /\ OriginalHeadersInWindow => HeaderOnce)
  <2> SUFFICES ASSUME IInv, ~force, OriginalHeadersInWindow, NEW f \in File
               PROVE  HeaderCount(content[f]) <= IF HeaderCount(original[f]) = 0 THEN 1
                                                 ELSE HeaderCount(original[f])
    BY DEF HeaderOnce
  <2>1. \A c \in Seq(Block) : HeaderCount(c) \in Nat
    <3> SUFFICES ASSUME NEW c \in Seq(Block) PROVE HeaderCount(c) \in Nat
      OBVIOUS
    <3>1. IsFiniteSet({i \in 1..Len(c) : c[i] = "header"})
      BY FS_Interval, FS_Subset
    <3>. QED
      BY <3>1, FS_CardinalityType DEF HeaderCount
  <2>2. content[f] \in Seq(Block) /\ original[f] \in Seq(Block)
    BY DEF IInv, TypeOK
  <2>3. CASE content[f] = original[f]
    BY <2>1, <2>2, <2>3
  <2>4. CASE NoHeader(original[f]) /\ OneHeader(content[f])
    <3>1. {i \in 1..Len(original[f]) : original[f][i] = "header"} = {}
      BY <2>4 DEF NoHeader
    <3>2. HeaderCount(original[f]) = 0
      BY <3>1, FS_EmptySet DEF HeaderCount
    <3>. QED
      BY <2>4, <3>2 DEF OneHeader
  <2>. QED
    BY <2>3, <2>4 DEF IInv, HeaderOnceInv
<1>. QED
  BY <1>1, IInvHolds, PTL

(* WalkedFilesGetHeaders: once a real run prints its summary, every file a *)
(* directory argument walked to that is text and has a template has a     *)
(* header, unless an exclude pattern (lines 281-283) matched it: the loop  *)
(* takes every walked file in turn, and a file once given a header keeps   *)
(* one.                                                                    *)
THEOREM WalkedFilesGetHeadersHolds ==
    Spec => [](WalkedFilesNotExcluded => WalkedFilesGetHeaders)
<1>1. IInv => (WalkedFilesNotExcluded => WalkedFilesGetHeaders)
  <2> SUFFICES ASSUME IInv, WalkedFilesNotExcluded, stage = "done", ~dryRun,
                      NEW i \in 1..Len(paths), paths[i] \in Dir,
                      NEW f \in Walk(paths[i]), Template(f) # "none", f \notin Binary
               PROVE  HasCopyrightHeader(content[f])
    BY DEF WalkedFilesGetHeaders
  <2>1. pending = {} /\ argIdx = Len(paths)
    BY DEF IInv, DoneInv
  <2>2. Handled(f)
    BY <2>1 DEF IInv, WalkInv
  <2>3. ~PatternHit(f)
    BY DEF WalkedFilesNotExcluded
  <2>. QED
    BY <2>2, <2>3 DEF Handled
<1>. QED
  BY <1>1, IInvHolds, PTL

-----------------------------------------------------------------------------
(* Taking nothing out of a text leaves it as it is.                        *)
LEMMA RemovedNothing ==
    ASSUME NEW q \in Seq(Block)
    PROVE  Removed(q, Len(q), 0) = q
<1>1. SubSeq(q, 1, Len(q)) = q /\ SubSeq(q, Len(q) + 1, Len(q)) = <<>>
  OBVIOUS
<1>. QED
  BY <1>1 DEF Removed

(* Taking a front part out of p \o q leaves q.                             *)
LEMMA RemovedFront ==
    ASSUME NEW p \in Seq(Block), NEW q \in Seq(Block)
    PROVE  Removed(p \o q, 0, Len(p)) = q
<1> DEFINE r == SubSeq(p \o q, Len(p) + 1, Len(p \o q))
<1>1. /\ r \in Seq(Block) /\ Len(r) = Len(q)
      /\ \A i \in 1..Len(r) : r[i] = q[i]
  OBVIOUS
<1>2. r = q
  BY <1>1, SeqEqual, Zenon
<1>3. SubSeq(p \o q, 1, 0) = <<>>
  OBVIOUS
<1>. QED
  BY <1>2, <1>3 DEF Removed

(* The arithmetic of dropping the first two of m + 1 blocks.              *)
LEMMA DropTwoLen ==
    ASSUME NEW m \in Nat, m >= 1, NEW L, L = IF 3 <= m + 1 THEN (m + 1) - 3 + 1 ELSE 0
    PROVE  L = m - 1 /\ (m + 1) - 3 + 1 = m - 1
OBVIOUS

(* A text is its first block followed by the rest of it.                  *)
LEMMA FirstAndRest ==
    ASSUME NEW q \in Seq(Block), NEW t \in Seq(Block), Len(q) >= 1,
           Len(t) = Len(q) - 1, \A k \in 1..Len(q) - 1 : t[k] = q[k + 1]
    PROVE  <<q[1]>> \o t = q
<1>1. <<q[1]>> \in Seq(Block)
  OBVIOUS
<1>2. /\ <<q[1]>> \o t \in Seq(Block)
      /\ Len(<<q[1]>> \o t) = 1 + Len(t)
      /\ \A i \in 1..1 + Len(t) : (<<q[1]>> \o t)[i] = IF i <= 1 THEN q[1] ELSE t[i - 1]
  BY <1>1, ConcatProperties
<1>3. \A i \in 1..Len(<<q[1]>> \o t) : (<<q[1]>> \o t)[i] = q[i]
  BY <1>2
<1>4. Len(<<q[1]>> \o t) = Len(q)
  BY <1>2
<1>. QED
  BY <1>2, <1>3, <1>4, SeqEqual, Zenon

(* Taking the header out after a #! line gives the old text back.          *)
LEMMA RemovedSecond ==
    ASSUME NEW q \in Seq(Block), q # <<>>
    PROVE  Removed(<<q[1], "header">> \o Tail(q), 1, 1) = q
<1> DEFINE s == <<q[1], "header">> \o Tail(q)
           r == SubSeq(s, 1, 1) \o SubSeq(s, 3, Len(s))
<1>1. /\ q[1] \in Block /\ Len(q) \in Nat /\ Len(q) >= 1
  OBVIOUS
<1>2. /\ s \in Seq(Block) /\ Len(s) = Len(q) + 1
      /\ s[1] = q[1]
      /\ \A k \in 3..Len(s) : s[k] = q[k - 1]
  BY <1>1 DEF Block
<1> HIDE DEF s
<1>3. /\ SubSeq(s, 1, 1) = <<q[1]>>
      /\ SubSeq(s, 3, Len(s)) \in Seq(Block)
      /\ Len(SubSeq(s, 3, Len(s))) = Len(q) - 1
      /\ \A k \in 1..Len(q) - 1 : SubSeq(s, 3, Len(s))[k] = q[k + 1]
  <2>1. SubSeq(s, 1, 1) = <<q[1]>>
    <3>1. /\ SubSeq(s, 1, 1) \in Seq(Block) /\ <<q[1]>> \in Seq(Block)
          /\ Len(SubSeq(s, 1, 1)) = Len(<<q[1]>>)
          /\ \A i \in 1..Len(SubSeq(s, 1, 1)) : SubSeq(s, 1, 1)[i] = <<q[1]>>[i]
      BY <1>1, <1>2
    <3>. QED
      BY <3>1, SeqEqual, Zenon
  <2>0. /\ 3 \in Int /\ Len(s) \in Int
        /\ \A i \in 3..Len(s) : s[i] \in Block
    BY <1>1, <1>2
  <2>1a. /\ SubSeq(s, 3, Len(s)) \in Seq(Block)
         /\ Len(SubSeq(s, 3, Len(s))) = IF 3 <= Len(s) THEN Len(s) - 3 + 1 ELSE 0
         /\ \A i \in 1..Len(s) - 3 + 1 : SubSeq(s, 3, Len(s))[i] = s[3 + i - 1]
    BY <2>0, SubSeqProperties
  <2>1b. /\ Len(SubSeq(s, 3, Len(s))) = Len(q) - 1
         /\ Len(s) - 3 + 1 = Len(q) - 1
    <3>1. Len(SubSeq(s, 3, Len(s)))
            = IF 3 <= Len(q) + 1 THEN (Len(q) + 1) - 3 + 1 ELSE 0
      BY <1>2, <2>1a
    <3>. QED
      BY <1>1, <1>2, <3>1, DropTwoLen, Zenon
  <2>2. /\ SubSeq(s, 3, Len(s)) \in Seq(Block)
        /\ Len(SubSeq(s, 3, Len(s))) = Len(q) - 1
    BY <2>1a, <2>1b
  <2>3. \A k \in 1..Len(q) - 1 : SubSeq(s, 3, Len(s))[k] = q[k + 1]
    BY <1>1, <1>2, <2>1a, <2>1b
  <2>. QED
    BY <2>1, <2>2, <2>3
<1>4. <<q[1]>> \o SubSeq(s, 3, Len(s)) = q
  BY <1>1, <1>3, FirstAndRest
<1>. QED
  BY <1>3, <1>4 DEF Removed

(* process_file's new text is its old one with one run of blocks put in.   *)
LEMMA NewContentKeeps ==
    ASSUME NEW f \in File, content[f] \in Seq(Block)
    PROVE  \E i \in 0..Len(NewContent(f)), n \in 0..Len(NewContent(f)) :
              Removed(NewContent(f), i, n) = content[f]
<1> DEFINE c == content[f]
<1>1. CASE ScriptBranch(f)
  <2>1. NewContent(f) = <<c[1], "header">> \o Tail(c) /\ c # <<>>
    BY <1>1, NewContentShape DEF ScriptBranch
  <2>2. Len(NewContent(f)) >= 1
    BY <2>1
  <2>. QED
    BY <2>1, <2>2, RemovedSecond
<1>2. CASE ~ScriptBranch(f)
  <2>1. NewContent(f) = HeaderText(Template(f)) \o c
    BY <1>2, NewContentShape
  <2>2. HeaderText(Template(f)) \in Seq(Block)
    BY TemplatePrefix
  <2>3. Removed(NewContent(f), 0, Len(HeaderText(Template(f)))) = c
    BY <2>1, <2>2, RemovedFront
  <2>. QED
    BY <2>1, <2>2, <2>3
<1>. QED
  BY <1>1, <1>2

(* No step loses or moves a block of any file: the step's content change   *)
(* is at most process_file's insertion of a header.                        *)
LEMMA NextTextKept ==
    TypeOK /\ [Next]_vars =>
        [\A f \in File :
            \E i \in 0..Len(content'[f]), n \in 0..Len(content'[f]) :
                Removed(content'[f], i, n) = content[f]]_vars
<1> SUFFICES ASSUME TypeOK, [Next]_vars, NEW g \in File
             PROVE  \E i \in 0..Len(content'[g]), n \in 0..Len(content'[g]) :
                       Removed(content'[g], i, n) = content[g]
  OBVIOUS
<1>1. content[g] \in Seq(Block)
  BY DEF TypeOK
<1>2. CASE content'[g] = content[g]
  BY <1>1, <1>2, RemovedNothing
<1>3. CASE content'[g] # content[g]
  <2>1. ProcessFile
    BY <1>3 DEF Next, NextPath, SkipExcluded, Summary, Exited, vars
  <2>2. PICK f \in pending :
             content' = IF ProcessResult(f) = "added"
                        THEN [content EXCEPT ![f] = NewContent(f)] ELSE content
    BY <2>1, ProcessFileStep
  <2>3. g = f /\ content'[g] = NewContent(f)
    BY <1>3, <2>2 DEF TypeOK
  <2>. QED
    BY <1>1, <2>3, NewContentKeeps
<1>. QED
  BY <1>2, <1>3

(* TextKept: add_file_headers.py never loses or reorders a line of a file  *)
(* it rewrites, for every tree, text and command line: the header goes in *)
(* front of the text, or after the #! line the script keeps.               *)
THEOREM TextKeptHolds == Spec => TextKept
BY TypeCorrect, NextTextKept, PTL DEF Spec, TextKept

=============================================================================
