---------------------------- MODULE MCHeaderTool ----------------------------
(* Model-checking instance of HeaderTool: a top directory with a src and a *)
(* guest subdirectory, and one file for each branch of process_file.       *)
EXTENDS HeaderTool, TLC

CONSTANTS
    top, src, gst,      \* the directories ".", "src" and "guest"
    mc,     \* src/main.c
    tp,     \* src/tool.py, a script
    rs,     \* run.sh, a script
    mk,     \* Makefile
    rd,     \* README.md, no template
    xo,     \* src/x.o, an object file
    gc,     \* guest/g.c
    ro,     \* guest/ro.h, read-only
    ea,     \* src/entry.asm
    up,     \* src/GEN.PY, a script with an upper-case suffix
    TopDir  \* the parent of "."

MCDir == {top, src, gst}

MCFile == {mc, tp, rs, mk, rd, xo, gc, ro}
MCFileAsm == MCFile \cup {ea}
MCFileUpper == MCFile \cup {up}

MCParent == [d \in MCDir |-> IF d = top THEN TopDir ELSE top]

MCDirName == [d \in MCDir |-> CASE d = top -> "." [] d = src -> "src" [] OTHER -> "guest"]

AllFiles == MCFile \cup {ea, up}

MCFileDir ==
    [f \in AllFiles |-> CASE f \in {rs, mk, rd} -> top [] f \in {gc, ro} -> gst
                           [] OTHER -> src]

MCFileName ==
    [f \in AllFiles |->
        CASE f = mc -> "main.c" [] f = tp -> "tool.py" [] f = rs -> "run.sh"
          [] f = mk -> "Makefile" [] f = rd -> "README.md" [] f = xo -> "x.o"
          [] f = gc -> "g.c" [] f = ro -> "ro.h" [] f = ea -> "entry.asm"
          [] OTHER -> "GEN.PY"]

MCSuffix ==
    [f \in AllFiles |->
        CASE f = mc -> ".c" [] f = tp -> ".py" [] f = rs -> ".sh" [] f = mk -> ""
          [] f = rd -> ".md" [] f = xo -> ".o" [] f = gc -> ".c" [] f = ro -> ".h"
          [] f = ea -> ".asm" [] OTHER -> ".PY"]

(* Which stripped patterns occur in each path: "x.o" ends in ".o", the     *)
(* ".a" of "*.a" occurs in "entry.asm", ".md" only matters with --exclude. *)
MCContains ==
    [f \in AllFiles |->
        CASE f = xo -> {".o"} [] f = ea -> {".a"} [] f = rd -> {".md"} [] OTHER -> {}]

MCInitContent ==
    [f \in AllFiles |->
        CASE f = mc -> {<<"body">>, <<"header", "body">>}
          [] f \in {tp, up} -> {<<"shebang", "body">>, <<"body">>}
          [] f = rs -> {<<"shebang", "body">>}
          [] OTHER -> {<<"body">>}]

MCPathArgs == {<<top>>, <<top, src>>, <<tp, src>>, <<gst>>}

MCExcludeArgs == {{}, {".md"}}
=============================================================================
