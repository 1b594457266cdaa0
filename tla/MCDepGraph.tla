---------------------------- MODULE MCDepGraph -----------------------------
(* Model-checking instance of DepGraph: a tree with a source file, an      *)
(* allow-listed guest stub, an app syscall.S, two headers named x.h, a     *)
(* header z.h and a guest OS header, and the include targets each may name.*)
EXTENDS DepGraph, TLC

CONSTANTS
    ac,     \* boot/a.c
    gS,     \* guest/test_guest.S
    sS,     \* app/syscall.S
    xh,     \* include/x.h
    xl,     \* lib/x.h
    zh,     \* include/z.h
    yh,     \* guest/linux/y.h
    inc,    \* the include directory 'include'
    gst     \* the include directory 'guest'

MCNode == {ac, gS, sS, xh, xl, zh, yh}

MCName == {"a.c", "test_guest.S", "syscall.S", "x.h", "z.h", "y.h", "linux/y.h",
           "guest_manifests.c", "guest_manifest.h", "stdio.h"}

MCBaseName ==
    [p \in MCNode |->
        CASE p = ac -> "a.c" [] p = gS -> "test_guest.S" [] p = sS -> "syscall.S"
          [] p = xh -> "x.h" [] p = xl -> "x.h" [] p = zh -> "z.h" [] p = yh -> "y.h"]

MCExt ==
    [p \in MCNode |-> CASE p = ac -> "c" [] p \in {gS, sS} -> "S" [] OTHER -> "h"]

MCRootTags ==
    [p \in MCNode |->
        CASE p = gS -> {"guest"} [] p = sS -> {"app"}
          [] p = yh -> {"guest", "guestos"} [] OTHER -> {}]

MCGuestAllow == {"test_guest.S", "guest_manifests.c", "guest_manifest.h"}

MCIncludeDirs == <<inc, gst>>

MCInDir ==
    [d \in {inc, gst} |-> [i \in MCName |->
        IF d = inc
           THEN CASE i = "x.h" -> xh [] i = "z.h" -> zh [] OTHER -> NoPath
           ELSE CASE i = "linux/y.h" -> yh [] i = "test_guest.S" -> gS
                  [] OTHER -> NoPath]]

MCMayInclude ==
    [p \in MCNode |->
        CASE p = ac -> {"x.h", "linux/y.h", "a.c"}
          [] p = gS -> {"a.c", "x.h", "stdio.h"}
          [] p = sS -> {"x.h"}
          [] p = xh -> {"z.h"}
          [] p = zh -> {"x.h"}
          [] OTHER -> {}]
=============================================================================
