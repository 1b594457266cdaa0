----------------------------- MODULE MCDepsMain ----------------------------
(* Model-checking instance of DepsMain: three sources that may include    *)
(* each other and the headers, and two headers, one including the other.  *)
EXTENDS DepsMain, TLC

CONSTANTS
    ac,     \* boot/a.c
    bc,     \* lib/b.c
    cc,     \* lib/c.c
    xh,     \* include/x.h
    zh,     \* include/z.h
    inc,    \* the include directory 'include'
    gst     \* the include directory 'guest'

MCNode == {ac, bc, cc, xh, zh}

MCName == {"a.c", "b.c", "c.c", "x.h", "z.h", "syscall.S",
           "test_guest.S", "guest_manifests.c", "guest_manifest.h"}

MCBaseName ==
    [p \in MCNode |->
        CASE p = ac -> "a.c" [] p = bc -> "b.c" [] p = cc -> "c.c"
          [] p = xh -> "x.h" [] p = zh -> "z.h"]

MCExt == [p \in MCNode |-> IF p \in {ac, bc, cc} THEN "c" ELSE "h"]

MCRootTags == [p \in MCNode |-> {}]

MCGuestAllow == {"test_guest.S", "guest_manifests.c", "guest_manifest.h"}

MCIncludeDirs == <<inc, gst>>

MCInDir ==
    [d \in {inc, gst} |-> [i \in MCName |->
        IF d = inc /\ i = "x.h" THEN xh
        ELSE IF d = inc /\ i = "z.h" THEN zh ELSE NoPath]]

MCMayInclude ==
    [p \in MCNode |->
        CASE p = ac -> {"b.c", "x.h"}
          [] p = bc -> {"c.c", "z.h"}
          [] p = cc -> {"a.c", "b.c"}
          [] p = xh -> {"z.h"}
          [] OTHER -> {}]
=============================================================================
