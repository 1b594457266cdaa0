CONSTANTS
    ac = ac
    gS = gS
    sS = sS
    xh = xh
    xl = xl
    zh = zh
    yh = yh
    inc = inc
    gst = gst
    NoPath = NoPath
    Node <- MCNode
    Name <- MCName
    BaseName <- MCBaseName
    Ext <- MCExt
    RootTags <- MCRootTags
    GuestAllow <- MCGuestAllow
    SyscallS = "syscall.S"
    IncludeDirs <- MCIncludeDirs
    InDir <- MCInDir
    MayInclude <- MCMayInclude
SPECIFICATION Spec
INVARIANTS
    TypeOK
    GraphWellFormed
