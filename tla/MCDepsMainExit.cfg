CONSTANTS
    ac = ac
    bc = bc
    cc = cc
    xh = xh
    zh = zh
    inc = inc
    gst = gst
    NoPath = NoPath
    None = None
    Node <- MCNode
    Name <- MCName
    BaseName <- MCBaseName
    Ext <- MCExt
    RootTags <- MCRootTags
    GuestAllow <- MCGuestAllow
    SyscallS = "syscall.S"
    IncludeDirs <- MCIncludeDirs
    InDir <- MCInDir
    MayInclude <- MCMayInclude
SPECIFICATION Spec
PROPERTY FatalOnlyOnEmptyDiscovery
