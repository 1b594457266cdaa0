CONSTANTS
    top = top
    src = src
    gst = gst
    mc = mc
    tp = tp
    rs = rs
    mk = mk
    rd = rd
    xo = xo
    gc = gc
    ro = ro
    ea = ea
    up = up
    TopDir = TopDir
    Top <- TopDir
    File <- MCFileUpper
    Dir <- MCDir
    Parent <- MCParent
    DirName <- MCDirName
    FileDir <- MCFileDir
    FileName <- MCFileName
    Suffix <- MCSuffix
    Contains <- MCContains
    Binary = {xo}
    Unwritable = {ro}
    InitContent <- MCInitContent
    PathArgs <- MCPathArgs
    ExcludeArgs <- MCExcludeArgs
    ForceFlags = {FALSE}
    DryRunFlags = {FALSE, TRUE}
SPECIFICATION Spec
INVARIANT
    ShebangKept
