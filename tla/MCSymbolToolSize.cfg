CONSTANTS
    Tok <- MCTok
    Hex16 <- MCHex16
    Hexable <- MCHexable
    HexVal <- MCHexVal
    InStr <- MCInStr
    Files <- MCFiles
    SectionArgs <- MCSectionArgs
SPECIFICATION Spec
INVARIANTS
    SectionSizeCoversSymbols
