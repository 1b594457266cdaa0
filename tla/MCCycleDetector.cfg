CONSTANTS
    a = a
    b = b
    c = c
    d = d
    None = None
    Node <- MCNode
SPECIFICATION FairSpec
INVARIANTS
    TypeOK
    CycleIsReal
    DetectsIffCyclic
PROPERTY
    Termination
