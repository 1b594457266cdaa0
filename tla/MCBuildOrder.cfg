CONSTANTS
    a = a
    b = b
    c = c
    d = d
    Node <- MCNode
SYMMETRY MCSymmetry
SPECIFICATION Spec
INVARIANTS
    TypeOK
    IncludersFirst
    CompleteIffAcyclic
    OmitsOnlyBehindCycles
