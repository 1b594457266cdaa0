--------------------------- MODULE MCBuildOrder ----------------------------
(* Model-checking instance of BuildOrder: every graph without self-loops on *)
(* four files is an initial state.                                         *)
EXTENDS BuildOrder, TLC

CONSTANTS a, b, c, d

MCNode == {a, b, c, d}

MCSymmetry == Permutations(MCNode)
=============================================================================
