-------------------------- MODULE MCCycleDetector --------------------------
(* Model-checking instance of CycleDetector: every graph without self-loops *)
(* on four files is an initial state.                                      *)
EXTENDS CycleDetector, TLC

CONSTANTS a, b, c, d

MCNode == {a, b, c, d}
=============================================================================
