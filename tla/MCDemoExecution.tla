--------------------------- MODULE MCDemoExecution ---------------------------
(* Small instances of DemoExecution for TLC.                                 *)
EXTENDS DemoExecution, TLC

Symmetry == Permutations(Signals) \cup Permutations(Workers)
==============================================================================
