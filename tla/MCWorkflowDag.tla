--------------------------- MODULE MCWorkflowDag ---------------------------
(* Four tasks for TLC.                                                     *)
EXTENDS WorkflowDag, TLC
CONSTANTS a, b, c, d
FourTasks == {a, b, c, d}
ThreeTasks == {a, b, c}
Symmetric == Permutations(FourTasks)
=============================================================================
