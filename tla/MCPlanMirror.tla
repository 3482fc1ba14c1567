----------------------------- MODULE MCPlanMirror -----------------------------
(* PlanMirror for TLC: task names are interchangeable.                     *)
EXTENDS PlanMirror

MirrorSymmetry == Permutations(TaskId) \cup Permutations(Actor)
=============================================================================
