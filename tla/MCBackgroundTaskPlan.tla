------------------------ MODULE MCBackgroundTaskPlan ------------------------
(* BackgroundTaskPlan for TLC: tasks, jobs and actors are model values.    *)
EXTENDS BackgroundTaskPlan
=============================================================================
