-------------------------- MODULE MCBackgroundJobs --------------------------
(* BackgroundJobs for TLC: the sessions are interchangeable model values.  *)
EXTENDS BackgroundJobs, TLC

SessionSymmetry == Permutations(Session)
=============================================================================
