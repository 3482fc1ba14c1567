\* Plans of up to two tasks; three commands, each of up to two tasks.
CONSTANTS
  a1 = a1
  t1 = t1
  t2 = t2
  Actor = {a1}
  TaskId = {t1, t2}
  MaxRevision = 3
  MaxPatches = 2
SPECIFICATION MirrorSpec
SYMMETRY MirrorSymmetry
INVARIANTS
  NeverStuck
  MirrorFollowsPlan
PROPERTIES
  NothingForgotten
  OnlyBatchesBreakTheMirror
\* Commands stop at MaxRevision.
CHECK_DEADLOCK FALSE
