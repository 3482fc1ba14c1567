\* A job on a plan of two tasks, while commands arrive during a callback.
CONSTANTS
  ag = ag
  fi = fi
  Agent = ag
  Finalizer = fi
  Actor = {ag, fi}
  t1 = t1
  t2 = t2
  TaskId = {t1, t2}
  j1 = j1
  Job = {j1}
  NoJob = NoJob
  MaxRevision = 4
  MaxPatches = 1
  Concurrent = TRUE
SPECIFICATION FairSpec
INVARIANTS
  CurrentWriteIsValid
PROPERTIES
  CallbackRespectsPlan
  CallbackReturns
\* Commands stop at MaxRevision.
CHECK_DEADLOCK FALSE
