\* Sessions of up to four more messages, with restarts, errors and a disk that fails.
SPECIFICATION WindowSpec
CONSTANTS
  SizeOf <- MCSizeOf
  Fixed = 1
  PlanTokens = 3
  Summary = 2
  Marker = 1
  ColdTurns = 1
  ResultTarget = 3
  Starts <- MCStarts
  Tools = {"output", "edit"}
  Low = 10
  High = 12
  ManualTarget = 8
  StableCount = 2
  FailureLimit = 2
  Troubles = {"prompt_too_long", "timeout", "no_summary"}
INVARIANTS
  UnconsumedIsKept
  OnlyRestartsMislead
  RestartRestoresTask
PROPERTIES
  CompactionTakesEffect
  CompactionEnds
\* The system rests when the user has no message left.
CHECK_DEADLOCK FALSE
