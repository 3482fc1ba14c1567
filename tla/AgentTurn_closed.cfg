\* A cancellation or a timeout that meets the answer to a permission.
CONSTANTS
  MaxCalls = 2
  MaxBatch = 2
  MaxToolRounds = 2
  MaxProviderCalls = 3
  MaxTurns = 2
  MaxGuidance = 0
  MaxJobs = 0
  MaxRestarts = 1
  MaxGiveUps = 2
  CanExpire = TRUE
SPECIFICATION Spec
INVARIANTS
  HistoryAlwaysClosed
\* The system rests when the user has no turn left.
CHECK_DEADLOCK FALSE
