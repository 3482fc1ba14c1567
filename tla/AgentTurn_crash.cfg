\* Two turns with one crash anywhere; the clock and background jobs run.
CONSTANTS
  MaxCalls = 2
  MaxBatch = 2
  MaxToolRounds = 2
  MaxProviderCalls = 2
  MaxTurns = 2
  MaxGuidance = 0
  MaxJobs = 1
  MaxRestarts = 1
  MaxGiveUps = 1
  CanExpire = TRUE
SPECIFICATION Spec
INVARIANTS
  RequestsWellFormed
  PauseMatchesLog
\* The system rests when the user has no turn left.
CHECK_DEADLOCK FALSE
