\* Cancellations, refusals, pauses and limits of one process, and its progress.
CONSTANTS
  MaxCalls = 2
  MaxBatch = 2
  MaxToolRounds = 2
  MaxProviderCalls = 3
  MaxTurns = 2
  MaxGuidance = 1
  MaxJobs = 0
  MaxRestarts = 0
  MaxGiveUps = 1
  CanExpire = FALSE
SPECIFICATION FairSpec
INVARIANTS
  TruthfulResults
PROPERTIES
  LimitsStopWork
  TurnEnds
\* The system rests when the user has no turn left.
CHECK_DEADLOCK FALSE
