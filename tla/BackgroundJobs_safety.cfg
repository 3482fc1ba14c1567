\* Safety while the owner shuts the manager down and an append may raise, with
\* one worker for two jobs of every kind.
CONSTANTS
  s1 = s1
  s2 = s2
  Session = {s1, s2}
  NoSession = NoSession
  MaxJobs = 2
  MaxWorkers = 1
  MaxStarts = 2
  Kinds = {"plain", "plan", "collab"}
  MaxAppendFailures = 1
  WithShutdown = TRUE
SPECIFICATION Spec
SYMMETRY SessionSymmetry
INVARIANTS
  ToldExactlyOnce
  NoticeStaysTrue
  CancellationIsAuthoritative
  JobsEndProperly
PROPERTIES
  ImplementsLedger
\* Once every start is used up and every job is told, the manager rests.
CHECK_DEADLOCK FALSE
