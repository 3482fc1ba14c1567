\* More starts than capacity, and delivery under fairness, as the application
\* runs the manager: it never shuts it down.
CONSTANTS
  s1 = s1
  s2 = s2
  Session = {s1, s2}
  NoSession = NoSession
  MaxJobs = 1
  MaxWorkers = 1
  MaxStarts = 2
  Kinds = {"plain", "plan", "collab"}
  MaxAppendFailures = 0
  WithShutdown = FALSE
SPECIFICATION FairSpec
PROPERTIES
  EventuallyTold
\* Once every start is used up and every job is told, the manager rests.
CHECK_DEADLOCK FALSE
