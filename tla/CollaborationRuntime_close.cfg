\* Two assignments with conflicting claims, one of them with a deadline, in one
\* or two calls of dispatch_many; jobs run two at a time; the event store may
\* raise once.
CONSTANTS
  x = x
  y = y
  s1 = s1
  Session = {s1}
  NoSession = NoSession
  Parent = s1
  None = None
  Assignment = {x, y}
  Conflicting = {{x, y}}
  Timed = {x}
  MaxReadFaults = 1
  MaxJobs = 2
  MaxWorkers = 2
  MaxStarts = 2
  Kinds = {"collab"}
  MaxAppendFailures = 0
  WithShutdown = FALSE
SPECIFICATION FairSpec
INVARIANTS
  AggregateIsComplete
  ResourceExclusion
  ClosesOnce
PROPERTIES
  EventuallyAggregated
\* Once the aggregate is recorded nothing is left to do.
CHECK_DEADLOCK FALSE
