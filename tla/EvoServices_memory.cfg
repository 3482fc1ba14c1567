\* Memory, self model and collaboration: two actors on the logs of ten scenarios.
SPECIFICATION ServicesSpec
CONSTANTS
  a1 = a1
  a2 = a2
  r1 = r1
  r2 = r2
  r3 = r3
  c1 = c1
  c2 = c2
  m1 = m1
  k1 = k1
  k2 = k2
  s1 = s1
  s2 = s2
  s3 = s3
  p1 = p1
  p2 = p2
  Memory = {s1, s2, s3, p1, p2}
  RecordOf <- MCRecordOf
  RankOf <- MCRankOf
  CostOf <- MCCostOf
  LeastOf <- MCLeastOf
  Times = {1, 3}
  Budgets = {1, 5}
  ClassOf <- MCClassOf
  HighRisk = {}
  MinProfile = 2
  Assignment = {"x", "y"}
  ParentRun = r3
  ChildOf <- MCChildOf
  ClaimKeyOf <- MCClaimKeyOf
  ExpectedOf <- MCExpectedOf
  LeastConfidence = 50
  Overlapping = {{"x", "y"}}
  Answers = {c1, c2}
  Actor = {a1, a2}
  RoomOf <- MCRoomOf
  Run = {r1}
  TaskOf <- MCTaskOf
  Observations <- MCObservations
  Verdicts <- MCVerdicts
  Kinds = {"plan_template"}
  Contents = {c1, c2}
  MinSupports = 2
  MinTasks = 2
  Case = {k1}
  SplitOf <- MCSplitOf
  OriginOf <- MCOriginOf
  Manifests = {m1}
  Evaluations <- MCEvaluations
  MinCases = 1
  MinRepeats = 1
  MinSamples = 1
  MinDelta = 10
  MaxRatio = 125
  Scenario = {"remember", "merge", "merging", "pack", "used", "misused", "turn", "children", "late", "answers"}
  StartOf <- MCStartOf
  ServicesOf <- MCServicesOf
\* The room of a scenario ends every run.
CHECK_DEADLOCK FALSE
INVARIANTS
  ChangesTakeEffect
  PacksHoldActiveMemories
  FeedbackIsConsistent
  AdviceIsFounded
  LearningIsReplayable
  OnlyOverlapsRepeat
SYMMETRY Symmetric
