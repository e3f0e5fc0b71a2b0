SPECIFICATION FairSpec
CONSTANTS
  w1 = w1
  w2 = w2
  p1 = p1
  p2 = p2
  r1 = r1
  r2 = r2
  c1 = c1
  c2 = c2
  c3 = c3
  NoWorker = NoWorker
  NoContent = NoContent
  NoRevision = NoRevision
  NoInputs = NoInputs
  NoRoot = NoRoot
  Worker <- MCWorker
  Process <- MCProcess
  ProcOf <- MCProcOf
  Root = {r1, r2}
  Content = {c1, c2, c3}
  Binary = {c3}
  DescriptorFirst = {"FRESHNESS"}
  MaxJobs = 2
  MaxConfiguration = 1
  Setting = {1, 2, 3}
  Situation <- MCSituation
INVARIANTS
  LiveWorkerKeepsItsJob
  CancellationWins
  PointerMatchesJobs
  EvidenceIsTrue
  CurrentBadgeIsTrue
PROPERTIES
  TerminalIsFinal
  EveryJobEnds
\* The bounds use themselves up and the project then rests.
CHECK_DEADLOCK FALSE
