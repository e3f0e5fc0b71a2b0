SPECIFICATION FairSpec
CONSTANTS
  None = None
  user = user
  chosen = chosen
  s1 = s1
  s2 = s2
  Process = {x1, x2}
  Source = {s1, s2}
  Free = {moved}
  Request <- MCRequest
  Settings <- MCSettings
  MaxProjects = 2
  MaxConfig = 1
  MaxStops = 2
  Rows = {r1, r2}
  MaxWrites = 1
INVARIANTS OneProjectPerRequest SourcesAreGranted ImportedIsWhole
PROPERTIES RetriesFinish
CHECK_DEADLOCK FALSE
