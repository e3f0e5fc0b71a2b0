SPECIFICATION FairSpec
CONSTANTS
  p1 = p1
  p2 = p2
  c1 = c1
  d1 = d1
  d2 = d2
  None = None
  Post = {p1, p2}
  Poller = {c1}
  Reader = {d1, d2}
  Kept = 1
  MaxReviews = 1
  MaxReads = 3
  MaxElsewhere = 2
  Situations <- MCSituations
INVARIANTS
  SettledMeansFree
  StoppedPublishesNothing
  ShownCurrentWasChecked
PROPERTIES
  EverybodyReturns
\* Everybody may have been answered and rest.
CHECK_DEADLOCK FALSE
