CONSTANTS
  o1 = o1  p1 = p1  p2 = p2  r1 = r1  r2 = r2  v1 = v1  v2 = v2
  Broken = Broken  Rejected = Rejected  None = None
  Opener <- MCOneOpener
  Publisher <- MCPublisher
  Roots <- MCRoots
  Revision <- MCOneRevision
  MaxConfiguration = 2
  MaxDisturbances = 1
SPECIFICATION FairSpec
CHECK_DEADLOCK FALSE
INVARIANTS
  MirrorFollowsDatabase
  OpenLeavesTheTruth
PROPERTIES
  NoNeedlessRepair
  StaleMirrorIsRepaired
  ImplementsDescriptorPair
