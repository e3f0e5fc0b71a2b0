SPECIFICATION FairSpec
CONSTANTS
  x1 = x1  s1 = s1  t1 = t1  t2 = t2  body = body
  None = None
  Sessions = {s1}
  Order <- TwoUnits
  Strangers = {x1}
  Fingerprint <- OneBody
  Providers = {p1, p2}
  Answers = {"plain", "risky"}
  Cautious = {"risky"}
  Browsers = {b1}
  Cancels = {k1}
  Kept = 1
  MaxRuns = 1
  MaxCrashes = 1
  MaxVisits = 1
  MaxFailures = 1
  MaxExplanations = 2
INVARIANTS RunRecordIsTrue CautionIsKept OneProviderCall
PROPERTIES DiscardedStaysDiscarded EverythingSettles
CHECK_DEADLOCK FALSE
