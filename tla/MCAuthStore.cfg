SPECIFICATION Spec
CONSTANTS
  None = None
  u1 = u1
  u2 = u2
  User = {u1, u2}
  Org = {o1}
  Thread = {t1, t2}
  Role = {"owner", "viewer"}
  CodeCount = 1
  SessionLimit = 1
  Limits <- MCLimits
SYMMETRY Alike
INVARIANTS FoundedOnceAndOwned SecretsAreSpentOnce ConfirmedSecretIsTheUsers
CHECK_DEADLOCK FALSE
