SPECIFICATION Spec
CONSTANTS
  c1 = c1  c2 = c2  f1 = f1  f2 = f2  s1 = s1  s2 = s2  k1 = k1  k2 = k2
  None = None
  Client = {c1, c2}
  Settings <- MCSettings
SYMMETRY Alike
INVARIANTS ArtifactsAreAuthorized BulkNeverOverrides
PROPERTIES CommitsAreFenced
CHECK_DEADLOCK FALSE
