SPECIFICATION Spec
CONSTANTS
  p1 = p1  p2 = p2
  None = None
  Process = {p1, p2}
  Engine = {1, 2}
  LiteralTargets = {"GO_BLOCK", "SHOW_ALERT", "CALL_FORM"}
  MaxDepth = 3
  MaxResults = 4
  Catalog <- MCCatalog
  Points <- MCPoints
  Forms <- MCForms
  Bounds <- MCBounds
PROPERTIES RunsOutliveRegeneration
CHECK_DEADLOCK FALSE
