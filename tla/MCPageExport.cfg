SPECIFICATION ExportSpec
CONSTANTS
  Revisions <- MCRevisions
  Layouts <- MCLayouts
  Pages <- MCPages
  Cells <- MCCells
  KeyColumns <- MCKeyColumns
  MaxExports = 3
  Absent = Absent
CHECK_DEADLOCK FALSE
INVARIANTS
  PageIsWhole
  PreviewIsTheExport
PROPERTY
  PlansAreReplayed
