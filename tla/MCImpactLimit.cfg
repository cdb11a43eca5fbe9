CONSTANTS
  Types = {"A", "B", "C"}
  References <- MCReferences
  Shapes = {old, new}
  OldShape = old
  Functions = {get}
  Slots = {output}
  Limits <- MCOnePath
SPECIFICATION Spec
INVARIANT ReportWithinLimit
