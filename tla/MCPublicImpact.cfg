CONSTANTS
  Types = {"A", "B", "C"}
  References <- MCReferences
  Shapes = {old, new}
  OldShape = old
  Functions = {get}
  Slots = {output}
  Limits <- MCLimits
SPECIFICATION Spec
INVARIANTS TypeOK ImpactsSound NoImpactMissedSilently LimitJustified WorkBounded
