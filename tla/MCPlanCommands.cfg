CONSTANTS
  Missing = Missing
  v1 = v1
  v2 = v2
  Planners = {p1, p2}
  Verifiers = {v}
  Contents <- MCContents
  Editable = {"target_wasm", "policy"}
  Networks = {n1, n2}
  MaxProtocol = 3
  SafeEvidence <- MCSafeEvidence
  MaxEvents <- MCMaxEvents
SYMMETRY Symmetry
SPECIFICATION Spec
INVARIANTS TypeOK VerifiedPlanCurrent VerifiedPlanWhole OneWriterWithoutForce
CHECK_DEADLOCK FALSE
