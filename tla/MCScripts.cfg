SPECIFICATION Spec
INVARIANT RefusalsAreVerdicts
CHECK_DEADLOCK FALSE
