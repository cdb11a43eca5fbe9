SPECIFICATION Spec
INVARIANTS WitnessSound WitnessComplete
CHECK_DEADLOCK FALSE
