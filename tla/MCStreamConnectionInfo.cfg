SPECIFICATION Spec
CONSTANT Failures = {}
INVARIANT InfoNotMissed
CHECK_DEADLOCK FALSE
