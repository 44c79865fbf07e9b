SPECIFICATION Spec
CONSTANT MaxControls = 2
INVARIANT StoppedIsReported
CHECK_DEADLOCK FALSE
