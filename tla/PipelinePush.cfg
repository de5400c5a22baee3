SPECIFICATION Spec
CONSTANTS
  MaxCommit = 3
  MaxManual = 0
  MaxAttempt = 1
  MaxFaults = 2
  Baseless = FALSE
  Rewriting = FALSE
  Reverting = FALSE
INVARIANTS StackDelivered ImageDelivered ReleaseDelivered
CHECK_DEADLOCK FALSE
