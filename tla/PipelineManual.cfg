SPECIFICATION Spec
CONSTANTS
  MaxCommit = 2
  MaxManual = 1
  MaxAttempt = 1
  MaxFaults = 1
  Baseless = FALSE
  Rewriting = FALSE
  Reverting = FALSE
INVARIANTS TypeOK StackDelivered ReleaseNamesItsImage
PROPERTY MainMovesForward
CHECK_DEADLOCK FALSE
