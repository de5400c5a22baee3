SPECIFICATION Spec
CONSTANTS
  MaxCommit = 2
  MaxManual = 0
  MaxAttempt = 2
  MaxFaults = 2
  Baseless = TRUE
  Rewriting = TRUE
  Reverting = TRUE
INVARIANT ReleaseNamesItsImage
PROPERTY DeploysMoveForward
CHECK_DEADLOCK FALSE
