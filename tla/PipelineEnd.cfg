SPECIFICATION FairSpec
CONSTANTS
  MaxCommit = 2
  MaxManual = 1
  MaxAttempt = 1
  MaxFaults = 0
  Baseless = FALSE
  Rewriting = FALSE
  Reverting = FALSE
PROPERTY DeliveredInTheEnd
CHECK_DEADLOCK FALSE
