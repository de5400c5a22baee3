SPECIFICATION FairSpec
CONSTANTS
  Programs <- MCPrograms
  MaxEdits = 2
  MaxFaults = 1
  MaxVisits = 1
INVARIANTS TypeOK ConfiguredWhenDone ApiReached RegisterLimited ProfilePinsServed
PROPERTIES OnlyPredecessorsRemoved ClusterOutlivesInstalls ConfiguredInTheEnd
CHECK_DEADLOCK FALSE
