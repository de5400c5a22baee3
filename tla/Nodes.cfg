SPECIFICATION Spec
CONSTANTS
  Agent = {"lady", "away"}
  Support <- MCSupport
  MaxMinor = 3
  MaxBumps = 2
  MaxMishaps = 2
  Spent = 1
INVARIANTS TypeOK AgentsNotNewer RoutesApproved
PROPERTY FleetInTheEnd
CHECK_DEADLOCK FALSE
