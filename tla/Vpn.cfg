SPECIFICATION Spec
CONSTANTS
  User = {"jc", "guest"}
  Owner = "owner"
  Exit = {"home", "away"}
  Derived <- MCDerived
  Explicit = {1}
  Static = {"unbound"}
  MaxEdits = 2
  MaxCuts = 1
INVARIANTS TypeOK GuestsConfined OfferedWorks
PROPERTY DeclaredInTheEnd
CHECK_DEADLOCK FALSE
