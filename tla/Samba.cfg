SPECIFICATION Spec
CONSTANTS
  User = {"jc", "guest"}
  Owner = "owner"
  Exit = {"home", "away"}
  Derived <- MCDerived
  Explicit = {1}
  Static = {"unbound", "samba"}
  MaxEdits = 1
  MaxCuts = 0
PROPERTY DeclaredInTheEnd
CHECK_DEADLOCK FALSE
