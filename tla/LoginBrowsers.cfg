SPECIFICATION Spec
CONSTANTS
  Browser = {b1, b2}
  Challenge = {c1, c2}
  FirstParty = {c1}
  Worker = {w1}
  MaxVersion = 1
  MaxFlows = 2
  MaxFaults = 1
  NoBrowser = NoBrowser
  Nobody = Nobody
  NoChallenge = NoChallenge
  Ann = Ann
  Bob = Bob
  Person <- MCPerson
  Allowed <- MCAllowed
SYMMETRY Symmetry
PROPERTY ImplementsGate
CHECK_DEADLOCK FALSE
