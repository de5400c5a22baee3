SPECIFICATION FairSpec
CONSTANTS
  Browser = {b1}
  Challenge = {c1, c2}
  FirstParty = {c1}
  Worker = {w1, w2}
  MaxVersion = 0
  MaxFlows = 2
  MaxFaults = 0
  NoBrowser = NoBrowser
  Nobody = Nobody
  NoChallenge = NoChallenge
  Ann = Ann
  Bob = Bob
  Person <- MCPerson
  Allowed <- MCAllowed
PROPERTY CallbackIsAnswered
CHECK_DEADLOCK FALSE
