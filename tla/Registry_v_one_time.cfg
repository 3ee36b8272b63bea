SPECIFICATION Spec
CONSTANTS
  North = {n1}
  Gateway = {g1, g2}
  Username = {"jane"}
  Uuid = {"d"}
  MaxRandom = 5
  MaxFaults = 0
INVARIANTS
  OneTimeToken
\* Behaviours end at the bound on tokens.
CHECK_DEADLOCK FALSE
