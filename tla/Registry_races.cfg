SPECIFICATION Spec
CONSTANTS
  North = {n1, n2}
  Gateway = {g1, g2}
  Username = {"jane"}
  Uuid = {"d"}
  MaxRandom = 5
  MaxFaults = 1
SYMMETRY Goroutines
INVARIANTS
  TypeOK
  TokenRowsOwned
  PairsAreIssued
  OneRowPerString
PROPERTIES
  ImplementsCredentials
\* Behaviours end at the bound on tokens.
CHECK_DEADLOCK FALSE
