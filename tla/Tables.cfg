SPECIFICATION Spec
CONSTANTS
  r1 = r1
  r2 = r2
  r3 = r3
  Replica = {r1, r2, r3}
  MaxFaults = 4
INVARIANTS
  TypeOK
  CleanCallCompletes
  ListensWithAccounts
\* InitDB ends.
CHECK_DEADLOCK FALSE
