SPECIFICATION MainSpec
CONSTANTS
  r1 = r1
  Replica = {r1}
  MaxFaults = 1
PROPERTIES
  SpinsUp
\* A replica that listens is at its end.
CHECK_DEADLOCK FALSE
