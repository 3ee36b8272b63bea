SPECIFICATION Spec
CONSTANTS
  c1 = c1
  c2 = c2
  c3 = c3
  a1 = a1
  a2 = a2
  Conn = {c1, c2}
  Addr = {a1}
  LocalAddr <- OneAddress
  Retry <- TwoRetries
  None = None
PROPERTIES
  NoPanic
