SPECIFICATION Spec
CONSTANTS
  p1 = p1
  p2 = p2
  d1 = d1
  d2 = d2
  d3 = d3
  Pod = {p1}
  Device = {d1, d2}
  Conn <- SharedPodConns
  Handler = {h1}
  Request = {r1}
  Account <- SecondProvisioned
  Nil = Nil
  NoRoute = NoRoute
  Unspecified = Unspecified
  MaxCrashes = 1
  MaxFaults = 0
INVARIANTS
  TypeOK
  RequestReachesItsDevice
