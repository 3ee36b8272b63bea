SPECIFICATION Spec
CONSTANTS
  p1 = p1
  p2 = p2
  d1 = d1
  d2 = d2
  d3 = d3
  Pod = {p1, p2}
  Device = {d1}
  Conn <- MovingConns
  Handler = {h1, h2}
  Request = {}
  Account <- AllRegistered
  Nil = Nil
  NoRoute = NoRoute
  Unspecified = Unspecified
  MaxCrashes = 1
  MaxFaults = 1
\* Without clients the system stops for good once every connection is closed,
\* or gone, and no route is left to expire.
CHECK_DEADLOCK FALSE
SYMMETRY HandlerSymmetry
INVARIANTS
  RouteBacked
  LogoutUnroutes
