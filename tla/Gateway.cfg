SPECIFICATION FairPodSpec
CONSTANTS
  p1 = p1
  d1 = d1
  a1 = a1
  Here = p1
  Pod = {p1}
  Device = {d1}
  Conn <- OneConn
  Handler = {h1}
  Request = {r1}
  Account <- AllRegistered
  Nil = Nil
  NoRoute = NoRoute
  Unspecified = Unspecified
  MaxCrashes = 1
  MaxFaults = 1
  Addr = {a1}
  LocalAddr <- OneAddress
  Retry <- OneRetry
INVARIANTS
  WaitsAreWatched
PROPERTIES
  SilentDeviceAnswered
