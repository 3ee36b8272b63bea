SPECIFICATION FairSpec
CONSTANTS
  p1 = p1
  p2 = p2
  d1 = d1
  d2 = d2
  d3 = d3
  Pod = {p1}
  Device = {d1, d3}
  Conn <- OneConn
  Handler = {h1, h2}
  Request = {r1}
  Account <- ThirdUnknown
  Nil = Nil
  NoRoute = NoRoute
  Unspecified = Unspecified
  MaxCrashes = 1
  MaxFaults = 1
PROPERTIES
  ImplementsBroker
  SessionAnswered
  StableRouteDelivers
  AnswersEveryCall
