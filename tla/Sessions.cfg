SPECIFICATION FairSpec
CONSTANTS
  c1 = c1
  c2 = c2
  c3 = c3
  a1 = a1
  a2 = a2
  Conn = {c1, c2, c3}
  Addr = {a1, a2}
  LocalAddr <- TwoAddresses
  Retry <- MixedRetries
  None = None
INVARIANTS
  TypeOK
  DoneNeverBlocks
  SoloKeepsSession
  SoloMonitored
PROPERTIES
  KeepaliveEnds
  SessionRemoved
  ImpatientServerCloses
