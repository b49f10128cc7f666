SPECIFICATION FairSpec
CONSTANTS
  Ids = {p1, p2, p3}
  Local = p1
  Timeout = 3
  Period = 1
  MaxBacklog = 2
  None = None
INVARIANTS
  TypeOK
  LostWasAway
  DetectedInTime
PROPERTIES
  PeersSettle
