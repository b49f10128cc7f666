SPECIFICATION Spec
CONSTANTS
  Slaves = {s1, s2}
  Master = m
  MaxReports = 4
  MaxRestarts = 1
  MaxPeerUpdates = 1
SYMMETRY SlavesAlike
INVARIANTS
  TypeOK
  LampsAgree
  LitLampIsKept
PROPERTIES
  OwnLampStaysLit
CHECK_DEADLOCK FALSE
