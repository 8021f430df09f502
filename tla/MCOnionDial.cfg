SPECIFICATION Spec
CONSTANTS
  Servers = {s1, s2, s3, s4, s5, s6}
  Dest = dest
  MaxServers = 6
  MaxRelays = 2
  NumRetries = 4
SYMMETRY ServerSymmetry
INVARIANTS
  TypeOK
  PanicNeedsFew
  EndsAtDest
CHECK_DEADLOCK FALSE
