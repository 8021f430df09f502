SPECIFICATION Spec
CONSTANTS
  Request = {r1, r2}
  Key = {key1, alien}
  ValidKey = {key1}
  ServerID = server
  old = old
  nil = nil
INVARIANTS
  TypeOK
  StoresSeen
  BootstrapMutual
  HonestPeerDoesNotAbort
  ConnClosed
PROPERTIES
  DoReturns
CHECK_DEADLOCK FALSE
