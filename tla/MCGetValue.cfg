SPECIFICATION Spec
CONSTANTS
  p0 = p0
  p1 = p1
  p2 = p2
  p3 = p3
  Peer <- MCPeer
  Self = p0
  Value = {v1}
  dist <- MCdist
  Worker = {w1, w2}
  NumPeerReturned = 2
  bucketPos <- MCbucketPos
  k = 1
INVARIANTS
  TypeOK
  NotFoundIsExhaustive
  ValueNotLost
PROPERTIES
  Terminates
CHECK_DEADLOCK FALSE
