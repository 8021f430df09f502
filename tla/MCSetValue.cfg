SPECIFICATION Spec
SYMMETRY Workers
CONSTANTS
  p0 = p0
  p1 = p1
  p2 = p2
  p3 = p3
  Peer = {p0, p1, p2, p3}
  Self = p0
  dist <- MCdist
  Worker = {w1, w2}
  MaxNumStores = 2
  MinNumStores = 2
  NumPeerReturned = 2
  bucketPos <- MCbucketPos
  k = 1
  nil = nil
INVARIANTS
  TypeOK
  StorersSorted
  ClosestKept
  BlameBounded
  StorersAsked
CHECK_DEADLOCK FALSE
