SPECIFICATION Spec
SYMMETRY Threads
CONSTANTS
  ID <- MCID
  AlienID <- MCAlienID
  nodeID <- MCnodeID
  NumBuckets <- MCNumBuckets
  k = 2
  bucketPos <- MCbucketPos
  dist <- MCdist
  NumReturned <- MCNumReturned
  Thread = {t1, t2}
  nil = nil
INVARIANTS
  TypeOK
  RightBucket
  IntactBuckets
  PanicNeedsOverlap
  SortedResult
  ClosestFirst
  PeersExact
PROPERTIES
  CallPromise
CHECK_DEADLOCK FALSE
