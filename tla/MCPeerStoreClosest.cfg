SPECIFICATION Spec
CONSTANTS
  ID <- MCID
  AlienID <- MCAlienID
  nodeID <- MCnodeID
  NumBuckets <- MCNumBuckets
  k = 2
  bucketPos <- MCbucketPos
  dist <- MCdist
  NumReturned <- MCNumReturned
  Thread = {t1}
  nil = nil
INVARIANT
  ClosestReturned
CHECK_DEADLOCK FALSE
