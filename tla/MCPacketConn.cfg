SPECIFICATION Spec
CONSTANTS
  HeaderLen = 2
  MaxPacket = 4
  UnreadLen = 5
  MessageLens = {1, 4, 6, 9}
  ReadLens = {2, 6}
  MaxBytes = 10
INVARIANTS
  TypeOK
  FailsOnlyIfCut
PROPERTIES
  StreamRefined
  Delivered
CHECK_DEADLOCK FALSE
