SPECIFICATION FairSpec
CONSTANTS
  Publishers = {p1, p2}
  Polls = {r1, r2}
  Sizes = {1, 2}
  maxPending = 2
  maxPendingBytes = 3
  maxBatch = 1
  MaxEvents = 3
CHECK_DEADLOCK FALSE
INVARIANTS
  BufferIsSound
  RoomIsShared
PROPERTIES
  ImplementsHandoff
  EverythingAcknowledged
