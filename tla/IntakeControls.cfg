SPECIFICATION FairSpec
CONSTANTS
  None = None
  Dispatches = {d1}
  Cancels = {c1}
  Auths = {}
  Recoveries = {r1}
  Messages <- MCMessages
  Observable <- MCMessages
  Ids <- MCIds
  ReservedAuthSession = FALSE
  Waiters = {}
  Collectors = {}
  Sizes = {1}
  MaxMessages = 3
  MAX_PENDING_BYTES = 3
  MaxGeneration = 0
  MaxBackground = 0
CHECK_DEADLOCK FALSE
PROPERTIES
  StartsInOrder
  FailedActivationIsFinal
  MessagesFinish
