SPECIFICATION Spec
CONSTANTS
  None = None
  Dispatches = {d1}
  Cancels = {}
  Auths = {x1}
  Recoveries = {}
  Messages <- MCMessages
  Observable <- MCMessages
  Ids <- MCIds
  ReservedAuthSession = TRUE
  Waiters = {}
  Collectors = {p1}
  Sizes = {1, 2}
  MaxMessages = 3
  MAX_PENDING_BYTES = 3
  MaxGeneration = 0
  MaxBackground = 0
CHECK_DEADLOCK FALSE
INVARIANTS
  ReceiptsAreCounted
