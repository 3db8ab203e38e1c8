SPECIFICATION Spec
CONSTANTS
  None = None
  Dispatches = {d1, d2}
  Cancels = {}
  Auths = {}
  Recoveries = {}
  Messages <- MCMessages
  Observable <- MCMessages
  Ids <- MCIds
  ReservedAuthSession = FALSE
  Waiters = {w1}
  Collectors = {}
  Sizes = {1}
  MaxMessages = 3
  MAX_PENDING_BYTES = 3
  MaxGeneration = 3
  MaxBackground = 1
SYMMETRY Symmetry
CHECK_DEADLOCK FALSE
INVARIANTS
  EntriesAreHeld
  NoStrandedWaiter
  CancellationIsTrue
PROPERTIES
  AnsweredOnlyWhenQuiet
  SettledReceiptIsFinal
