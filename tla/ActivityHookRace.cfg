SPECIFICATION PromptSpec
CONSTANTS
  None = None
  a1 = a1
  a2 = a2
  m1 = m1
  m2 = m2
  Activities = {a1, a2}
  Messages = {m1, m2}
  owner <- MCOwner
  Priority = {}
  Steerable = {a1}
  Hooked = {a1}
  MAX_QUEUED = 3
  MaxSteers = 1
  MaxFollowups = 0
CHECK_DEADLOCK FALSE
INVARIANTS
  HookHoldsSlot
