SPECIFICATION FairSpec
CONSTANTS
  None = None
  a1 = a1
  a2 = a2
  m1 = m1
  m2 = m2
  Activities = {a1, a2}
  Messages = {m1, m2}
  owner <- MCOwner
  Priority = {a2}
  Steerable = {a1}
  Hooked = {a1, a2}
  MAX_QUEUED = 3
  MaxSteers = 1
  MaxFollowups = 2
CHECK_DEADLOCK FALSE
INVARIANTS
  SlotIsRespected
  IdlenessIsTrue
PROPERTIES
  HookStartsInSlot
  LaunchOrder
  ActivitiesLeave
