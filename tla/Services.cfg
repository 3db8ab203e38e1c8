SPECIFICATION Spec
CONSTANTS
  Caller = {k1, k2}
  Connection = {c1, c2}
  Nobody = Nobody
  Turn = {t1, t2}
  Steering = {t2}
  NoTurn = NoTurn
  MaxWaiting = 2
  MaxLosses = 1
  Process = {p1, p2}
  NoProcess = NoProcess
  MaxCommands = 3
  MAX_PENDING_INPUTS = 4
  RESUME_PENDING_INPUTS = 2
  MaxMessages = 6
  MaxEvents = 2
  MaxStreams = 2
  MaxConnections = 2
  MaxWire = 8
  Message = {m1, m2, m3}
  Control = {m3}
  Reply = {m2}
  Nothing = Nothing
  MaxOperations = 1
  MaxSent = 1
  Observer = {o1}
  SoleBuffer = SoleBuffer
  LineSizes = {1, 3}
  MAX_OBSERVATION_BYTES = 2
  MaxBuffered = 2
  MaxBufferedBytes = 2
  MaxLines = 4
  MaxSpans = 1
  MaxEventsRead = 3
  Request = {r1, r2}
  Submission = {a1, a2}
  Handled = {a2}
  BySlug = {a2}
  MaxTries = 2
  MaxAllTries = 3
  Deletion = {x1, x2}
  MaxLookups = 3
CHECK_DEADLOCK FALSE
INVARIANTS
  ServicesTypeOK
  ConnectionsAreHeld
  TurnsAreExclusive
  LoginIsKnown
  SubmissionsAreTracked
  GapsAreAnnounced
  EventsAreStored
  OrderlyShutdown
PROPERTIES
  AbortedTurnsSettle
  LoginsFinish
  KeystrokesArrive
  EventsFollow
  OperationsEnd
  CommandsAreTrue
