SPECIFICATION MCSpec
CONSTANTS
    Path <- MCPath
    Version = {a, b}
    Missing = Missing
    Edited <- MCEdited
    MaxEdits = 2
    MaxPasses = 2
    MaxQueue = 1
    MaxFaults = 1
INVARIANTS
    BaseWasAgreed
    SyncedIsTrue
PROPERTIES
    NoContentLost
    SyncFinishes
CHECK_DEADLOCK FALSE
