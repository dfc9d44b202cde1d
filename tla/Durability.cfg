SPECIFICATION Spec
CONSTANTS
    SyncInterval = 2
    MaxEvents = 3
    MaxClock = 6
    MaxSaves = 2
INVARIANTS
    TypeOK
    AlwaysKeeps
    LossBounded
PROPERTIES
    SafeStaysSafe
CHECK_DEADLOCK FALSE
