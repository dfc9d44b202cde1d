SPECIFICATION Spec
CONSTANTS
    MaxWrites = 2
    MaxCrashes = 2
    MaxReloads = 1
    MaxFetches = 2
INVARIANTS
    TypeOK
    RecoveredMeansSurvived
    NoFalseAlarm
PROPERTIES
    AwaitingResolved
CHECK_DEADLOCK FALSE
