SPECIFICATION Spec
CONSTANTS
    Namespaces = {n1}
    Keys = {k1}
    word = word
    Texts <- MCTexts
    IntOf <- MCIntOf
    NotAnInt = NotAnInt
    Missing = Missing
    Never = Never
    InputValues <- MCInputValues
    TTLs <- MCTTLs
    Amounts <- MCAmounts
    Limits <- MCLimits
    Requests = {r1}
    Lifespan = Lifespan
    RecoveryMode = "truncate"
    NoFile = NoFile
    Emptied = Emptied
    Garbled = Garbled
    WritesDuringRewrite = FALSE
    WritesOnTornTail = FALSE
    MaxSeq = 2
    MaxNow = 1
    MaxRestarts = 2
INVARIANTS
    TypeOK
    Recoverable
    NumberedInOrder
PROPERTIES
    KeepsPromise
CHECK_DEADLOCK FALSE
