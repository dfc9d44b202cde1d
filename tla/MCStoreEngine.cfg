SPECIFICATION Spec
SYMMETRY Symmetry
CONSTANTS
    Namespaces = {n1, n2}
    Keys = {k1, k2}
    padded = padded
    word = word
    Texts <- MCTexts
    IntOf <- MCIntOf
    NotAnInt = NotAnInt
    Missing = Missing
    Never = Never
    InputValues <- MCInputValues
    TTLs <- MCTTLs
    Amounts <- MCAmounts
    Limits <- MCLimits
    MaxSeq = 3
    MaxNow = 2
INVARIANTS
    TypeOK
    ReplicaAgrees
    NoRecordFromTheFuture
PROPERTIES
    KeepsPromise
