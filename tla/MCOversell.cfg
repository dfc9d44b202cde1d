SPECIFICATION Spec
CONSTANTS
    Namespaces = {lamp}
    Keys = {Detail}
    Detail = Detail
    sold_out = sold_out
    one_left = one_left
    two_left = two_left
    unreadable = unreadable
    Partial = Partial
    Texts <- MCTexts
    IntOf <- MCIntOf
    NotAnInt = NotAnInt
    Missing = Missing
    Never = Never
    Workers = {w1, w2}
    Writers = {w1, w2}
    SeedStock <- MCSeedStock
    NoStock = NoStock
    MaxStock = 2
    Payload <- MCPayload
    ClientTexts <- MCClientTexts
    ClientTTLs = {1, Never}
    ReserveTTLs = {1}
    Quantities = {1}
    Catalogs = {"database"}
    Interruptions = FALSE
    MaxNow = 1
INVARIANT NothingOversold
