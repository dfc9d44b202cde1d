SPECIFICATION Spec
CONSTANTS
    TableKeys = {k1, k2, k3, k4}
    TableValues = {v1, v2}
    Absent = Absent
    HashValues <- MCHashValues
    InitialCapacity = 2
    LoadNum = 3
    LoadDen = 4
SYMMETRY Symmetry
INVARIANTS
    TypeOK
    WellPlaced
    SizeAndLoad
PROPERTIES
    IsKeyMap
