SPECIFICATION Spec
CONSTANTS
    x = x
    y = y
    j = j
    k = k
    l = l
    Node = {m, n}
    Key = {j, k, l}
    Name = {x, y}
    Lists <- Some
    Canvases <- Brought
    MaxBranches = 2
    MaxEdges = 2
INVARIANTS
    TypeOK
    FinishedRoutes
PROPERTIES
    KeysStay
CHECK_DEADLOCK FALSE
