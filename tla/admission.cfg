CONSTANTS
    q1 = q1
    q2 = q2
    i1 = i1
    Input = {i1}
    HasMaterials = {i1}
    Request = {q1, q2}
    MaxDepth = 1
    MaxRevision = 3
    MaxSwitch = 3
    MaxFaults = 2
SYMMETRY RequestSymmetry
SPECIFICATION StartSpec
PROPERTY OnlyHealthCloses
CHECK_DEADLOCK FALSE
