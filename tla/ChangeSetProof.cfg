\* A preflight proof acknowledged while the Owner stabilizes.
SPECIFICATION Spec
CONSTANTS
    x1 = x1
    x2 = x2
    x3 = x3
    a = a
    b = b
    k1 = k1
    k2 = k2
    v1 = v1
    v2 = v2
    owner = owner
    u1 = u1
    None = None
    ChangeIDs = {x1}
    Chapters = {a}
    Values = {v1, v2}
    Keys = {k1}
    Users = {owner}
    Owner = owner
    Kinds = {"fields"}
    EdgeShapes <- ReleaseShapes
    CitedObjects = {}
    MaxVersion = 5
    MaxEdges = 1
    SnapshotStore = TRUE
SYMMETRY LifecycleSymmetry
PROPERTIES
    StabilizedOnCurrentProof
