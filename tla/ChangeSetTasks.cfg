\* A two-chapter dependency graph up to its tasks, and one revision with its tasks worked on by two people.
SPECIFICATION Spec
CONSTANTS
    x1 = x1
    x2 = x2
    x3 = x3
    a = a
    b = b
    k1 = k1
    k2 = k2
    v1 = v1
    v2 = v2
    owner = owner
    u1 = u1
    None = None
    ChangeIDs = {x1}
    Chapters = {a, b}
    Values = {v1, v2}
    Keys = {k1, k2}
    Users = {owner, u1}
    Owner = owner
    Kinds = {"fields"}
    EdgeShapes <- TaskShapes
    CitedObjects = {"ProjectSpec"}
    MaxVersion = 5
    MaxEdges = 2
    SnapshotStore = TRUE
CONSTRAINT TasksBound
SYMMETRY LifecycleSymmetry
INVARIANTS
    TasksMatchObligations
    ReleasedChaptersWereReviewed
PROPERTIES
    AppliedAsAssessed
    StabilizedOverFinishedWork
