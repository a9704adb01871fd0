CONSTANTS
    c1 = c1
    c2 = c2
    c3 = c3
    k1 = k1
    k2 = k2
    k3 = k3
    b1 = b1
    b2 = b2
    s1 = s1
    Calls = {c1, c2}
    Ids = {k1, k2}
    Bodies = {b1, b2}
    Sources = {}
    SourceSensitive = {k1}
    MovesBasis = {k1, k2}
    RetryLocks = {k2}
    MutableReceipt = {k1}
    Audited = {k1, k2}
    Snapshot = TRUE
    MaxBasis = 2
    MaxAttempts = 3
SPECIFICATION FairSpec
INVARIANTS AnswersAreStored ConflictIsReal
PROPERTIES CallsEnd AuthorizedAtCommit
CHECK_DEADLOCK FALSE
