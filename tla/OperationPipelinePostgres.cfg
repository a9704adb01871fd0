CONSTANTS
    c1 = c1
    c2 = c2
    c3 = c3
    k1 = k1
    k2 = k2
    k3 = k3
    b1 = b1
    b2 = b2
    s1 = s1
    Calls = {c1, c2}
    Ids = {k1, k3}
    Bodies = {b1, b2}
    Sources = {s1}
    SourceSensitive = {k1}
    MovesBasis = {k1}
    RetryLocks = {}
    MutableReceipt = {k1}
    Audited = {k1}
    Snapshot = FALSE
    MaxBasis = 2
    MaxAttempts = 1
SPECIFICATION Spec
INVARIANTS TypeOK AtMostOnce AtomicBoundary ServedSourcesWereChecked
PROPERTIES BasisHeldAtCommit ImplementsIdempotentOperation
SYMMETRY CallSymmetry
CHECK_DEADLOCK FALSE
