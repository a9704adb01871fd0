\* Two racing freezes, two racing exports and a download, on PostgreSQL.
SPECIFICATION Spec
CONSTANTS
    f1 = f1
    f2 = f2
    e1 = e1
    e2 = e2
    d1 = d1
    boss = boss
    peer = peer
    k = k
    None = None
    Freezes = {f1, f2}
    Exports = {e1, e2}
    Downloads = {d1}
    Users = {boss, peer}
    Creator = boss
    UserOf <- Callers
    KeyOf <- OneKey
    MaxCalls = 3
    MaxVersion = 2
    MaxChanges = 1
    SnapshotStore = FALSE
SYMMETRY CallSymmetry
INVARIANTS
    TypeOK
    OneRowPerAction
    DeliveredAsGated
    ContentOnlyToReaders
PROPERTIES
    ExportHoldsAtRecord
    ImplementsIdempotentOperation
CHECK_DEADLOCK FALSE
