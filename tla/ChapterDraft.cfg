\* Two of every call that races its own kind; at most three calls in a
\* behaviour, and one change around them.
CONSTANTS
    Edits = {e1, e2}
    Restores = {r1}
    Commits = {m1}
    Saves = {s1}
    Opens = {o1}
    Inserts = {i1, i2}
    Adopts = {a1, a2}
    Confirms = {f1, f2}
    KeyOf <- OneKey
    MaxCalls = 3
    MaxChanges = 1
    None = None
SPECIFICATION Spec
SYMMETRY CallSymmetry
INVARIANTS TypeOK HistoryIsLinear RetriesAreNotOutdated OneEffectPerKey
PROPERTIES FormalWritesHoldAtCommit DraftsAreReplacedKnowingly
CHECK_DEADLOCK FALSE
