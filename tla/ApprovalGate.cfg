\* A rejection and an approval of the user and an approval of a stranger.
SPECIFICATION FairSpec
CONSTANTS
    w1 = w1
    i1 = i1
    i2 = i2
    r1 = r1
    r2 = r2
    r3 = r3
    None = None
    Waits = {w1}
    Resolves = {r1, r2, r3}
    Instances = {i1, i2}
    HomeOf <- Home
    TargetOf <- Target
    Approvals = {r2, r3}
    Strangers = {r3}
    FailClose = TRUE
    Resent = {r1}
    MaxCrashes = 1
INVARIANTS TypeOK OkMeansDecided RefusalsAreTrue RunsWithConsent
PROPERTIES WaitsEnd CallersAreAnswered
CHECK_DEADLOCK FALSE
