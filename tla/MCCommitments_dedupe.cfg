CONSTANTS
    r1 = r1
    r2 = r2
    Rows = {r1, r2}
    dedupe_key <- MCKey
    Earliest <- MCEarliest
    Latest <- MCLatest
    ExpireGrace = 1
    dueNowBatch = 2
    expireBatch = 2
    MaxTime = 3
    MaxSnoozes = 0
    MaxCrashes = 0
SPECIFICATION Spec
INVARIANTS
    OnePendingPerKey
CHECK_DEADLOCK FALSE
