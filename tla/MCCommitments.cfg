CONSTANTS
    r1 = r1
    r2 = r2
    Rows = {r1, r2}
    dedupe_key <- MCKey
    Earliest <- MCEarliest
    Latest <- MCLatest
    ExpireGrace = 1
    dueNowBatch = 1
    expireBatch = 2
    MaxTime = 3
    MaxSnoozes = 1
    MaxCrashes = 1
SPECIFICATION FairSpec
INVARIANTS
    TypeOK
    SentWasDelivered
    RepeatsExplained
    DismissTakesEffect
    ExpiredCountHonest
PROPERTIES
    PendingResolves
CHECK_DEADLOCK FALSE
