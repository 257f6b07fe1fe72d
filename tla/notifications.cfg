\* A full queue, both routes and both coroutines; the bounds on the clock and on the
\* events end every behaviour.
CONSTANTS
    t1 = t1
    t2 = t2
    phone = phone
    tablet = tablet
    Task = {t1, t2}
    Routes <- TwoRoutes
    QueueMax = 2
    PersistS = 0
    Threshold = 1
    Grace = 1
    MismatchWindow = 1
    BurstMax = 1
    BurstWindow = 1
    Dedup = 1
    RateLimit = 1
    MaxTime = 2
    MaxEvents = 2
    Never = Never
    NoItem = NoItem
SPECIFICATION PipelineSpec
INVARIANT DeferredAccounted
PROPERTIES NotifiedMeansDelivered EmissionsEnd
CHECK_DEADLOCK FALSE
