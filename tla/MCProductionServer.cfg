\* Every kind of request, with shadow mode and without it, through crashes,
\* restarts, shutdowns and a failing disk; and three threads that share a breaker.
SPECIFICATION ProductionSpec
CONSTANTS
    Conns = {c1, c2}
    Dribbling = {c2}
    Requests <- AllRequests
    Faults = {"disk", "crash", "cancel"}
    ShadowModes = {TRUE, FALSE}
    burst_size = 1
    failure_threshold = 2
    recovery_timeout = 1
    Nobody = Nobody
    Threads = {t1, t2, t3}
    HasFallback = TRUE
CHECK_DEADLOCK FALSE
INVARIANTS
    ServerInv
    RecordsInv
    FlushedIsFinal
    BreakerInv
PROPERTIES
    EveryRequestEnds
    ServiceSpec
    FailedProbeReopens
    Recovers
