\* A signal sets the flag; nothing ends the server.
SPECIFICATION ServerOnly
CONSTANTS
    Conns = {c1}
    Dribbling = {}
    Requests <- Calls
    Faults = {}
    ShadowModes = {FALSE}
    burst_size = 1
    failure_threshold = 2
    recovery_timeout = 1
    Nobody = Nobody
    Threads = {t1}
    HasFallback = TRUE
CHECK_DEADLOCK FALSE
PROPERTIES
    SignalExits
