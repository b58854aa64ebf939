\* A dashboard that leaves during a broadcast is removed twice.
SPECIFICATION Spec
CONSTANTS
    Sockets = {s1, s2}
    Scans = {e1}
    Leavers = {s1, s2}
    NoSocket = NoSocket
CHECK_DEADLOCK FALSE
INVARIANTS
    ScanReturns
