\* A dashboard that leaves during a broadcast makes it pass over the next.
SPECIFICATION Spec
CONSTANTS
    Sockets = {s1, s2}
    Scans = {e1}
    Leavers = {s1, s2}
    NoSocket = NoSocket
CHECK_DEADLOCK FALSE
INVARIANTS
    PushedToEvery
