\* Dashboards come and go during two broadcasts.
SPECIFICATION FairSpec
CONSTANTS
    Sockets = {s1, s2, s3}
    Scans = {e1, e2}
    Leavers = {s1, s2}
    NoSocket = NoSocket
CHECK_DEADLOCK FALSE
INVARIANTS
    FeedInv
    SentOnce
    NothingMissed
PROPERTIES
    BroadcastEnds
