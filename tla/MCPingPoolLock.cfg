SPECIFICATION PingSpec
CONSTANTS
    s1 = s1
    s2 = s2
    s3 = s3
    w1 = w1
    w2 = w2
    Pinged = {s1, s2, s3}
    AddrOf <- MCAddrOf
    PingWorkers = {w1, w2}
    QUEUESIZE = 1
    MAXPING = 1
    MaxAborts = 1
PROPERTIES
    LockIsReleased
CHECK_DEADLOCK FALSE
