SPECIFICATION FairSpec
CONSTANTS
    t1 = t1
    t2 = t2
    Transports = {t1, t2}
    NoTransport = NoTransport
    Names = {"a", "b"}
    Requests <- MCRequests
    Commands = {"add", "other", "stop"}
    QueueBound = 0
PROPERTIES
    StopEndsProcess
CHECK_DEADLOCK FALSE
