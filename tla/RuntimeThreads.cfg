SPECIFICATION FairSpec
CONSTANTS
    t1 = t1
    t2 = t2
    Transports = {t1, t2}
    NoTransport = NoTransport
    Names = {"a", "b"}
    Requests <- MCRequests
    Commands = {"add", "modify", "delete", "other", "stop"}
    QueueBound = 2
INVARIANTS
    SenderHasSocket
    RegistryExclusive
    BooksAgree
PROPERTIES
    AddCompletes
    FailedStartEnds
CHECK_DEADLOCK FALSE
