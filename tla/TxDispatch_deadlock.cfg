CONSTANTS
    Clients = {"c1", "c2", "c3"}
    Sessions = {"s1", "s2"}
    NoTxContext = NoTxContext
    NoSession = NoSession
    Requests <- MCRequests
SPECIFICATION Spec
PROPERTY RequestsComplete
CHECK_DEADLOCK FALSE
