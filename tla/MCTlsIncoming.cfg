SPECIFICATION TlsSpec
CONSTANTS
    c1 = c1
    c2 = c2
    c3 = c3
    c4 = c4
    Clients <- MCClients
    Stalled <- MCStalled
    Permits = 2
    Capacity = 1
INVARIANTS
    TlsTypeOK
    PermitsAccounted
PROPERTIES
    AcceptsGoOn
    HandshakesDelivered
    TasksEnd
CHECK_DEADLOCK FALSE
