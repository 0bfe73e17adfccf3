SPECIFICATION FairSpec
CONSTANTS
    A = A
    G = G
    tg = tg
    ta = ta
    t3 = t3
    t4 = t4
    c1 = c1
    c2 = c2
    c3 = c3
    c4 = c4
    c5 = c5
    n1 = n1
    n2 = n2
    pending = pending
    ready = ready
    Null = Null
    Tenants = {A, G}
    GlobalTenant = G
    TypeIds = {tg, ta, t3, t4}
    ConnIds = {c1, c2, c3, c4}
    Names = {n1, n2}
    Statuses = {pending, ready}
    NotReady = pending
    NoStatus = pending
    InitTypes <- MCTypes
    InitConns <- MCConns
    Sessions = {s1, s2, s3}
    Requests <- MCRequests
    MaxRequests = 3
PROPERTIES TransactionsEnd
CHECK_DEADLOCK FALSE
