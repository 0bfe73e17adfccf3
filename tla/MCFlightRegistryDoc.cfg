SPECIFICATION RegistrySpec
CONSTANTS
    f1 = f1
    t1 = t1
    t2 = t2
    p1 = p1
    p2 = p2
    n1 = n1
    n2 = n2
    Null = Null
    Workers = {w1, w2}
    FlightIds = {f1, f2, f3}
    TypeIds = {t1, t2}
    Providers = {p1, p2}
    Names = {n1, n2}
    OwnName = n1
    Supported = {p1}
    InitProviders <- MCProviders
    Requests <- MCRequests
    MaxRequests = 0
    MaxFaults = 1
PROPERTIES StatusEventuallyCurrent
CHECK_DEADLOCK FALSE
