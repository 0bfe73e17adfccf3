SPECIFICATION ReadinessSpec
CONSTANTS
    s1 = s1
    s2 = s2
    old = old
    new = new
    incomplete = incomplete
    Null = Null
    Workers = {w1, w2}
    SecretNames = {s1, s2}
    Creds = {old, new, incomplete}
    WellFormed = {old, new}
    InitSecret = s1
    InitSecrets <- MCSecrets
    InitAccepted = {old}
    MaxChanges = 1
    MaxFaults = 1
PROPERTIES ReadyMeansAccepted
CHECK_DEADLOCK FALSE
