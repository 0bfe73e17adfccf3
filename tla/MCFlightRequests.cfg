SPECIFICATION RequestsSpec
CONSTANTS
    c1 = c1
    c2 = c2
    Calls <- MCCalls
    Scenarios <- MCScenarios
    Owner <- MCOwner
    SecretNames = {"s", "r"}
    Versions = {}
    KeysOf <- MCKeysOf
    Types = {"postgres"}
    Registered = {"postgres", "sqlite", "s3", "uri"}
    ReadErrors = {"SQLError", "NotFound"}
    Discovery = "account"
    ReviewTTL = 1
    ClientTTL = 1
    Transit = 1
    MaxTime = 2
    MaxChanges = 1
    MaxFaults = 1
INVARIANTS RequestsTypeOK AnswersCurrent ServedWithinTenant
PROPERTIES EveryRequestAnswered
CHECK_DEADLOCK FALSE
