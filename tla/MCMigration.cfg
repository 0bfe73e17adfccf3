SPECIFICATION MigrationSpec
CONSTANTS
    ConfigMaps = {"c"}
    Secrets = {"s"}
    InitTypes = {"i"}
    Worlds <- MCWorlds
    Aliases <- MCAliases
    MaxInstalls = 2
    MaxRemovals = 1
    MaxFaults = 1
INVARIANTS MigrationTypeOK SyncedMeansImported
PROPERTIES DeletedStayDeleted EverythingImported
CHECK_DEADLOCK FALSE
