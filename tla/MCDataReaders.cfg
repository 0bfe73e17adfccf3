SPECIFICATION ReadersSpec
CONSTANTS
    Versions <- MCVersions
    Requests <- MCRequests
    BatchSize = 2
    MaxChanges = 1
    MaxFaults = 1
    MaxChunk = 2
    MaxSample = 5
    MaxBytes = 8
INVARIANTS ReadersTypeOK CellsFaithful  NothingLeftBehind
PROPERTIES StreamsAreTabular EverythingReleased
CHECK_DEADLOCK FALSE
