CONSTANTS
    Bodies <- MCBodies
    EntryCells = 3
    TotalEntries = 2
    MaxRecords = 3
    MaxCrashes = 2
SPECIFICATION Spec
INVARIANTS TypeOK AppliedAsWritten NoneLost ClearedAsWritten EnactSucceeds
CHECK_DEADLOCK FALSE
