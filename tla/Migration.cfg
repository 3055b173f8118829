CONSTANTS
    Keys = {1, 2, 3, 4}
    Setups <- MCSetups
    COMMIT_SIZE = 3
    Restarts = {"err", "crashed"}
    MaxRuns = 3
    MaxFaults = 1
SPECIFICATION Spec
INVARIANTS TypeOK   Revertible
CHECK_DEADLOCK FALSE
