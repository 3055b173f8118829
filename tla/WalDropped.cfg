SPECIFICATION Spec
CONSTANTS
    Cells = {x, y}
    MaxRecords = 3
    Settings <- ProcessCrashes
    TornRecords = TRUE
    OrderedWriteback = TRUE
    AtomicWrites = TRUE
    QueuedCells = {}
    KeepLogs = 1
SYMMETRY CellSymmetry
INVARIANTS
    RestoredConsistent
