SPECIFICATION Spec
CONSTANTS
    Keys = {k1, k2}
    Columns <- MCColumns
    LOCKED_REF = 3
    Readers = {r1}
    MaxOps = 2
    MaxQueue = 1
    MaxCrashes = 1
CHECK_DEADLOCK FALSE
INVARIANTS
    TypeOK
    SlotsAccounted
    ValuesReadBack
    ReadsWholeValue
