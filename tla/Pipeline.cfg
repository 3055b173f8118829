SPECIFICATION FairSpec
CONSTANTS
    Keys = {k1, k2}
    Readers = {r1}
    MaxCommits = 2
    MaxReindex = 1
INVARIANTS
    TypeOK
    GetReturnsNewest
    OverlaysDrain
PROPERTIES
    ImplementsAtomicStore
    TablesAdvance
    
