SPECIFICATION Spec
CONSTANTS
    Prefixes = {0, 1}
    Rests = {1}
    KeyBits = 3
    MIN_INDEX_BITS = 0
    Tiers = {1}
    Readers = {r1}
    Settings <- MCSettings
CHECK_DEADLOCK FALSE
INVARIANTS
    TypeOK
    KeysFound
    SlotsOwned
    GetMissesOnDrop
