CONSTANTS
    ORDER = 2
    Keys = {1, 2, 3, 4, 5, 6, 7, 8, 9}
    Values = {"small", "large"}
    NodeTier <- MCNodeTier
    ValueTier <- MCValueTier
    ChangeLists <- MCChangeLists
    RefCounted = FALSE
SPECIFICATION Spec
VIEW Shape
INVARIANTS NoSharedSlots GetReadsCommitted Balanced WalkInOrder
