CONSTANTS
    Keys = {1, 2, 3}
    Changes <- MCChanges
    MaxCommits = 2
    MaxSeeks = 1
SPECIFICATION Spec
INVARIANTS TypeOK WalkIsCurrent NoneMissed ReturnsVisible
 
CHECK_DEADLOCK FALSE
