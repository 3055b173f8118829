SPECIFICATION FairSpec
CONSTANTS
    Committers = {t1}
    MaxCommits = 3
    MaxReindexes = 1
    MAX_COMMIT_QUEUE_BYTES = 1
    MAX_LOG_QUEUE_BYTES = 1
    MIN_LOG_SIZE_BYTES = 1
    Failing = {}
    MayDrop = FALSE
CHECK_DEADLOCK FALSE
INVARIANTS
    TypeOK
PROPERTIES
    BackPressureReleases
    
    QueueDrains
