SPECIFICATION FairSpec
CONSTANTS
    Committers = {t1}
    MaxCommits = 2
    MaxReindexes = 0
    MAX_COMMIT_QUEUE_BYTES = 1
    MAX_LOG_QUEUE_BYTES = 2
    MIN_LOG_SIZE_BYTES = 0
    Failing = {}
    MayDrop = TRUE
CHECK_DEADLOCK FALSE
PROPERTIES
    ShutdownCompletes
