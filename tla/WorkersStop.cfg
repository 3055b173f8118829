SPECIFICATION Spec
CONSTANTS
    Committers = {t1, t2}
    MaxCommits = 2
    MaxReindexes = 0
    MAX_COMMIT_QUEUE_BYTES = 0
    MAX_LOG_QUEUE_BYTES = 0
    MIN_LOG_SIZE_BYTES = 0
    Failing = {"log", "flush", "commit", "cleanup"}
    MayDrop = TRUE
CHECK_DEADLOCK FALSE
INVARIANTS
    LogQueueExact
