\* Expected violation: CleanupRemovesContainers, see README.
CONSTANTS
    Callers = {t1}
    MaxNodes <- MCMaxNodes
    BatchSizes <- MCBatchSizes
    MaxHeartbeats <- MCMaxHeartbeats
SPECIFICATION Spec
INVARIANT CleanupRemovesContainers
CHECK_DEADLOCK FALSE
