\* Expected violation: CreateNameFree, see README.
CONSTANTS
    Callers = {t1}
    MaxNodes <- MCMaxNodes
    BatchSizes <- MCBatchSizes
    MaxHeartbeats <- MCMaxHeartbeats
SPECIFICATION Spec
INVARIANT CreateNameFree
CHECK_DEADLOCK FALSE
