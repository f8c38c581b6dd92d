\* Expected violation: NewNodesTerminates, see README.
CONSTANTS
    Callers = {t1}
    MaxNodes <- MCMaxNodes
    BatchSizes <- MCBatchSizes
    MaxHeartbeats <- MCMaxHeartbeats
SPECIFICATION FairSpec
PROPERTY NewNodesTerminates
CHECK_DEADLOCK FALSE
