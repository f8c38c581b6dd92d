\* Expected violation: ReturnedNodesReady, see README.
CONSTANTS
    Callers = {t1}
    MaxNodes <- MCMaxNodes
    BatchSizes <- MCBatchSizes
    MaxHeartbeats <- MCMaxHeartbeats
SPECIFICATION Spec
INVARIANT ReturnedNodesReady
CHECK_DEADLOCK FALSE
