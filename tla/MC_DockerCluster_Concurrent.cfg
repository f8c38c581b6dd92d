\* Two test goroutines calling NewNodes concurrently on one cluster, with
\* heartbeats left out (their bound is 0) to keep the state space small.
\* The system stops for good once the runner and every agent exited.
CONSTANTS
    Callers = {t1, t2}
    MaxNodes <- MCMaxNodes
    BatchSizes <- MCConcurrentBatchSizes
    MaxHeartbeats <- MCZeroHeartbeats
SPECIFICATION Spec
INVARIANT NoLostNodes
INVARIANT NodesHandedOutOnce
PROPERTY ClusterRefinesSpec
SYMMETRY MCSymmetry
CHECK_DEADLOCK FALSE
