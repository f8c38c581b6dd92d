\* NewNodes, the agents' heartbeat supervisor and the runner's exit.
\* The system stops for good once the runner has exited and every agent
\* has exited, hence no deadlock check.
CONSTANTS
    Callers = {t1}
    MaxNodes <- MCMaxNodes
    BatchSizes <- MCBatchSizes
    MaxHeartbeats <- MCMaxHeartbeats
SPECIFICATION FairSpec
INVARIANT NodesStarted
PROPERTY OrphansTerminate
CHECK_DEADLOCK FALSE
