\* BasicCluster.NewNode and BasicNode.Run against the agent's process engine,
\* under the fairness of the engine's goroutines and of the runner's.
\* The test ends once Run returned or NewNode failed, hence no deadlock check.
CONSTANTS
    Items <- MCItems
    Output <- MCOutput
    Input <- MCInput
    Codes <- MCCodes
    PipeCap <- MCPipeCap
SPECIFICATION FairSpec
PROPERTY RunReturns
CHECK_DEADLOCK FALSE
