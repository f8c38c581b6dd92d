\* BasicCluster.NewNode and BasicNode.Run against the agent's process engine.
\* The test ends once Run returned or NewNode failed, hence no deadlock check.
CONSTANTS
    Items <- MCItems
    Output <- MCOutput
    Input <- MCInput
    Codes <- MCCodes
    PipeCap <- MCPipeCap
SPECIFICATION Spec
INVARIANT RunReportsSinkError
CHECK_DEADLOCK FALSE
