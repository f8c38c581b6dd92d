\* One Run of the node agent's process engine.  The run ends for good once
\* the exit status is delivered or the start failed, hence no deadlock check.
CONSTANTS
    Items <- MCItems
    Output <- MCOutput
    Input <- MCInput
    Codes <- MCCodes
    PipeCap <- MCPipeCap
SPECIFICATION FairRunSpec
PROPERTY RunRefinesSpec
PROPERTY ExitEventuallyDelivered
CHECK_DEADLOCK FALSE
