SPECIFICATION FairHealthSpec
CONSTANTS
    Critical = {mqtt, pool}
    Warning = {ntp}
    Info = {}
    FailureThreshold = 2
    NoResult = NoResult
INVARIANT StateFollows
PROPERTIES ShutdownIsFinal ReadinessConverges
CHECK_DEADLOCK FALSE
