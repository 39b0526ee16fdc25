SPECIFICATION FairSpec
CONSTANTS
    poller = poller
    writer = writer
    guard = guard
    e1 = e1
    Callers = {poller, writer, guard}
    Workers = {w1}
    Endpoints = {e1}
    MaxGlobalInFlight = 2
    Threshold = 2
    MaxInFlightPerEndpoint = 2
    PriorityQueueSize = 1
    Calls <- MCCalls
    None = None
INVARIANT InFlightAccounted
PROPERTIES SafetyServed BrownoutEnds
CHECK_DEADLOCK FALSE
