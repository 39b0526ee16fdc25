SPECIFICATION FairSpec
CONSTANTS
    Devices = {d1, d2}
    InitialDevices = {d1}
    Procs = {p1}
    CommandQueueSize = 2
    MaxConcurrentWrites = 1
    SubscribeCanFail = TRUE
    SlowDrain = TRUE
    MaxCommands = 3
INVARIANTS Accounted  AnsweredOnce
PROPERTIES QueuedHandled StopReturns
CHECK_DEADLOCK FALSE
