SPECIFICATION FairSpec
CONSTANTS
    Devices = {d1}
    Pollers = {p1, p2}
    Routines = {g1, g2}
    WorkerCount = 1
    Configs <- ModeConfigs
    MaxLate = 1
    None = None
INVARIANTS SinglePoller UnregisteredStops PushExcludesPolling
PROPERTIES UnregisteredExits StopDrains
CHECK_DEADLOCK FALSE
