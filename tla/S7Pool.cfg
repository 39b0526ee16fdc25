SPECIFICATION FairSpec
CONSTANTS
    d1 = d1
    d2 = d2
    d3 = d3
    poller = poller
    command = command
    Devices = {d1, d2, d3}
    Pollers = {poller}
    Commands = {command}
    Workloads <- MCWorkloads
    Clients = {c1, c2}
    MaxConnections = 1
    Moving = {d2}
    MaxMoves = 1
    None = None
INVARIANT NoNilEntry
PROPERTIES ImplementsDevicePool DeviceRecovers
CHECK_DEADLOCK FALSE
