SPECIFICATION FairSpec
CONSTANTS
    Threshold = 2
    Ratio = 60
    Probes = 1
    MaxCounted = 2
    d1 = d1
    d2 = d2
    poller = poller
    command = command
    Devices = {d1, d2}
    Pollers = {poller}
    Commands = {command}
    Workloads <- MCWorkloads
    Clients = {c1, c2}
    MaxConnections = 1
    MaxRetries = 1
    Removals = TRUE
    None = None
INVARIANT BreakerTrips
PROPERTIES ImplementsDevicePool CallsReturn DeviceRecovers
CHECK_DEADLOCK FALSE
