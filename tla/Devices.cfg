SPECIFICATION DeviceSpec
CONSTANTS
    Ids = {a, b}
    Configs <- Varied
    Faults = TRUE
    None = None
    Garbled = Garbled
INVARIANTS PollingAgrees Persisted
CHECK_DEADLOCK FALSE
