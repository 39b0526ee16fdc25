SPECIFICATION DeviceSpec
CONSTANTS
    Ids = {a, b}
    Configs <- Varied
    Faults = FALSE
    None = None
    Garbled = Garbled
INVARIANT StartsAgain
CHECK_DEADLOCK FALSE
