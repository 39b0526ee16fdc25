SPECIFICATION FairSpec
CONSTANTS
    Producers = {r1, r2, r3}
    BufferSize = 1
    MaxMsgs = 1
    MaxLosses = 1
    MaxConnects = 2
    SlowBroker = TRUE
    SlowDrain = TRUE
PROPERTIES ImplementsLossyDelivery CallsReturn BufferDrains
CHECK_DEADLOCK FALSE
