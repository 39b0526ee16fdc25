SPECIFICATION TagSpec
CONSTANTS
    ModbusDevices <- MCModbusDevices
    S7Devices <- MCS7Devices
    Space = 12
    Bits = 2
    MaxGap = 1
    MaxRead = 4
    MaxItems = 2
    MaxTags = 3
INVARIANTS AllTagsAnswered WriteReadsBack
PROPERTIES GoodValuesRight
