---------------------------- MODULE MCTagAccess ----------------------------
(***************************************************************************)
(* Tags that touch, overlap, contain one another, leave gaps, end at the   *)
(* last address, go beyond it, or have none, in each area and byte order.  *)
(* Each device has tags that meet in its ranges.                           *)
(***************************************************************************)
EXTENDS TagAccess

Tag(area, addr, count, size, bool, order, bit) ==
    [area |-> area, addr |-> addr, count |-> count, size |-> size, bool |-> bool,
     order |-> order, bit |-> bit]

Registers1(area, addr, order) == Tag(area, addr, 1, 2, FALSE, order, -1)
Registers2(area, addr, order) == Tag(area, addr, 2, 4, FALSE, order, -1)
Flag(area, addr) == Tag(area, addr, 1, 2, TRUE, "BE", -1)

Bytes2(area, addr) == Tag(area, addr, 0, 2, FALSE, "BE", -1)
Bytes4(area, addr) == Tag(area, addr, 0, 4, FALSE, "BE", -1)
Switch(area, addr, bit) == Tag(area, addr, 0, 1, TRUE, "BE", bit)

MCModbusDevices == {
    {Registers1("holding", 0, "BE"), Registers2("holding", 0, "LE"), Flag("holding", 1),
     Tag("holding", 1, 1, 2, TRUE, "BE", 1), Tag("holding", 2, 1, 2, TRUE, "LE", -1),
     Registers2("holding", 2, "MB"), Registers2("holding", 3, "ML")},
    {Tag("holding", 4, 4, 8, FALSE, "ML", -1), Tag("holding", 6, 4, 8, FALSE, "BE", -1),
     Tag("holding", 9, 2, 2, FALSE, "LE", -1), Registers1("holding", 10, "LE"),
     Registers1("holding", 11, "BE"), Registers2("holding", 11, "BE")},
    {Flag("coil", 0), Flag("coil", 1), Flag("coil", 4), Flag("coil", 10),
     Tag("coil", 11, 2, 4, FALSE, "BE", -1),
     Flag("discrete", 2), Registers1("input", 4, "BE"), Registers2("input", 3, "ML")}}

MCS7Devices == {
    {Switch("DB1", 0, 0), Switch("DB1", 0, 1), Bytes2("DB1", 0), Bytes4("DB1", 1),
     Switch("DB1", 3, 1), Bytes2("DB1", 4), Switch("DB1", 7, 0)},
    {Tag("DB1", 0, 0, 8, FALSE, "BE", -1), Bytes4("DB2", 0), Bytes2("DB2", 6),
     Switch("M", 0, 1), Bytes2("M", 2), Bytes2("Q", 1), Bytes2("I", 2),
     Tag("invalid", 0, 0, 2, FALSE, "BE", -1)}}
=============================================================================
