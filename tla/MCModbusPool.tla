---------------------------- MODULE MCModbusPool ----------------------------
(* Instances of ModbusPool.                                                *)
EXTENDS ModbusPool

CONSTANTS d1, d2, poller, command

\* A poll and a command share a device; polls of two devices compete for room.
MCWorkloads == {{poller, command} \X {d1}, {poller} \X {d1, d2}}
=============================================================================
