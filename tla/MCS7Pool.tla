------------------------------ MODULE MCS7Pool ------------------------------
(* Instances of S7Pool.                                                    *)
EXTENDS S7Pool

CONSTANTS d1, d2, d3, poller, command

\* A poll and a command share a device; polls of two devices, one of which is given
\* another address, compete for room.
MCWorkloads == {{poller, command} \X {d1}, {poller} \X {d2, d3}}
=============================================================================
