---------------------------- MODULE MCOpcuaLoad ----------------------------
(* Constants of the runs of OpcuaLoad.                                     *)
EXTENDS OpcuaLoad

CONSTANTS poller, writer, guard, e1

\* A poller reads, a writer sends commands, and the third reads safety tags.
MCCalls == [c \in Callers |->
    {[prio |-> IF c = poller THEN Telemetry ELSE IF c = writer THEN Control ELSE Safety,
      ep |-> e1]}]
=============================================================================
