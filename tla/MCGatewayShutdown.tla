-------------------------- MODULE MCGatewayShutdown --------------------------
(* Instance of GatewayShutdown: a Modbus device, an OPC UA device, and an  *)
(* OPC UA device in push mode.                                             *)
EXTENDS GatewayShutdown, TLC

CONSTANTS p1, p2, modbus, opcua, s7

MCPoolOf == (p1 :> modbus) @@ (p2 :> opcua)
=============================================================================
