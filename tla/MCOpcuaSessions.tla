-------------------------- MODULE MCOpcuaSessions --------------------------
(* Symmetry of OpcuaSessions for TLC: nothing orders devices, endpoints or *)
(* callers.                                                                *)
EXTENDS OpcuaSessions, TLC

Perms == Permutations(Devices) \cup Permutations(Endpoints) \cup Permutations(Callers)
=============================================================================
