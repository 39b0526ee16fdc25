---------------------------- MODULE DeviceManager ----------------------------
(***************************************************************************)
(* The device manager of internal/api/handlers.go with the device file     *)
(* (internal/adapter/config/devices.go) and the callbacks main registers,  *)
(* which keep the polling service's devices in step.                       *)
(*                                                                         *)
(* A call holds dm.mu from its first test to the end of its callback.  It  *)
(* changes the map, rewrites the whole file, takes the change back if that *)
(* fails, and tells the polling service.  The process may be killed at any *)
(* point; it then starts from the file.                                    *)
(*                                                                         *)
(* A device is what these steps tell apart:                                *)
(*   enabled    device.Enabled                                             *)
(*   supported  the protocol manager has a pool for its protocol           *)
(*   complete   validateConnectionConfig accepts its connection            *)
(*   extra      it sets a field the file has no place for, for example     *)
(*              circuit_breaker, serial_port or the priority of a tag      *)
(*   rev        anything else                                              *)
(* Requests that Validate refuses, and those for a device that exists or   *)
(* does not when it should not or should, change nothing and are left out. *)
(***************************************************************************)
CONSTANTS
    Ids,        \* device IDs
    Configs,    \* devices that pass Validate
    Faults,     \* TRUE if writing the file may fail
    None,
    Garbled     \* content that is not YAML

ASSUME DeviceAssumption ==
    /\ Configs \subseteq [enabled : BOOLEAN, supported : BOOLEAN, complete : BOOLEAN,
                          extra : BOOLEAN, rev : {1, 2}]
    /\ \A c \in Configs : [c EXCEPT !.extra = FALSE] \in Configs
    /\ Faults \in BOOLEAN
    /\ None \notin Configs
    /\ Garbled \notin [Ids -> Configs \cup {None}]

VARIABLES
    phase,      \* "down", "up", or "fatal": main gave up on the file
    devices,    \* dm.devices
    file,       \* what the file says, or Garbled
    intact,     \* the file was written or read to its end
    polled,     \* the polling service's devices
    call        \* the call that holds dm.mu

deviceVars == <<phase, devices, file, intact, polled, call>>

Map == [Ids -> Configs \cup {None}]
Empty == [d \in Ids |-> None]
NoCall == [op |-> "none", id |-> None, old |-> None, at |-> "none"]

\* convertToDeviceConfig and back: what has no place in the file is lost.
Stored(m) == [d \in Ids |-> IF m[d] = None THEN None ELSE [m[d] EXCEPT !.extra = FALSE]]

\* LoadDevices accepts the file.
Loads(m) == /\ m # Garbled
            /\ \A d \in Ids : m[d] # None => (m[d].supported => m[d].complete)

DeviceInit ==
    /\ phase = "down"
    /\ devices = Empty /\ polled = Empty
    /\ file \in {m \in Map : Loads(m) /\ Stored(m) = m} /\ intact = TRUE
    /\ call = NoCall

-----------------------------------------------------------------------------
(* The polling service, as the callbacks of main use it                    *)

\* The entry of d after RegisterDevice.
Register(d, c) == IF polled[d] = None THEN IF c.enabled THEN c ELSE None ELSE polled[d]

\* Variant: a device that was disabled stays registered.
ReplaceDisabled(d, c) ==
    IF polled[d] = None THEN Register(d, c) ELSE IF c.enabled THEN c ELSE polled[d]

\* The entry of d after ReplaceDevice.
Replace(d, c) ==
    IF polled[d] = None THEN Register(d, c) ELSE IF c.enabled THEN c ELSE None

\* The entry of d after the callback of an operation; c is the device now.  A device
\* whose protocol is not supported is refused, and its entry stays as it is.
Callback(op, d, c) ==
    IF op = "delete" THEN None
    ELSE IF ~c.supported THEN polled[d]
    ELSE IF op = "add" THEN Register(d, c) ELSE Replace(d, c)

-----------------------------------------------------------------------------
(* AddDevice, UpdateDevice, DeleteDevice                                   *)

\* A call takes dm.mu and changes the entry of d.
Change(op, d, entry) ==
    /\ phase = "up" /\ call = NoCall
    /\ devices' = [devices EXCEPT ![d] = entry]
    /\ call' = [op |-> op, id |-> d, old |-> devices[d], at |-> "open"]
    /\ UNCHANGED <<phase, file, intact, polled>>

AddDevice(d, c) == devices[d] = None /\ Change("add", d, c)
UpdateDevice(d, c) == devices[d] # None /\ Change("update", d, c)
DeleteDevice(d) == devices[d] # None /\ Change("delete", d, None)

\* os.WriteFile opens the file, which empties it.
SaveOpens ==
    /\ call.at = "open"
    /\ file' = Empty /\ intact' = FALSE
    /\ call' = [call EXCEPT !.at = "write"]
    /\ UNCHANGED <<phase, devices, polled>>

SaveWrites ==
    /\ call.at = "write"
    /\ file' = Stored(devices) /\ intact' = TRUE
    /\ call' = [call EXCEPT !.at = "notify"]
    /\ UNCHANGED <<phase, devices, polled>>

\* What a write that fails half way leaves: some of the devices, or half of one.
Partial == {Garbled} \cup
           {[d \in Ids |-> IF d \in S THEN Stored(devices)[d] ELSE None] : S \in SUBSET Ids}

\* Variant: the error return does not take the change back.
SaveFailsNoRollback ==
    /\ Faults /\ call.at \in {"open", "write"}
    /\ IF call.at = "open" THEN UNCHANGED file ELSE file' \in Partial
    /\ call' = NoCall
    /\ UNCHANGED <<phase, devices, intact, polled>>

\* The file cannot be opened, or not be written to its end: the change is undone.
SaveFails ==
    /\ Faults /\ call.at \in {"open", "write"}
    /\ IF call.at = "open" THEN UNCHANGED file ELSE file' \in Partial
    /\ devices' = [devices EXCEPT ![call.id] = call.old]
    /\ call' = NoCall
    /\ UNCHANGED <<phase, intact, polled>>

\* The callback; its error is only logged.  The call returns.
Notify ==
    /\ call.at = "notify"
    /\ polled' = [polled EXCEPT ![call.id] = Callback(call.op, call.id, devices[call.id])]
    /\ call' = NoCall
    /\ UNCHANGED <<phase, devices, file, intact>>

-----------------------------------------------------------------------------
(* The process                                                             *)

\* The process is killed.
Crash ==
    /\ phase = "up"
    /\ phase' = "down"
    /\ devices' = Empty /\ polled' = Empty /\ call' = NoCall
    /\ UNCHANGED <<file, intact>>

\* main loads the file and registers what it supports, before the API is up.
StartUp ==
    /\ phase = "down" /\ Loads(file)
    /\ phase' = "up"
    /\ devices' = file /\ intact' = TRUE
    /\ polled' = [d \in Ids |-> IF file[d] # None /\ file[d].supported
                                THEN Register(d, file[d]) ELSE None]
    /\ UNCHANGED <<file, call>>

\* LoadDevices fails: logger.Fatal.
StartFails ==
    /\ phase = "down" /\ ~Loads(file)
    /\ phase' = "fatal"
    /\ UNCHANGED <<devices, file, intact, polled, call>>

DeviceNext ==
    \/ \E d \in Ids : \/ \E c \in Configs : AddDevice(d, c) \/ UpdateDevice(d, c)
                      \/ DeleteDevice(d)
    \/ SaveOpens \/ SaveWrites \/ SaveFails \/ Notify
    \/ Crash \/ StartUp \/ StartFails

DeviceSpec == DeviceInit /\ [][DeviceNext]_deviceVars

-----------------------------------------------------------------------------
(* Properties                                                              *)

\* Types of the variables; only enabled devices are polled.
DeviceTypeOK ==
    /\ phase \in {"down", "up", "fatal"}
    /\ devices \in Map
    /\ file \in Map \cup {Garbled}
    /\ intact \in BOOLEAN
    /\ polled \in [Ids -> {c \in Configs : c.enabled} \cup {None}]
    /\ call \in {NoCall} \cup [op : {"add", "update", "delete"}, id : Ids,
                               old : Configs \cup {None}, at : {"open", "write", "notify"}]

\* Device d is polled exactly if the API lists it as enabled, and with the
\* configuration the API shows.  A device whose protocol has no pool is the
\* exception: what was polled under its ID before goes on.
Agrees(d) ==
    /\ polled[d] # None => /\ devices[d] # None
                           /\ devices[d].supported => polled[d] = devices[d]
    /\ devices[d] # None /\ devices[d].enabled /\ devices[d].supported => polled[d] # None

\* Whenever no call is in progress the polling service and the API agree, whatever
\* saves failed and wherever the process was killed before.
PollingAgrees == phase = "up" /\ call = NoCall => \A d \in Ids : Agrees(d)

\* Whenever no call is in progress, the file holds what the API shows, but for the
\* fields it has no place for (Stored), unless a write failed half way and nothing
\* was saved since: a change that could not be saved is not shown, and one that was
\* saved is.
Persisted == phase = "up" /\ call = NoCall /\ intact => file = Stored(devices)

\* A gateway that was killed starts again.
StartsAgain == phase # "fatal"

-----------------------------------------------------------------------------
(* The inductive strengthening used by GatewayProofs.                      *)

\* The call in progress accounts for every difference.
CallInv ==
    /\ phase # "up" => call = NoCall /\ polled = Empty
    /\ phase = "up" => \A d \in Ids : Agrees(d) \/ call.id = d
    /\ call # NoCall =>
          LET before == [devices EXCEPT ![call.id] = call.old]
              d == call.id
          IN  /\ call.op = "delete" <=> devices[d] = None
              /\ call.op = "add" <=> call.old = None
              /\ polled[d] # None => /\ call.old # None
                                     /\ call.old.supported => polled[d] = call.old
              /\ call.old # None /\ call.old.enabled /\ call.old.supported
                    => polled[d] # None
              /\ call.at = "open" /\ intact => file = Stored(before)
              /\ call.at = "write" => ~intact
              /\ call.at = "notify" => intact /\ file = Stored(devices)

\* The file keeps what it says over a restart.
FileInv == file # Garbled => Stored(file) = file

DeviceInv == DeviceTypeOK /\ FileInv /\ CallInv /\ PollingAgrees /\ Persisted
=============================================================================
