-------------------------- MODULE MCDeviceManager --------------------------
(* Configurations of DeviceManager for TLC.                                *)
EXTENDS DeviceManager

Device(e, s, c, x, r) == [enabled |-> e, supported |-> s, complete |-> c, extra |-> x,
                          rev |-> r]

\* Two revisions of a plain device; one disabled; one with settings the file does
\* not keep; one with an incomplete connection; one of a protocol without a pool.
Varied == {Device(TRUE, TRUE, TRUE, FALSE, 1), Device(TRUE, TRUE, TRUE, FALSE, 2),
           Device(FALSE, TRUE, TRUE, FALSE, 1), Device(TRUE, TRUE, TRUE, TRUE, 1),
           Device(TRUE, TRUE, FALSE, FALSE, 1), Device(TRUE, FALSE, FALSE, FALSE, 1)}
=============================================================================
