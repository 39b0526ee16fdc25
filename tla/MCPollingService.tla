-------------------------- MODULE MCPollingService --------------------------
(* Configurations of PollingService for TLC.                               *)
EXTENDS PollingService

Cfg(i, s, t) == [interval |-> i, sub |-> s, tags |-> t]

\* Polling at two intervals, once without an enabled tag, and a subscription
\* with and without one.
ModeConfigs == {Cfg(1, FALSE, TRUE), Cfg(2, FALSE, FALSE),
                Cfg(1, TRUE, TRUE), Cfg(1, TRUE, FALSE)}
=============================================================================
