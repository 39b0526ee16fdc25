SPECIFICATION Spec
CONSTANTS
    Devices = {d1, d2}
    Endpoints = {e1, e2, e3}
    Callers = {c1, c2}
    MaxConnections = 2
    MaxSessions = 2
    None = None
SYMMETRY Perms
INVARIANTS BindingsAgree SubscriptionsLive
CHECK_DEADLOCK FALSE
