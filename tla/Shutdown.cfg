SPECIFICATION FairGatewaySpec
CONSTANTS
    p1 = p1
    p2 = p2
    modbus = modbus
    opcua = opcua
    s7 = s7
    Pollers = {p1, p2}
    Pushers = {n1}
    Requests = {q1, q2}
    Pools = {modbus, opcua, s7}
    OPCUA = opcua
    PoolOf <- MCPoolOf
    Slow = {"requests", "pollers"}
INVARIANTS NoUseAfterClose NoProducerAtDisconnect
PROPERTY ShutdownEnds
CHECK_DEADLOCK FALSE
