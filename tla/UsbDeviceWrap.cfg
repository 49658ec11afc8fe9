SPECIFICATION Spec
CONSTANTS
    Daemon = {c1}
    Provider = {p1}
    c1 = c1
    p1 = p1
    NoConn = NoConn
    PortMod = 2
    Shards = 1
    MAX_SOURCE_PORT_PROBES = 2
    ChanCap = 1
    TxCap = 2
    WireCap = 2
    Exits = TRUE
PROPERTY RouteOnlyLostByPort
CHECK_DEADLOCK FALSE
