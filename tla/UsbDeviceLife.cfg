SPECIFICATION FairSpec
CONSTANTS
    Daemon = {c1}
    Provider = {p1}
    c1 = c1
    p1 = p1
    NoConn = NoConn
    PortMod = 3
    Shards = 1
    MAX_SOURCE_PORT_PROBES = 2
    ChanCap = 1
    TxCap = 1
    WireCap = 1
    Exits = FALSE
INVARIANT TypeOK
INVARIANT NoHalfOpen
INVARIANT ConnectPinsDevice
PROPERTY UnplugWakesHandshake
PROPERTY ShutdownEndsConns
PROPERTY RouteOnlyLostToDevice
CHECK_DEADLOCK FALSE
