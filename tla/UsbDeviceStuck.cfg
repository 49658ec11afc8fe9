SPECIFICATION FairSpec
CONSTANTS
    Daemon = {c1}
    Provider = {}
    c1 = c1
    NoConn = NoConn
    PortMod = 5
    Shards = 1
    MAX_SOURCE_PORT_PROBES = 2
    ChanCap = 1
    TxCap = 1
    WireCap = 1
    Exits = FALSE
PROPERTY UnplugRemovesDevice
CHECK_DEADLOCK FALSE
