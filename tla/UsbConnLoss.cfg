SPECIFICATION Spec
CONSTANTS
    SeqMod = 3
    WinUnit = 2
    MAX_PACKET_PAYLOAD_SIZE = 3
    HostWindow = 2
    DevBuf = 2
    TxCap = 1
    RxCap = 2
    MaxOut = 2
    MaxIn = 2
    Faults = {}
INVARIANT ClientStreamGapless
CHECK_DEADLOCK FALSE
