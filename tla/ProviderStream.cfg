SPECIFICATION FairSpec
CONSTANTS
    MAX_PACKET_PAYLOAD_SIZE = 3
    HostWindow = 1
    DevBuf = 1
    TxCap = 1
    RxCap = 1
    MaxOut = 3
    MaxIn = 2
    Faults = {"lost", "shutdown", "drop"}
INVARIANT TypeOK
INVARIANT AckedIsKept
INVARIANT WindowRespected
INVARIANT DataBeforeError
PROPERTY IsBytePipe
PROPERTY WriteEnds
PROPERTY ReadEnds
CHECK_DEADLOCK FALSE
