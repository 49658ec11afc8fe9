SPECIFICATION FairSpec
CONSTANTS
    SeqMod = 2
    WinUnit = 1
    MAX_PACKET_PAYLOAD_SIZE = 3
    HostWindow = 0
    DevBuf = 1
    TxCap = 1
    RxCap = 1
    MaxOut = 2
    MaxIn = 0
    Faults = {"unplug", "reset", "shutdown", "leave"}
PROPERTY ClientBytesReachDevice
PROPERTY DisconnectEndsTask
CHECK_DEADLOCK FALSE
