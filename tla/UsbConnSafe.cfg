SPECIFICATION Spec
CONSTANTS
    SeqMod = 3
    WinUnit = 2
    MAX_PACKET_PAYLOAD_SIZE = 3
    HostWindow = 2
    DevBuf = 2
    TxCap = 1
    RxCap = 1
    MaxOut = 3
    MaxIn = 2
    Faults = {"unplug", "reset", "shutdown", "leave"}
INVARIANT TypeOK
INVARIANT DeviceNeverOverrun
INVARIANT ClientBytesAccounted
INVARIANT DroppedMeansReset
INVARIANT HeadersMatchStreams
INVARIANT ClientStreamOrdered
CHECK_DEADLOCK FALSE
