SPECIFICATION FairSpec
CONSTANTS
    V1Size = 1
    V2Size = 2
    TcpSize = 2
    VersionSize = 2
    SetupSize = 2
    MAX_PACKET_SIZE = 6
    max_packet_size = 6
    SeqRange = 3
    ChanCap = 2
    Payloads = {0, 2}
    MaxIn = 3
    MaxOut = 3
    MaxPackets = 4
    MaxFaults = 1
INVARIANT TypeOK
INVARIANT ParsedInOrder
INVARIANT OnePacketPerTransfer
INVARIANT WriterNeverStalls
INVARIANT SeqNumbers
PROPERTY PacketsAreParsed
PROPERTY UnplugIsNoticed
CHECK_DEADLOCK FALSE
