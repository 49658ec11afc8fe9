------------------------------- MODULE UsbConn -------------------------------
(***************************************************************************)
(* One established TCP-over-USB connection (UsbDeviceConn) and the daemon   *)
(* task that forwards bytes between a client socket and the device          *)
(* (handle_usb_device_connect).  The handshake is over: Init is the state   *)
(* UsbDeviceConn::new leaves.                                               *)
(*                                                                          *)
(* Bytes are stream positions.  Position 0 of both directions is the SYN,   *)
(* so data starts at position 1.  A u32 counter of the code is a number     *)
(* modulo SeqMod; the field or variable next to it that never wraps (pos,   *)
(* at, sentTotal, ackedTotal, rcvdTotal) is a history variable: no guard    *)
(* of the daemon reads it.                                                  *)
(***************************************************************************)
EXTENDS Integers, Sequences

CONSTANTS
    SeqMod,                  \* 2^32 in the code: sequence numbers are u32
    WinUnit,                 \* 256: windows travel shifted right by 8 bits
    MAX_PACKET_PAYLOAD_SIZE,
    HostWindow,              \* bytes the device may have unacknowledged (WINDOW_SIZE << 8)
    DevBuf,                  \* receive buffer of the device, in bytes
    TxCap,                   \* writer channel capacity, 256 in the code
    RxCap,                   \* capacity of the channel the router feeds, 256 in the code
    MaxOut, MaxIn,           \* bounds: bytes written by the client, by the device
    Faults                   \* bound: the ways in which a connection may be ended

ASSUME ConnAssumption ==
    /\ SeqMod \in Nat /\ SeqMod > 1
    /\ WinUnit \in Nat \ {0}
    /\ MAX_PACKET_PAYLOAD_SIZE \in Nat \ {0}
    /\ HostWindow \in Nat
    /\ DevBuf \in Nat /\ DevBuf < SeqMod
    /\ TxCap \in Nat \ {0}
    /\ RxCap \in Nat \ {0}
    /\ MaxOut \in Nat
    /\ MaxIn \in Nat
    /\ Faults \subseteq {"unplug", "reset", "shutdown", "leave"}

VARIABLES
    \* fields of UsbDeviceConn
    sent_bytes, received_bytes, sendable_bytes,
    device_last_window_size, device_last_received_bytes, dropped,
    sentTotal, rcvdTotal, ackedTotal,
    \* channels
    rx,           \* router -> connection
    rxOpen,       \* the router still holds the sending half of rx
    tx,           \* this connection's packets in the writer channel
    others,       \* number of other connections' packets in the writer channel
    writerOn,     \* the writer loop still holds the receiving half of tx
    \* the forwarding task
    pc,
    held,         \* packet taken from rx by recv and not yet forwarded
    outLen,       \* bytes taken from read_buf by the client branch
    read_buf,     \* bytes in the task's buffer
    \* the client
    written,      \* bytes the client wrote into its socket
    taken,        \* bytes the task read from the socket
    clientOpen,
    clientEnd,    \* device stream position after the last byte the client was given
    \* the device and the cable
    up, devOpen, devRcvd, devRead, devSent, devAckd,
    announced,    \* acknowledgement and window of the last packet the device sent
    \* UsbDevice::shutdown
    cancelled, closeAll,
    rst           \* the RST close_all has built for this connection

connVars   == <<sent_bytes, received_bytes, sendable_bytes,
                device_last_window_size, device_last_received_bytes,
                sentTotal, rcvdTotal, ackedTotal>>
clientVars == <<written, clientOpen>>
deviceVars == <<up, devOpen, devRcvd, devRead, devSent, devAckd, announced>>
stopVars   == <<cancelled, closeAll, rst>>
vars == <<connVars, dropped, rx, rxOpen, tx, others, writerOn, pc, held, outLen,
          read_buf, clientVars, taken, clientEnd, deviceVars, stopVars>>

Lesser(a, b) == IF a < b THEN a ELSE b

PcValues == {"select",   \* all branches of the select! are pending
             "ack",      \* still in the select!, recv is suspended in ack().await
             "forward",  \* recv won, client_send is awaited
             "send",     \* client_read won, send_bytes is awaited
             "close",    \* the client is gone, close is awaited
             "drop",     \* the task returned, the connection is about to be dropped
             "done"}

Flags == {"ACK", "RST"}

NoPacket == [pos |-> 0, len |-> 0]

\* close_all has built no RST.
NoRst == [flag |-> "RST", seq |-> 0, ack |-> 0, len |-> 0, pos |-> 0, at |-> 0]

\* What the daemon sends: seq and ack are u32, pos and at never wrap.
OutPacket == [flag : Flags, seq : 0..SeqMod-1, ack : 0..SeqMod-1, len : Nat, pos : Nat, at : Nat]

RstPacket == [flag : {"RST"}, seq : 0..SeqMod-1, ack : 0..SeqMod-1, len : {0}, pos : Nat, at : Nat]

\* What the device sends.
InPacket == [seq : 0..SeqMod-1, ack : 0..SeqMod-1, win : Nat, len : Nat, pos : Nat, at : Nat]

TypeOK ==
    /\ sent_bytes \in 0..SeqMod-1
    /\ received_bytes \in 0..SeqMod-1
    /\ sendable_bytes \in 0..MAX_PACKET_PAYLOAD_SIZE
    /\ device_last_window_size \in Nat
    /\ device_last_received_bytes \in 0..SeqMod-1
    /\ sentTotal \in Nat /\ rcvdTotal \in Nat /\ ackedTotal \in Nat
    /\ dropped \in BOOLEAN
    /\ rx \in Seq(InPacket) /\ Len(rx) <= RxCap /\ rxOpen \in BOOLEAN
    /\ tx \in Seq(OutPacket) /\ others \in Nat /\ Len(tx) + others <= TxCap
    /\ writerOn \in BOOLEAN
    /\ pc \in PcValues
    /\ held \in [pos : Nat, len : Nat]
    /\ outLen \in Nat /\ read_buf \in Nat
    /\ written \in Nat /\ taken \in Nat /\ clientOpen \in BOOLEAN
    /\ clientEnd \in Nat
    /\ up \in BOOLEAN /\ devOpen \in BOOLEAN
    /\ devRcvd \in Nat /\ devRead \in Nat /\ devSent \in Nat /\ devAckd \in Nat
    /\ announced \in [at : Nat, win : Nat]
    /\ cancelled \in BOOLEAN
    /\ closeAll \in {"no", "build", "rst", "done"}
    /\ rst \in RstPacket

------------------------------------------------------------------------------
(* Window arithmetic.                                                        *)

\* A window as it travels is the number of bytes shifted right by 8 bits.
WinBytes(win) == win * WinUnit

\* A saturating subtraction in place of wrapping_sub.
CalcNoWrap(sent, win, acked) ==
    LET unacked == IF sent > acked THEN sent - acked ELSE 0
        window  == WinBytes(win)
    IN  IF window > unacked THEN Lesser(window - unacked, MAX_PACKET_PAYLOAD_SIZE) ELSE 0

CalcSendable(sent, win, acked) ==
    LET unacked == (sent - acked) % SeqMod
        window  == WinBytes(win)
    IN  IF window > unacked THEN Lesser(window - unacked, MAX_PACKET_PAYLOAD_SIZE) ELSE 0

------------------------------------------------------------------------------
(* The writer channel.                                                       *)

Full == Len(tx) + others >= TxCap

\* build_flag / build_bytes: the headers carry the counters as they are now.
\* rb and rt are received_bytes and its history variable, which recv may just
\* have changed.
Packet(flag, len, rb, rt) ==
    [flag |-> flag, seq |-> sent_bytes, ack |-> rb, len |-> len, pos |-> sentTotal, at |-> rt]

Enqueue(p) == tx' = Append(tx, p)

------------------------------------------------------------------------------
(* UsbDeviceConn::recv inside the select! of handle_usb_device_connect.      *)

\* The packet stays in the channel.
TakePacketPeeks ==
    /\ rx # <<>>
    /\ rx' = rx
    /\ received_bytes' = (Head(rx).seq + Head(rx).len) % SeqMod
    /\ device_last_received_bytes' = Head(rx).ack
    /\ device_last_window_size' = Head(rx).win
    /\ rcvdTotal' = Head(rx).pos + Head(rx).len
    /\ ackedTotal' = Head(rx).at
    /\ held' = [pos |-> Head(rx).pos, len |-> Head(rx).len]
    /\ UNCHANGED <<sent_bytes, sentTotal>>

\* rx.recv() and update_states(): one poll, no suspension in between.
TakePacket ==
    /\ rx # <<>>
    /\ rx' = Tail(rx)
    /\ received_bytes' = (Head(rx).seq + Head(rx).len) % SeqMod
    /\ device_last_received_bytes' = Head(rx).ack
    /\ device_last_window_size' = Head(rx).win
    /\ rcvdTotal' = Head(rx).pos + Head(rx).len
    /\ ackedTotal' = Head(rx).at
    /\ held' = [pos |-> Head(rx).pos, len |-> Head(rx).len]
    /\ UNCHANGED <<sent_bytes, sentTotal>>

\* recv with room in the writer channel: the ACK is queued, update_sendable_bytes
\* runs and the branch wins, all in one poll.
RecvAcked ==
    /\ pc = "select" /\ writerOn /\ ~Full
    /\ TakePacket
    /\ Enqueue(Packet("ACK", 0, received_bytes', rcvdTotal'))
    /\ sendable_bytes' = CalcSendable(sent_bytes, device_last_window_size', device_last_received_bytes')
    /\ pc' = "forward"
    /\ UNCHANGED <<dropped, rxOpen, others, writerOn, outLen, read_buf, clientVars, taken,
                   clientEnd, deviceVars, stopVars>>

\* recv with a full writer channel: suspended in ack().await with the packet in
\* its frame, while the other branches are still polled.
RecvBlocked ==
    /\ pc = "select" /\ writerOn /\ Full
    /\ TakePacket
    /\ pc' = "ack"
    /\ UNCHANGED <<sendable_bytes, dropped, rxOpen, tx, others, writerOn, outLen, read_buf,
                   clientVars, taken, clientEnd, deviceVars, stopVars>>

\* ack without update_sendable_bytes.
AckResumesStale ==
    /\ pc = "ack" /\ writerOn /\ ~Full
    /\ Enqueue(Packet("ACK", 0, received_bytes, rcvdTotal))
    /\ pc' = "forward"
    /\ UNCHANGED <<connVars, dropped, rx, rxOpen, others, writerOn, held, outLen, read_buf,
                   clientVars, taken, clientEnd, deviceVars, stopVars>>

\* The suspended ack().await gets its slot; recv completes.
AckResumes ==
    /\ pc = "ack" /\ writerOn /\ ~Full
    /\ Enqueue(Packet("ACK", 0, received_bytes, rcvdTotal))
    /\ sendable_bytes' = CalcSendable(sent_bytes, device_last_window_size, device_last_received_bytes)
    /\ pc' = "forward"
    /\ UNCHANGED <<sent_bytes, received_bytes, device_last_window_size,
                   device_last_received_bytes, sentTotal, rcvdTotal, ackedTotal, dropped, rx,
                   rxOpen, others, writerOn, held, outLen, read_buf, clientVars, taken,
                   clientEnd, deviceVars, stopVars>>

\* recv fails: the writer loop is gone when the ACK is sent ...
RecvAckFails ==
    /\ pc = "select" /\ ~writerOn
    /\ TakePacket
    /\ pc' = "drop"
    /\ UNCHANGED <<sendable_bytes, dropped, rxOpen, tx, others, writerOn, outLen, read_buf,
                   clientVars, taken, clientEnd, deviceVars, stopVars>>

\* A channel whose sender is gone goes unnoticed.
RecvFailsDeaf ==
    /\ pc = "ack" /\ ~writerOn
    /\ pc' = "drop"
    /\ UNCHANGED <<connVars, dropped, rx, rxOpen, tx, others, writerOn, held, outLen, read_buf,
                   clientVars, taken, clientEnd, deviceVars, stopVars>>

\* ... or while it waits, or the router dropped its sender and rx is drained.
RecvFails ==
    /\ \/ pc = "ack" /\ ~writerOn
       \/ pc = "select" /\ rx = <<>> /\ ~rxOpen
    /\ pc' = "drop"
    /\ UNCHANGED <<connVars, dropped, rx, rxOpen, tx, others, writerOn, held, outLen, read_buf,
                   clientVars, taken, clientEnd, deviceVars, stopVars>>

\* client_send: the whole payload reaches the client ...
ClientSend ==
    /\ pc = "forward" /\ clientOpen
    /\ clientEnd' = IF held.len = 0 THEN clientEnd ELSE held.pos + held.len
    /\ pc' = "select" /\ held' = NoPacket
    /\ UNCHANGED <<connVars, dropped, rx, rxOpen, tx, others, writerOn, outLen, read_buf,
                   clientVars, taken, deviceVars, stopVars>>

\* ... or the client is gone.
ClientSendFails ==
    /\ pc = "forward" /\ ~clientOpen
    /\ pc' = IF held.len = 0 THEN "select" ELSE "drop"
    /\ held' = NoPacket
    /\ UNCHANGED <<connVars, dropped, rx, rxOpen, tx, others, writerOn, outLen, read_buf,
                   clientVars, taken, clientEnd, deviceVars, stopVars>>

------------------------------------------------------------------------------
(* The client branch of the select!.  When it wins, the recv future is       *)
(* dropped: pc = "ack" also enables it and the packet in held is then gone.  *)

InSelect == pc \in {"select", "ack"}

\* The front of the buffer is copied instead of split off.
ClientReadBufferedCopies ==
    /\ InSelect /\ sendable_bytes > 0
    /\ read_buf > 0
    /\ outLen' = Lesser(sendable_bytes, read_buf)
    /\ read_buf' = read_buf
    /\ pc' = "send" /\ held' = NoPacket
    /\ UNCHANGED <<connVars, dropped, rx, rxOpen, tx, others, writerOn, clientVars, taken,
                   clientEnd, deviceVars, stopVars>>

\* client_read with bytes left in read_buf: no system call.
ClientReadBuffered ==
    /\ InSelect /\ sendable_bytes > 0
    /\ read_buf > 0
    /\ outLen' = Lesser(sendable_bytes, read_buf)
    /\ read_buf' = read_buf - outLen'
    /\ pc' = "send" /\ held' = NoPacket
    /\ UNCHANGED <<connVars, dropped, rx, rxOpen, tx, others, writerOn, clientVars, taken,
                   clientEnd, deviceVars, stopVars>>

\* client_read with an empty buffer: k bytes come from the socket, split_to cuts
\* off what the window allows.
ClientReadSocket ==
    /\ InSelect /\ sendable_bytes > 0
    /\ read_buf = 0
    /\ \E k \in 1..(written - taken) :
          /\ taken' = taken + k
          /\ outLen' = Lesser(sendable_bytes, k)
          /\ read_buf' = k - outLen'
    /\ pc' = "send" /\ held' = NoPacket
    /\ UNCHANGED <<connVars, dropped, rx, rxOpen, tx, others, writerOn, clientVars,
                   clientEnd, deviceVars, stopVars>>

\* The socket is at its end: read_buf returns no bytes.
ClientReadEof ==
    /\ InSelect /\ sendable_bytes > 0
    /\ read_buf = 0 /\ written = taken /\ ~clientOpen
    /\ pc' = "close" /\ held' = NoPacket
    /\ UNCHANGED <<connVars, dropped, rx, rxOpen, tx, others, writerOn, outLen, read_buf,
                   clientVars, taken, clientEnd, deviceVars, stopVars>>

\* Reading the socket fails (a client that resets its socket).
ClientReadFails ==
    /\ InSelect /\ sendable_bytes > 0
    /\ read_buf = 0 /\ ~clientOpen
    /\ pc' = "drop" /\ held' = NoPacket
    /\ UNCHANGED <<connVars, dropped, rx, rxOpen, tx, others, writerOn, outLen, read_buf,
                   clientVars, taken, clientEnd, deviceVars, stopVars>>

\* send_packet without add_sent_bytes.
SendBytesUncounted ==
    /\ pc = "send" /\ writerOn /\ ~Full
    /\ Enqueue(Packet("ACK", outLen, received_bytes, rcvdTotal))
    /\ sentTotal' = sentTotal + outLen
    /\ sendable_bytes' = CalcSendable(sent_bytes, device_last_window_size, device_last_received_bytes)
    /\ outLen' = 0
    /\ pc' = "select"
    /\ UNCHANGED <<sent_bytes, received_bytes, device_last_window_size,
                   device_last_received_bytes, rcvdTotal, ackedTotal, dropped, rx, rxOpen,
                   others, writerOn, held, read_buf, clientVars, taken, clientEnd, deviceVars,
                   stopVars>>

\* send_bytes: the packet enters the channel, then add_sent_bytes and
\* update_sendable_bytes.  Nothing else of this connection runs while the task
\* waits for a slot, so the headers built before the wait are the current ones.
SendBytes ==
    /\ pc = "send" /\ writerOn /\ ~Full
    /\ Enqueue(Packet("ACK", outLen, received_bytes, rcvdTotal))
    /\ sent_bytes' = (sent_bytes + outLen) % SeqMod
    /\ sentTotal' = sentTotal + outLen
    /\ sendable_bytes' = CalcSendable(sent_bytes', device_last_window_size, device_last_received_bytes)
    /\ outLen' = 0
    /\ pc' = "select"
    /\ UNCHANGED <<received_bytes, device_last_window_size, device_last_received_bytes,
                   rcvdTotal, ackedTotal, dropped, rx, rxOpen, others, writerOn, held, read_buf,
                   clientVars, taken, clientEnd, deviceVars, stopVars>>

\* set_dropped whether or not the RST found a slot.
CloseUnsent ==
    /\ pc = "close" /\ writerOn
    /\ IF Full THEN UNCHANGED tx ELSE Enqueue(Packet("RST", 0, received_bytes, rcvdTotal))
    /\ dropped' = TRUE
    /\ pc' = "drop"
    /\ UNCHANGED <<connVars, rx, rxOpen, others, writerOn, held, outLen, read_buf, clientVars,
                   taken, clientEnd, deviceVars, stopVars>>

\* close: the RST waits for a slot, then set_dropped.
Close ==
    /\ pc = "close" /\ writerOn /\ ~Full
    /\ Enqueue(Packet("RST", 0, received_bytes, rcvdTotal))
    /\ dropped' = TRUE
    /\ pc' = "drop"
    /\ UNCHANGED <<connVars, rx, rxOpen, others, writerOn, held, outLen, read_buf, clientVars,
                   taken, clientEnd, deviceVars, stopVars>>

\* The writer loop is gone: both awaits return an error.
SendFails ==
    /\ pc \in {"send", "close"} /\ ~writerOn
    /\ pc' = "drop"
    /\ UNCHANGED <<connVars, dropped, rx, rxOpen, tx, others, writerOn, held, outLen, read_buf,
                   clientVars, taken, clientEnd, deviceVars, stopVars>>

\* The wait_shutdown branch.
WaitShutdown ==
    /\ InSelect /\ cancelled
    /\ pc' = "drop"
    /\ UNCHANGED <<connVars, dropped, rx, rxOpen, tx, others, writerOn, held, outLen, read_buf,
                   clientVars, taken, clientEnd, deviceVars, stopVars>>

\* close_all keeps the connection alive until its RST is sent.
HeldByCloseAll == closeAll \in {"build", "rst"}

\* The RST is forced into a full channel.
DropConnForced ==
    /\ pc = "drop" /\ ~HeldByCloseAll
    /\ IF ~dropped /\ writerOn
       THEN /\ Enqueue(Packet("RST", 0, received_bytes, rcvdTotal))
            /\ dropped' = TRUE
       ELSE UNCHANGED <<tx, dropped>>
    /\ pc' = "done"
    /\ rx' = <<>> /\ held' = NoPacket /\ outLen' = 0 /\ read_buf' = 0
    /\ UNCHANGED <<connVars, rxOpen, others, writerOn, clientVars, taken, clientEnd, deviceVars,
                   stopVars>>

\* Drop for UsbDeviceConn: try_send, so a full or closed channel loses the RST.
DropConn ==
    /\ pc = "drop" /\ ~HeldByCloseAll
    /\ IF ~dropped /\ writerOn /\ ~Full
       THEN /\ Enqueue(Packet("RST", 0, received_bytes, rcvdTotal))
            /\ dropped' = TRUE
       ELSE UNCHANGED <<tx, dropped>>
    /\ pc' = "done"
    /\ rx' = <<>> /\ held' = NoPacket /\ outLen' = 0 /\ read_buf' = 0
    /\ UNCHANGED <<connVars, rxOpen, others, writerOn, clientVars, taken, clientEnd, deviceVars,
                   stopVars>>

------------------------------------------------------------------------------
(* The writer loop and the other users of its channel.                       *)

\* What the device does with a packet that arrives on the cable.
DeviceTakes(p) ==
    /\ devOpen' = (devOpen /\ p.flag # "RST")
    /\ devRcvd' = devRcvd + p.len
    /\ devAckd' = p.at
    /\ UNCHANGED <<up, devRead, devSent, announced>>

\* start_writer_loop: one packet is written.  With the cable gone every write
\* fails and the loop continues with the next packet.
WriterStep ==
    /\ writerOn /\ tx # <<>>
    /\ tx' = Tail(tx)
    /\ IF up /\ devOpen THEN DeviceTakes(Head(tx)) ELSE UNCHANGED deviceVars
    /\ UNCHANGED <<connVars, dropped, rx, rxOpen, others, writerOn, pc, held, outLen, read_buf,
                   clientVars, taken, clientEnd, stopVars>>

\* Other connections of the same device use the same channel.
OthersEnqueue ==
    /\ writerOn /\ ~Full
    /\ others' = others + 1
    /\ UNCHANGED <<connVars, dropped, rx, rxOpen, tx, writerOn, pc, held, outLen, read_buf,
                   clientVars, taken, clientEnd, deviceVars, stopVars>>

OthersWritten ==
    /\ writerOn /\ others > 0
    /\ others' = others - 1
    /\ UNCHANGED <<connVars, dropped, rx, rxOpen, tx, writerOn, pc, held, outLen, read_buf,
                   clientVars, taken, clientEnd, deviceVars, stopVars>>

------------------------------------------------------------------------------
(* Reader loop, router and device shutdown, as this connection sees them.    *)

daemonVars == <<connVars, dropped, tx, others, writerOn, pc, held, outLen, read_buf, clientVars,
                taken, clientEnd, stopVars>>

\* The device sends a packet and the reader loop routes it.  The window never
\* promises more than the free part of the receive buffer, and a packet without
\* data is only sent when it says something new: a window update is not repeated.
DeviceSend(len, win) ==
    /\ up /\ devOpen /\ rxOpen /\ pc # "done"
    /\ Len(rx) < RxCap
    /\ devSent + len - devAckd <= HostWindow
    /\ devSent + len <= MaxIn + 1
    /\ WinBytes(win) <= DevBuf - (devRcvd - devRead)
    /\ len = 0 => announced # [at |-> devRcvd, win |-> win]
    /\ rx' = Append(rx, [seq |-> devSent % SeqMod, ack |-> devRcvd % SeqMod, win |-> win,
                         len |-> len, pos |-> devSent, at |-> devRcvd])
    /\ devSent' = devSent + len
    /\ announced' = [at |-> devRcvd, win |-> win]
    /\ UNCHANGED <<daemonVars, rxOpen, up, devOpen, devRcvd, devRead, devAckd>>

FreeWindow == (DevBuf - (devRcvd - devRead)) \div WinUnit

\* The service on the device reads what its TCP stack has received.
DeviceReads ==
    /\ up /\ devRead < devRcvd
    /\ devRead' = devRcvd
    /\ UNCHANGED <<daemonVars, rx, rxOpen, up, devOpen, devRcvd, devSent, devAckd, announced>>

\* The device resets the connection: the reader loop unregisters the port.
DeviceRst ==
    /\ "reset" \in Faults /\ up /\ devOpen
    /\ devOpen' = FALSE
    /\ rxOpen' = FALSE
    /\ UNCHANGED <<daemonVars, rx, up, devRcvd, devRead, devSent, devAckd, announced>>

Unplug ==
    /\ "unplug" \in Faults /\ up
    /\ up' = FALSE
    /\ UNCHANGED <<daemonVars, rx, rxOpen, devOpen, devRcvd, devRead, devSent, devAckd, announced>>

\* The read fails with an I/O error: router.clear() drops every sender.
ReaderIoError ==
    /\ ~up /\ rxOpen
    /\ rxOpen' = FALSE
    /\ UNCHANGED <<daemonVars, rx, deviceVars>>

\* UsbDevice::shutdown: cancel first ...
Shutdown ==
    /\ "shutdown" \in Faults /\ ~cancelled
    /\ cancelled' = TRUE
    /\ UNCHANGED <<connVars, dropped, rx, rxOpen, tx, others, writerOn, pc, held, outLen,
                   read_buf, clientVars, taken, clientEnd, deviceVars, closeAll, rst>>

\* ... then close_all takes the connections from the router ...
CloseAllTake ==
    /\ cancelled /\ closeAll = "no"
    /\ closeAll' = IF rxOpen /\ pc # "done" THEN "build" ELSE "done"
    /\ rxOpen' = FALSE
    /\ UNCHANGED <<connVars, dropped, rx, tx, others, writerOn, pc, held, outLen, read_buf,
                   clientVars, taken, clientEnd, deviceVars, cancelled, rst>>

\* ... builds an RST for each in turn ...
CloseAllBuild ==
    /\ closeAll = "build"
    /\ rst' = Packet("RST", 0, received_bytes, rcvdTotal)
    /\ closeAll' = "rst"
    /\ UNCHANGED <<connVars, dropped, rx, rxOpen, tx, others, writerOn, pc, held, outLen, read_buf,
                   clientVars, taken, clientEnd, deviceVars, cancelled>>

\* ... and queues it when there is a slot, or fails once the writer loop is gone.
\* The forwarding task may have queued packets since the RST was built.
CloseAllRst ==
    /\ closeAll = "rst"
    /\ IF writerOn THEN ~Full /\ Enqueue(rst) ELSE UNCHANGED tx
    /\ closeAll' = "done" /\ rst' = NoRst
    /\ UNCHANGED <<connVars, dropped, rx, rxOpen, others, writerOn, pc, held, outLen, read_buf,
                   clientVars, taken, clientEnd, deviceVars, cancelled>>

\* The writer task sees the cancellation; what is still queued is dropped with it.
WriterStops ==
    /\ cancelled /\ writerOn
    /\ writerOn' = FALSE
    /\ tx' = <<>> /\ others' = 0
    /\ UNCHANGED <<connVars, dropped, rx, rxOpen, pc, held, outLen, read_buf, clientVars, taken,
                   clientEnd, deviceVars, stopVars>>

------------------------------------------------------------------------------
(* The client.                                                               *)

ClientWrites ==
    /\ clientOpen /\ written < MaxOut /\ pc # "done"
    /\ \E n \in 1..(MaxOut - written) : written' = written + n
    /\ UNCHANGED <<connVars, dropped, rx, rxOpen, tx, others, writerOn, pc, held, outLen,
                   read_buf, clientOpen, taken, clientEnd, deviceVars, stopVars>>

ClientCloses ==
    /\ "leave" \in Faults /\ clientOpen
    /\ clientOpen' = FALSE
    /\ UNCHANGED <<connVars, dropped, rx, rxOpen, tx, others, writerOn, pc, held, outLen,
                   read_buf, written, taken, clientEnd, deviceVars, stopVars>>

------------------------------------------------------------------------------

Init ==
    /\ sent_bytes = 1 % SeqMod /\ sentTotal = 1
    /\ received_bytes = 1 % SeqMod /\ rcvdTotal = 1
    /\ device_last_received_bytes = 1 % SeqMod /\ ackedTotal = 1
    /\ device_last_window_size \in 0..(DevBuf \div WinUnit)
    /\ sendable_bytes = CalcSendable(sent_bytes, device_last_window_size, device_last_received_bytes)
    /\ dropped = FALSE
    /\ rx = <<>> /\ rxOpen = TRUE
    /\ tx = <<>> /\ others = 0 /\ writerOn = TRUE
    /\ pc = "select" /\ held = NoPacket /\ outLen = 0 /\ read_buf = 0
    /\ written = 0 /\ taken = 0 /\ clientOpen = TRUE /\ clientEnd = 1
    /\ up = TRUE /\ devOpen = TRUE
    /\ devRcvd = 1 /\ devRead = 1 /\ devSent = 1 /\ devAckd = 1
    /\ announced = [at |-> 1, win |-> device_last_window_size]
    /\ cancelled = FALSE /\ closeAll = "no" /\ rst = NoRst

\* The forwarding task.
TaskNext ==
    \/ RecvAcked \/ RecvBlocked \/ AckResumes \/ RecvAckFails \/ RecvFails
    \/ ClientSend \/ ClientSendFails
    \/ ClientReadBuffered \/ ClientReadSocket \/ ClientReadEof \/ ClientReadFails
    \/ SendBytes \/ Close \/ SendFails \/ WaitShutdown \/ DropConn

DeviceNext ==
    \/ \E len \in 0..MaxIn, win \in 0..(DevBuf \div WinUnit) : DeviceSend(len, win)
    \/ DeviceReads \/ DeviceRst \/ Unplug

LoopNext ==
    \/ WriterStep \/ OthersEnqueue \/ OthersWritten
    \/ ReaderIoError \/ Shutdown \/ CloseAllTake \/ CloseAllBuild \/ CloseAllRst
    \/ WriterStops

Next == TaskNext \/ DeviceNext \/ LoopNext \/ ClientWrites \/ ClientCloses

Spec == Init /\ [][Next]_vars

\* The runtime polls every ready task; a sender waiting for a slot of the channel
\* gets one when slots keep coming free, and the random select! does not ignore
\* the client for ever.  The client reads what it is sent, and the device reads
\* its buffer and announces it (external).
Fairness ==
    /\ WF_vars(RecvAcked \/ RecvBlocked) /\ WF_vars(RecvAckFails \/ RecvFails)
    /\ SF_vars(AckResumes) /\ SF_vars(SendBytes) /\ SF_vars(Close)
    /\ SF_vars(ClientReadBuffered \/ ClientReadSocket \/ ClientReadEof)
    /\ WF_vars(ClientSend \/ ClientSendFails) /\ WF_vars(SendFails)
    /\ WF_vars(WaitShutdown) /\ WF_vars(DropConn)
    /\ WF_vars(WriterStep) /\ WF_vars(OthersWritten) /\ WF_vars(WriterStops)
    /\ WF_vars(ReaderIoError) /\ WF_vars(CloseAllTake)
    /\ WF_vars(CloseAllBuild) /\ WF_vars(CloseAllRst)
    /\ WF_vars(DeviceReads) /\ SF_vars(DeviceSend(0, FreeWindow))

FairSpec == Spec /\ Fairness

------------------------------------------------------------------------------
(* Properties.                                                               *)

\* Flow control: whatever the interleaving of windows, cancelled receives and
\* counter wrap-around, the bytes handed to the writer never exceed what the
\* device has read plus its receive buffer (calc_sendable_bytes, client_read).
DeviceNeverOverrun == sentTotal <= devRead + DevBuf

\* The packet about to be written continues the stream exactly where the device
\* is: its sequence number is the next one the device expects, and it
\* acknowledges bytes the device has sent, never fewer than before.  sent_bytes
\* is advanced only after the packet is queued, and a receive may be cancelled
\* after update_states.  Left out are the RSTs after the cancellation of the device:
\* the one of close_all is built before it waits for a slot and may be behind the
\* stream, and close and Drop may still add theirs behind it.
HeadersMatchStreams ==
    (tx # <<>> /\ up /\ devOpen /\ (Head(tx).flag = "RST" => ~cancelled)) =>
        /\ Head(tx).pos = devRcvd /\ Head(tx).seq = devRcvd % SeqMod
        /\ Head(tx).ack = Head(tx).at % SeqMod
        /\ devAckd <= Head(tx).at /\ Head(tx).at <= devSent

\* Every byte read from the client's socket is sent, being sent or in read_buf:
\* the part of a read that exceeds the window survives the loop iteration.
ClientBytesAccounted ==
    pc \notin {"drop", "done"} => sentTotal + outLen + read_buf = taken + 1

\* The client is never handed a device byte twice or out of order.
ClientStreamOrdered ==
    (pc \in {"ack", "forward"} /\ held.len > 0) => held.pos >= clientEnd

\* The client is handed every device byte the daemon acknowledged.
ClientStreamGapless ==
    (pc = "forward" /\ held.len > 0) => held.pos = clientEnd

\* set_dropped keeps Drop from sending an RST, so it may only be set when one is
\* on its way: while the device is reachable it has been reset or an RST is queued.
DroppedMeansReset ==
    (dropped /\ up /\ writerOn) =>
        \/ ~devOpen
        \/ \E i \in 1..Len(tx) : tx[i].flag = "RST"

\* Every byte the client writes reaches the device unless the connection ends: a
\* closed window that reopens is always noticed, also when the receive that
\* carried the update was cancelled.
ClientBytesReachDevice ==
    \A n \in 1..MaxOut : (written >= n) ~> (devRcvd > n \/ pc = "done")

\* After a shutdown, an unplugged cable or a reset by the device the forwarding
\* task ends, wherever it was suspended.
DisconnectEndsTask == (cancelled \/ ~up \/ ~rxOpen) ~> (pc = "done")
=============================================================================
