---------------------------- MODULE ProviderStream ----------------------------
(***************************************************************************)
(* RusbmuxStream: the poll functions through which the library's user reads *)
(* and writes one established connection, without the daemon's forwarding   *)
(* task.  The user has &mut access, so one call is in progress at a time; a *)
(* step is one round of the loop of a poll function, and between two steps  *)
(* only the other ends of the channels move.  A call that is Pending may be *)
(* cancelled.                                                               *)
(*                                                                          *)
(* Bytes are stream positions counted from 1, position 0 being the SYN.     *)
(* Counters do not wrap here: UsbConn has the same arithmetic modulo 2^32.  *)
(***************************************************************************)
EXTENDS Integers, Sequences

CONSTANTS
    MAX_PACKET_PAYLOAD_SIZE,
    HostWindow,              \* bytes the device may have unacknowledged
    DevBuf,                  \* receive buffer of the device, in bytes
    TxCap,                   \* writer channel capacity, 256 in the code
    RxCap,                   \* capacity of the channel the router feeds, 256 in the code
    MaxOut, MaxIn,           \* bounds: bytes the user writes, the device sends
    Faults                   \* bound: the ways in which a connection may be ended

ASSUME StreamAssumption ==
    /\ MAX_PACKET_PAYLOAD_SIZE \in Nat \ {0}
    /\ HostWindow \in Nat /\ DevBuf \in Nat
    /\ TxCap \in Nat \ {0} /\ RxCap \in Nat \ {0}
    /\ MaxOut \in Nat /\ MaxIn \in Nat
    /\ Faults \subseteq {"lost", "shutdown", "drop"}

VARIABLES
    \* UsbDeviceConn
    sent_bytes, received_bytes, sendable_bytes,
    device_last_window_size, device_last_received_bytes, dropped,
    \* RusbmuxStream
    read_buf,        \* positions of the bytes received and not read yet
    need_ack, write_packet, last_write_len,
    \* channels
    rx, rxOpen,      \* router -> stream; the router still holds the sending half
    tx,              \* this connection's packets in the writer channel
    writerOn,        \* the writer loop still holds the receiving half of tx
    \* the user
    call,
    buf,             \* length of the buffer of the call in progress
    again,           \* length of the buffer of a cancelled write, to be submitted again
    failedOn,        \* the call that returned an error
    accepted,        \* bytes reported as written
    got,             \* positions of the bytes read
    \* the device and the cable
    devOpen, arrived, devRead, devSent, devAckd, announced

connVars   == <<sent_bytes, received_bytes, sendable_bytes, device_last_window_size,
                device_last_received_bytes>>
streamVars == <<read_buf, need_ack, write_packet, last_write_len>>
userVars   == <<call, buf, again, failedOn, accepted, got>>
deviceVars == <<devOpen, arrived, devRead, devSent, devAckd, announced>>
vars == <<connVars, dropped, streamVars, rx, rxOpen, tx, writerOn, userVars, deviceVars>>

Lesser(a, b) == IF a < b THEN a ELSE b

\* The n bytes of a stream from position a on.
Run(a, n) == [i \in 1..n |-> a + i - 1]

\* What the device has received, the SYN included.
devRcvd == Len(arrived) + 1

Calls == {"none", "read", "write", "shutdown", "gone"}

\* data is the position of the first byte the user gave.
OutPacket == [flag : {"ACK", "RST"}, seq : Nat, ack : Nat, data : Nat, len : Nat]

InPacket == [seq : Nat, ack : Nat, win : Nat, len : Nat]

NoPacket == [flag |-> "ACK", seq |-> 0, ack |-> 0, data |-> 0, len |-> 0]

TypeOK ==
    /\ sent_bytes \in Nat /\ received_bytes \in Nat
    /\ sendable_bytes \in 0..MAX_PACKET_PAYLOAD_SIZE
    /\ device_last_window_size \in Nat /\ device_last_received_bytes \in Nat
    /\ dropped \in BOOLEAN
    /\ read_buf \in Seq(Nat) /\ need_ack \in BOOLEAN
    /\ write_packet \in OutPacket /\ last_write_len \in Nat
    /\ rx \in Seq(InPacket) /\ Len(rx) <= RxCap /\ rxOpen \in BOOLEAN
    /\ tx \in Seq(OutPacket) /\ Len(tx) <= TxCap
    /\ writerOn \in BOOLEAN
    /\ call \in Calls /\ buf \in Nat /\ again \in Nat
    /\ failedOn \in {"no", "read", "write", "shutdown"}
    /\ accepted \in Nat /\ got \in Seq(Nat)
    /\ devOpen \in BOOLEAN
    /\ arrived \in Seq(Nat) /\ devRead \in Nat /\ devSent \in Nat /\ devAckd \in Nat
    /\ announced \in [at : Nat, win : Nat]

------------------------------------------------------------------------------
(* The connection's counters and the writer channel.                         *)

CalcSendable(sent, win, acked) ==
    LET unacked == sent - acked
    IN  IF win > unacked THEN Lesser(win - unacked, MAX_PACKET_PAYLOAD_SIZE) ELSE 0

Sendable == CalcSendable(sent_bytes, device_last_window_size, device_last_received_bytes)

\* Other connections share the channel: see UsbConn.
Full == Len(tx) >= TxCap

\* build_flag and build_bytes: the headers carry the counters as they are now.
Packet(flag, len) ==
    [flag |-> flag, seq |-> sent_bytes, ack |-> received_bytes, data |-> accepted + 1, len |-> len]

HasPacket == write_packet # NoPacket

------------------------------------------------------------------------------
(* The rounds of poll_read and poll_write.                                   *)

Polled == call \in {"read", "write"}

\* poll_send_flag without update_sendable_bytes.
SendAckStale ==
    /\ Polled /\ need_ack /\ writerOn /\ ~Full
    /\ tx' = Append(tx, Packet("ACK", 0))
    /\ need_ack' = FALSE
    /\ UNCHANGED <<connVars, dropped, read_buf, write_packet, last_write_len, rx, rxOpen,
                   writerOn, userVars, deviceVars>>

\* A received packet is acknowledged before anything else is done.
SendAck ==
    /\ Polled /\ need_ack /\ writerOn /\ ~Full
    /\ tx' = Append(tx, Packet("ACK", 0))
    /\ sendable_bytes' = Sendable
    /\ need_ack' = FALSE
    /\ UNCHANGED <<sent_bytes, received_bytes, device_last_window_size, device_last_received_bytes,
                   dropped, read_buf, write_packet, last_write_len, rx, rxOpen, writerOn,
                   userVars, deviceVars>>

\* poll_read: buffered bytes are handed over and the call returns.
ReadBuffered ==
    /\ call = "read" /\ ~need_ack /\ read_buf # <<>>
    /\ LET n == Lesser(Len(read_buf), buf)
       IN  /\ got' = got \o SubSeq(read_buf, 1, n)
           /\ read_buf' = SubSeq(read_buf, n + 1, Len(read_buf))
    /\ call' = "none" /\ buf' = 0
    /\ UNCHANGED <<connVars, dropped, need_ack, write_packet, last_write_len, rx, rxOpen, tx,
                   writerOn, again, failedOn, accepted, deviceVars>>

\* poll_recv is next: a read without bytes, or a write without a window, which
\* reads to widen it.
AtRecv ==
    /\ ~need_ack
    /\ \/ call = "read" /\ read_buf = <<>>
       \/ call = "write" /\ ~HasPacket /\ sendable_bytes = 0

\* The payload replaces what is buffered.
PollRecvReplaces ==
    /\ AtRecv /\ rx # <<>>
    /\ LET p == Head(rx)
       IN  /\ received_bytes' = p.seq + p.len
           /\ device_last_received_bytes' = p.ack
           /\ device_last_window_size' = p.win
           /\ read_buf' = Run(p.seq, p.len)
    /\ rx' = Tail(rx) /\ need_ack' = TRUE
    /\ UNCHANGED <<sent_bytes, sendable_bytes, dropped, write_packet, last_write_len, rxOpen, tx, writerOn, userVars, deviceVars>>

PollRecv ==
    /\ AtRecv /\ rx # <<>>
    /\ LET p == Head(rx)
       IN  /\ received_bytes' = p.seq + p.len
           /\ device_last_received_bytes' = p.ack
           /\ device_last_window_size' = p.win
           /\ read_buf' = read_buf \o Run(p.seq, p.len)
    /\ rx' = Tail(rx) /\ need_ack' = TRUE
    /\ UNCHANGED <<sent_bytes, sendable_bytes, dropped, write_packet, last_write_len, rxOpen, tx, writerOn, userVars, deviceVars>>

\* The whole buffer, whatever the window.
BuildPacketWhole ==
    /\ call = "write" /\ ~need_ack /\ ~HasPacket /\ sendable_bytes > 0
    /\ last_write_len' = Lesser(buf, MAX_PACKET_PAYLOAD_SIZE)
    /\ write_packet' = Packet("ACK", last_write_len')
    /\ UNCHANGED <<connVars, dropped, read_buf, need_ack, rx, rxOpen, tx, writerOn,
                   userVars, deviceVars>>

\* poll_write cuts a packet off the caller's buffer.
BuildPacket ==
    /\ call = "write" /\ ~need_ack /\ ~HasPacket /\ sendable_bytes > 0
    /\ last_write_len' = Lesser(buf, sendable_bytes)
    /\ write_packet' = Packet("ACK", last_write_len')
    /\ UNCHANGED <<connVars, dropped, read_buf, need_ack, rx, rxOpen, tx, writerOn,
                   userVars, deviceVars>>

\* The call reports its whole buffer.
SendPendingWhole ==
    /\ call = "write" /\ ~need_ack /\ HasPacket /\ writerOn /\ ~Full
    /\ tx' = Append(tx, write_packet) /\ write_packet' = NoPacket
    /\ sent_bytes' = sent_bytes + write_packet.len
    /\ sendable_bytes' = CalcSendable(sent_bytes', device_last_window_size, device_last_received_bytes)
    /\ accepted' = accepted + buf /\ last_write_len' = 0
    /\ call' = "none" /\ buf' = 0 /\ again' = 0
    /\ UNCHANGED <<received_bytes, device_last_window_size, device_last_received_bytes, dropped,
                   read_buf, need_ack, rx, rxOpen, writerOn, failedOn, got, deviceVars>>

\* poll_send_pending: the packet enters the channel and the call reports its length.
SendPending ==
    /\ call = "write" /\ ~need_ack /\ HasPacket /\ writerOn /\ ~Full
    /\ tx' = Append(tx, write_packet) /\ write_packet' = NoPacket
    /\ sent_bytes' = sent_bytes + write_packet.len
    /\ sendable_bytes' = CalcSendable(sent_bytes', device_last_window_size, device_last_received_bytes)
    /\ accepted' = accepted + last_write_len /\ last_write_len' = 0
    /\ call' = "none" /\ buf' = 0 /\ again' = 0
    /\ UNCHANGED <<received_bytes, device_last_window_size, device_last_received_bytes, dropped,
                   read_buf, need_ack, rx, rxOpen, writerOn, failedOn, got, deviceVars>>

\* poll_shutdown: the RST is queued, then set_dropped; a second call returns at once.
PollShutdown ==
    /\ call = "shutdown"
    /\ \/ /\ ~dropped /\ writerOn /\ ~Full
          /\ tx' = Append(tx, Packet("RST", 0))
          /\ sendable_bytes' = Sendable
          /\ need_ack' = FALSE /\ dropped' = TRUE
       \/ dropped /\ UNCHANGED <<tx, sendable_bytes, need_ack, dropped>>
    /\ call' = "none"
    /\ UNCHANGED <<sent_bytes, received_bytes, device_last_window_size, device_last_received_bytes,
                   read_buf, write_packet, last_write_len, rx, rxOpen, writerOn, buf, again,
                   failedOn, accepted, got, deviceVars>>

\* The next poll_send finds the channel closed.
SendDisconnected ==
    /\ ~writerOn
    /\ \/ Polled /\ need_ack
       \/ call = "write" /\ HasPacket
       \/ call = "shutdown" /\ ~dropped

\* A closed channel is reported although packets wait in it.
RecvDisconnectedEarly == AtRecv /\ ~rxOpen

\* poll_recv finds its channel closed and drained.
RecvDisconnected == AtRecv /\ rx = <<>> /\ ~rxOpen

\* The end of the channel the router feeds goes unnoticed.
CallFailsDeaf ==
    /\ SendDisconnected
    /\ failedOn' = call
    /\ call' = "none" /\ buf' = 0 /\ again' = 0
    /\ write_packet' = IF call = "write" /\ ~need_ack THEN NoPacket ELSE write_packet
    /\ UNCHANGED <<connVars, dropped, read_buf, need_ack, last_write_len, rx, rxOpen, tx, writerOn,
                   accepted, got, deviceVars>>

\* A call returns NotConnected; a packet taken for poll_send is gone with it.
CallFails ==
    /\ SendDisconnected \/ RecvDisconnected
    /\ failedOn' = call
    /\ call' = "none" /\ buf' = 0 /\ again' = 0
    /\ write_packet' = IF call = "write" /\ ~need_ack THEN NoPacket ELSE write_packet
    /\ UNCHANGED <<connVars, dropped, read_buf, need_ack, last_write_len, rx, rxOpen, tx,
                   writerOn, accepted, got, deviceVars>>

------------------------------------------------------------------------------
(* The user (external).                                                      *)

userPass == UNCHANGED <<connVars, dropped, streamVars, rx, rxOpen, tx, writerOn, failedOn,
                        accepted, got, deviceVars>>

\* No call follows a failed one but a read after a failed write; nothing is written
\* after a shutdown.  A write that was cancelled is submitted again.
CallRead ==
    /\ call = "none" /\ failedOn \in {"no", "write"}
    /\ call' = "read" /\ buf' \in 1..2 /\ UNCHANGED again
    /\ userPass

CallWrite ==
    /\ call = "none" /\ failedOn = "no" /\ ~dropped
    /\ \E n \in 1..(MaxOut - accepted) :
          /\ again # 0 => n = again
          /\ call' = "write" /\ buf' = n
    /\ UNCHANGED again
    /\ userPass

CallShutdown ==
    /\ call = "none" /\ failedOn = "no"
    /\ call' = "shutdown" /\ UNCHANGED <<buf, again>>
    /\ userPass

\* The call in progress has returned Pending.
Pending ==
    \/ Polled /\ need_ack /\ writerOn /\ Full
    \/ call = "write" /\ ~need_ack /\ HasPacket /\ writerOn /\ Full
    \/ call = "shutdown" /\ ~dropped /\ writerOn /\ Full
    \/ AtRecv /\ rx = <<>> /\ rxOpen

\* A timeout or a select! of the user drops the future.
Cancel ==
    /\ Pending
    /\ again' = IF call = "write" THEN buf ELSE again
    /\ call' = "none" /\ buf' = 0
    /\ userPass

\* The RST is forced into a full channel.
DropStreamForced ==
    /\ "drop" \in Faults
    /\ call = "none" \/ Pending
    /\ \/ /\ ~dropped /\ writerOn
          /\ tx' = Append(tx, Packet("RST", 0)) /\ dropped' = TRUE
       \/ (dropped \/ ~writerOn) /\ UNCHANGED <<tx, dropped>>
    /\ call' = "gone" /\ buf' = 0 /\ again' = 0
    /\ rx' = <<>> /\ read_buf' = <<>> /\ need_ack' = FALSE
    /\ write_packet' = NoPacket /\ last_write_len' = 0
    /\ UNCHANGED <<connVars, rxOpen, writerOn, failedOn, accepted, got, deviceVars>>

\* The stream is dropped: Drop for UsbDeviceConn tries to send an RST.
DropStream ==
    /\ "drop" \in Faults
    /\ call = "none" \/ Pending
    /\ \/ /\ ~dropped /\ writerOn /\ ~Full
          /\ tx' = Append(tx, Packet("RST", 0)) /\ dropped' = TRUE
       \/ (dropped \/ ~writerOn \/ Full) /\ UNCHANGED <<tx, dropped>>
    /\ call' = "gone" /\ buf' = 0 /\ again' = 0
    /\ rx' = <<>> /\ read_buf' = <<>> /\ need_ack' = FALSE
    /\ write_packet' = NoPacket /\ last_write_len' = 0
    /\ UNCHANGED <<connVars, rxOpen, writerOn, failedOn, accepted, got, deviceVars>>

------------------------------------------------------------------------------
(* The writer loop, the router and the device.  Once the stream is gone only *)
(* its last packets are of interest.                                         *)

streamPass == UNCHANGED <<connVars, dropped, streamVars, userVars>>

\* The writer loop writes one packet; without a device the write fails
\* or the device ignores it.
WriterStep ==
    /\ writerOn /\ tx # <<>>
    /\ tx' = Tail(tx)
    /\ LET p == Head(tx)
       IN  IF devOpen
           THEN /\ devOpen' = (p.flag # "RST")
                /\ arrived' = arrived \o Run(p.data, p.len)
                /\ devAckd' = IF p.ack > devAckd THEN p.ack ELSE devAckd
           ELSE UNCHANGED <<devOpen, arrived, devAckd>>
    /\ UNCHANGED <<rx, rxOpen, writerOn, devRead, devSent, announced>>
    /\ streamPass

\* UsbDevice::shutdown: the writer task ends and close_all clears the router.  The
\* RST of close_all, if it is still written, ends the connection like ConnectionLost.
WriterStops ==
    /\ "shutdown" \in Faults /\ call # "gone" /\ writerOn
    /\ writerOn' = FALSE /\ tx' = <<>> /\ rxOpen' = FALSE
    /\ UNCHANGED <<rx, deviceVars>>
    /\ streamPass

\* The device sends a packet and the reader loop routes it: see UsbConn.
DeviceSend(len, win) ==
    /\ devOpen /\ rxOpen /\ call # "gone"
    /\ Len(rx) < RxCap
    /\ devSent + len - devAckd <= HostWindow
    /\ devSent + len <= MaxIn + 1
    /\ win <= DevBuf - (devRcvd - devRead)
    /\ len = 0 => announced # [at |-> devRcvd, win |-> win]
    /\ rx' = Append(rx, [seq |-> devSent, ack |-> devRcvd, win |-> win, len |-> len])
    /\ devSent' = devSent + len
    /\ announced' = [at |-> devRcvd, win |-> win]
    /\ UNCHANGED <<rxOpen, tx, writerOn, devOpen, arrived, devRead, devAckd>>
    /\ streamPass

FreeWindow == DevBuf - (devRcvd - devRead)

DeviceReads ==
    /\ call # "gone" /\ devRead < devRcvd
    /\ devRead' = devRcvd
    /\ UNCHANGED <<rx, rxOpen, tx, writerOn, devOpen, arrived, devSent, devAckd,
                   announced>>
    /\ streamPass

\* The device resets the connection and the reader loop unregisters the port, or the
\* cable is pulled and router.clear() drops the sender.
ConnectionLost ==
    /\ "lost" \in Faults /\ call # "gone" /\ devOpen
    /\ devOpen' = FALSE /\ rxOpen' = FALSE
    /\ UNCHANGED <<rx, tx, writerOn, arrived, devRead, devSent, devAckd, announced>>
    /\ streamPass

------------------------------------------------------------------------------

Init ==
    /\ sent_bytes = 1 /\ received_bytes = 1 /\ device_last_received_bytes = 1
    /\ device_last_window_size \in 0..DevBuf
    /\ sendable_bytes = Sendable
    /\ dropped = FALSE
    /\ read_buf = <<>> /\ need_ack = FALSE /\ write_packet = NoPacket /\ last_write_len = 0
    /\ rx = <<>> /\ rxOpen = TRUE /\ tx = <<>> /\ writerOn = TRUE
    /\ call = "none" /\ buf = 0 /\ again = 0 /\ failedOn = "no"
    /\ accepted = 0 /\ got = <<>>
    /\ devOpen = TRUE /\ arrived = <<>>
    /\ devRead = 1 /\ devSent = 1 /\ devAckd = 1
    /\ announced = [at |-> 1, win |-> device_last_window_size]

PollNext ==
    \/ SendAck \/ ReadBuffered \/ PollRecv \/ BuildPacket \/ SendPending \/ PollShutdown \/ CallFails

UserNext == CallRead \/ CallWrite \/ CallShutdown \/ Cancel \/ DropStream

LoopNext == WriterStep \/ WriterStops

DeviceNext ==
    \/ \E len \in 0..MaxIn, win \in 0..DevBuf : DeviceSend(len, win)
    \/ DeviceReads \/ ConnectionLost

Next == PollNext \/ UserNext \/ LoopNext \/ DeviceNext

Spec == Init /\ [][Next]_vars

\* The wakers the sink and the stream keep across polls poll the call again when its
\* channel moves, and a sender that waits for a slot gets one when slots keep coming
\* free.  The writer loop runs.  The device reads its buffer, announces the free part
\* and sends what it has (external).
Fairness ==
    /\ SF_vars(SendAck) /\ SF_vars(SendPending)
    /\ WF_vars(ReadBuffered) /\ WF_vars(PollRecv) /\ WF_vars(BuildPacket) /\ WF_vars(CallFails)
    /\ WF_vars(WriterStep)
    /\ WF_vars(DeviceReads) /\ SF_vars(DeviceSend(0, FreeWindow))

FairSpec == Spec /\ Fairness

------------------------------------------------------------------------------
(* Properties.                                                               *)

Pipe == INSTANCE BytePipe WITH produced <- devSent - 1, closed <- ~devOpen

\* The stream is a byte pipe: what the user reads is what the device sent, and what
\* the device gets is what the user was told is written, in order and without a gap,
\* whatever calls are cancelled while they wait and whichever end goes away.
IsBytePipe == Pipe!Spec

\* Every byte the stream has acknowledged to the device was read or is in read_buf,
\* also when it came in while a write waited for a window (poll_recv in poll_write).
AckedIsKept ==
    call # "gone" => received_bytes - 1 = Len(got) + Len(read_buf)

\* Flow control holds for a packet that a cancelled write has left behind as well:
\* with it, the bytes sent stay within what the device has read plus its buffer.
WindowRespected ==
    sent_bytes + (IF HasPacket THEN write_packet.len ELSE 0) <= devRead + DevBuf

\* A read fails for a reset, or an unplugged cable, only after every byte that came
\* before it was read.
DataBeforeError == (failedOn = "read" /\ writerOn) => Len(got) = devSent - 1

\* A write ends although the user never reads in between: poll_write takes packets
\* itself until the window opens, and buffers what they carry.
WriteEnds == (call = "write") ~> (call # "write")

\* A read ends when there is something to read or the connection is over.
ReadEnds == (call = "read" /\ (Len(got) < devSent - 1 \/ ~rxOpen)) ~> (call # "read")
=============================================================================
