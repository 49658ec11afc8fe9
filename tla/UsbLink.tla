------------------------------- MODULE UsbLink -------------------------------
(***************************************************************************)
(* The byte link to one device through the libusb backend: the version and  *)
(* setup exchange of UsbDevice::new, the reader loop with the packet parser *)
(* on top of RusbAsyncReader, and the writer loop with its sequence numbers *)
(* on top of RusbAsyncWriter.                                               *)
(*                                                                          *)
(* Bytes are counted: a packet from the device has a start in the stream    *)
(* and a size, and the parser has a position.  A header read at a position  *)
(* where no packet starts holds anything.  A transfer is a number of bytes. *)
(***************************************************************************)
EXTENDS Integers, Sequences

CONSTANTS
    V1Size, V2Size, TcpSize,    \* header sizes, 8, 16 and 20 in the code
    VersionSize, SetupSize,     \* payloads of the opening packets, 12 and 1
    MAX_PACKET_SIZE,
    max_packet_size,            \* of the endpoint: a shorter USB packet ends a transfer
    SeqRange,                     \* range of send_seq and recv_seq, 2^16
    ChanCap,                    \* capacity of the writer channel, 256
    Payloads,                   \* bound: payload sizes of packets of either side
    MaxIn, MaxOut, MaxPackets,  \* bounds: packets of the device, of the daemon, together
    MaxFaults                   \* bound: transfers that fail or bring nothing, malformed packets

HEADERS_LEN_V2 == V2Size + TcpSize
VersionPacket  == V1Size + VersionSize
SetupPacket    == V2Size + SetupSize
TransferSize   == 2 * (MAX_PACKET_SIZE - HEADERS_LEN_V2)

\* A packet without payload does not fill USB packets, neither alone nor together
\* with the opening packets, whose bytes are still counted when it is written.
ASSUME LinkAssumption ==
    /\ V1Size \in Nat \ {0} /\ V2Size \in Nat /\ V2Size > V1Size /\ TcpSize \in Nat \ {0}
    /\ VersionSize \in Nat \ {0} /\ SetupSize \in Nat \ {0}
    /\ SeqRange \in Nat \ {0, 1} /\ ChanCap \in Nat \ {0}
    /\ max_packet_size \in Nat \ {0} /\ MAX_PACKET_SIZE \in Nat
    /\ TransferSize > 0 /\ VersionPacket <= MAX_PACKET_SIZE
    /\ SetupPacket + VersionPacket < 2 * MAX_PACKET_SIZE
    /\ \A n \in {VersionPacket, SetupPacket, HEADERS_LEN_V2,
                 VersionPacket + SetupPacket + HEADERS_LEN_V2} : n % max_packet_size # 0
    /\ Payloads \subseteq 0..(MAX_PACKET_SIZE - HEADERS_LEN_V2) /\ 0 \in Payloads
    /\ MaxIn \in Nat /\ MaxOut \in Nat /\ MaxPackets \in Nat /\ MaxFaults \in Nat

VARIABLES
    build,      \* "debug" builds panic when an integer overflows
    phase,      \* of UsbDevice::new
    plugged, faults,
    \* the device's packets and the read side
    sent,       \* what the device sent: [proto, length, opts, start, size]
    flight,     \* bytes sent and not yet in a transfer
    transfer,   \* the pending read: [st, n], st one of none, queued, ok, error
    buffered,   \* bytes left in RusbAsyncReader::buffer
    stage, need,\* what from_reader reads, and how many bytes of it are missing
    pos,        \* position of the parser in the stream
    hdr, hpos,  \* the header in hand and where it was read
    reader,     \* off, run, route (in router.route), ended (I/O error reported, router
                \* cleared), panicked
    recv_seq,
    got,        \* positions of the packets parsed
    \* the write side
    chan, queued,   \* lengths in the writer channel; how many were put there
    send_seq,
    wbuf, wlen, \* packets in RusbAsyncWriter::buffer, [n, send, recv, len, stale]; its length
    current_transfer_len,
    wpending,   \* the write transfer that a flush waits for
    writer,     \* off, recv, submit, stalled (in poll_write), panicked
    stale,      \* history: the last submit_end left current_transfer_len behind
    wire,       \* the packets the device received
    ends        \* for each USB transfer it received, how many packets there were at its end

inVars   == <<flight, transfer, buffered, stage, need, pos, hdr, hpos, recv_seq, got>>
outVars  == <<chan, queued, send_seq, wbuf, wlen, current_transfer_len, wpending, stale>>
wireVars == <<wire, ends>>
vars == <<build, phase, plugged, faults, sent, inVars, reader, outVars, writer, wireVars>>

Protocols == {"Version", "Control", "Setup", "Tcp", "unknown"}
Lengths == 0..(MAX_PACKET_SIZE + 1)
Header == [proto : Protocols, length : Lengths, opts : BOOLEAN]
Packets == [proto : Protocols, length : Lengths, opts : BOOLEAN, size : Nat, start : Nat]
NoHeader == [proto |-> "unknown", length |-> 0, opts |-> FALSE]
OutPackets == [n : Nat, send : 0..SeqRange-1, recv : 0..SeqRange-1, len : Nat, stale : BOOLEAN]

TypeOK ==
    /\ build \in {"debug", "release"}
    /\ phase \in {"version", "flush", "await", "setup", "flush2", "running", "failed"}
    /\ plugged \in BOOLEAN /\ faults \in 0..MaxFaults
    /\ sent \in Seq(Packets)
    /\ flight \in Nat /\ pos \in Nat /\ hpos \in Nat
    /\ transfer \in [st : {"none", "queued", "ok", "error"}, n : 0..TransferSize]
    /\ buffered \in 0..TransferSize
    /\ stage \in {"v1", "v2", "tcp", "payload"} /\ need \in 1..MAX_PACKET_SIZE + 1
    /\ hdr \in Header
    /\ reader \in {"off", "run", "route", "ended", "panicked"}
    /\ recv_seq \in 0..SeqRange-1 /\ got \in Seq(Nat)
    /\ chan \in Seq(Nat) /\ Len(chan) <= ChanCap
    /\ queued \in 0..MaxOut /\ send_seq \in 0..SeqRange-1
    /\ wbuf \in Seq(OutPackets) /\ wlen \in Nat /\ current_transfer_len \in Nat
    /\ wpending \in {"none", "queued", "ok", "error"}
    /\ writer \in {"off", "recv", "submit", "stalled", "panicked"}
    /\ stale \in BOOLEAN
    /\ wire \in Seq(OutPackets) /\ ends \in Seq(Nat)

Min2(a, b) == IF a <= b THEN a ELSE b

------------------------------------------------------------------------------
(* The device (external): well-formed packets, and some the parser rejects.  *)

Pkt(proto, length, opts, size, start) ==
    [proto |-> proto, length |-> length, opts |-> opts, size |-> size, start |-> start]

StreamEnd == IF sent = <<>> THEN 0 ELSE sent[Len(sent)].start + sent[Len(sent)].size

WellFormed ==
    {Pkt("Version", VersionPacket, FALSE, VersionPacket, StreamEnd)}
    \cup {Pkt("Control", V2Size + 1, FALSE, V2Size + 1, StreamEnd)}
    \cup {Pkt("Tcp", HEADERS_LEN_V2 + p, FALSE, HEADERS_LEN_V2 + p, StreamEnd) : p \in Payloads}

\* TCP options, an unknown protocol, a length below the header's own size, and a
\* version payload of another size.
Malformed ==
    {Pkt("Tcp", HEADERS_LEN_V2 + 1, TRUE, HEADERS_LEN_V2 + 1, StreamEnd),
     Pkt("unknown", V1Size + 1, FALSE, V1Size + 1, StreamEnd),
     Pkt("Control", V1Size, FALSE, V2Size, StreamEnd),
     Pkt("Version", VersionPacket + 1, FALSE, VersionPacket + 1, StreamEnd)}

DeviceSends ==
    /\ plugged /\ Len(sent) < MaxIn /\ Len(sent) + queued < MaxPackets
    /\ \E p \in WellFormed \cup Malformed :
          /\ sent' = Append(sent, p)
          /\ flight' = flight + p.size
          /\ \/ p \in WellFormed /\ UNCHANGED faults
             \/ p \notin WellFormed /\ faults < MaxFaults /\ faults' = faults + 1
    /\ UNCHANGED <<build, phase, plugged, transfer, buffered, stage, need, pos, hdr, hpos,
                   reader, recv_seq, got, outVars, writer, wireVars>>

Unplug ==
    /\ plugged
    /\ plugged' = FALSE /\ flight' = 0
    /\ UNCHANGED <<build, phase, faults, sent, transfer, buffered, stage, need, pos, hdr, hpos,
                   reader, recv_seq, got, outVars, writer, wireVars>>

------------------------------------------------------------------------------
(* UsbDevicePacket::from_reader.  Its reader is the constructor, which waits *)
(* for a version packet, or the reader loop.                                 *)

CanRead == phase = "await" \/ reader = "run"

NextPacket == stage' = "v1" /\ need' = V1Size /\ hdr' = NoHeader /\ hpos' = 0

\* Rejected packets are counted as received.
RejectedCounted ==
    /\ NextPacket
    /\ phase' = IF phase = "await" THEN "failed" ELSE phase
    /\ recv_seq' = IF reader = "run" THEN (recv_seq + 1) % SeqRange ELSE recv_seq
    /\ UNCHANGED <<reader, got>>

\* An error that is not I/O: the constructor gives up, the loop goes on with the
\* next byte, wherever that is.
Rejected ==
    /\ NextPacket
    /\ phase' = IF phase = "await" THEN "failed" ELSE phase
    /\ UNCHANGED <<reader, recv_seq, got>>

\* The payload is complete: decode.  A version of another size is a panic of the
\* reading task.  The constructor drops everything until the version packet; the loop
\* hands a packet to router.route, which may have to wait for room in the channel of
\* its connection.
Decoded(h, at) ==
    /\ NextPacket
    /\ \/ /\ h.proto = "Version" /\ h.length # VersionPacket
          /\ phase' = IF phase = "await" THEN "failed" ELSE phase
          /\ reader' = IF reader = "run" THEN "panicked" ELSE reader
          /\ UNCHANGED <<recv_seq, got>>
       \/ /\ ~(h.proto = "Version" /\ h.length # VersionPacket)
          /\ phase' = IF phase = "await" /\ h.proto = "Version" THEN "setup" ELSE phase
          /\ recv_seq' = IF reader = "run" THEN (recv_seq + 1) % SeqRange ELSE recv_seq
          /\ got' = Append(got, at)
          /\ reader' \in IF reader = "run" /\ h.proto = "Tcp" THEN {"run", "route"} ELSE {reader}

\* All headers are there, size bytes of them: the rest of the length is payload.
HeadersRead(h, at, size) ==
    \/ h.length < size /\ Rejected
    \/ h.length = size /\ Decoded(h, at)
    \/ /\ h.length > size
       /\ stage' = "payload" /\ need' = h.length - size /\ hdr' = h /\ hpos' = at
       /\ UNCHANGED <<phase, reader, recv_seq, got>>

\* What eight bytes at a position say: the header of the packet that starts there,
\* or anything.
HeadersAt(at) ==
    LET here == {k \in 1..Len(sent) : sent[k].start = at}
    IN  IF here = {} THEN [proto : Protocols, length : {V1Size, MAX_PACKET_SIZE}, opts : BOOLEAN]
        ELSE {[proto |-> sent[k].proto, length |-> sent[k].length, opts |-> sent[k].opts] : k \in here}

\* read_exact of a stage has its last byte, before position at.
StageRead(at) ==
    \/ /\ stage = "v1"
       /\ \E h \in HeadersAt(at - V1Size) :
             \/ h.proto = "unknown" /\ Rejected
             \/ h.proto = "Version" /\ HeadersRead(h, at - V1Size, V1Size)
             \/ /\ h.proto \in {"Tcp", "Setup", "Control"}
                /\ stage' = "v2" /\ need' = V2Size - V1Size /\ hdr' = h /\ hpos' = at - V1Size
                /\ UNCHANGED <<phase, reader, recv_seq, got>>
    \/ /\ stage = "v2" /\ hdr.proto = "Tcp"
       /\ stage' = "tcp" /\ need' = TcpSize
       /\ UNCHANGED <<phase, reader, hdr, hpos, recv_seq, got>>
    \/ stage = "v2" /\ hdr.proto # "Tcp" /\ HeadersRead(hdr, hpos, V2Size)
    \/ stage = "tcp" /\ hdr.opts /\ Rejected
    \/ stage = "tcp" /\ ~hdr.opts /\ HeadersRead(hdr, hpos, HEADERS_LEN_V2)
    \/ stage = "payload" /\ Decoded(hdr, hpos)

------------------------------------------------------------------------------
(* RusbAsyncReader::poll_read.                                               *)

\* The rest of a chunk is dropped.
TakeDrops(available) ==
    LET k == Min2(available, need)
    IN  /\ buffered' = 0 /\ pos' = pos + available
        /\ \/ k = need /\ StageRead(pos + k)
           \/ /\ k < need /\ need' = need - k
              /\ UNCHANGED <<phase, reader, stage, hdr, hpos, recv_seq, got>>

\* As many of the available bytes as the caller asks for; the rest stays in buffer.
Take(available) ==
    LET k == Min2(available, need)
    IN  /\ buffered' = available - k /\ pos' = pos + k
        /\ \/ k = need /\ StageRead(pos + k)
           \/ /\ k < need /\ need' = need - k
              /\ UNCHANGED <<phase, reader, stage, hdr, hpos, recv_seq, got>>

ReadPass == UNCHANGED <<build, plugged, sent, outVars, writer, wireVars>>

ReadBuffered ==
    /\ CanRead /\ buffered > 0
    /\ Take(buffered)
    /\ UNCHANGED <<faults, flight, transfer>>
    /\ ReadPass

\* An I/O error: the constructor fails; the reader loop reports the device, clears
\* the router and ends.
IoError ==
    /\ phase' = IF phase = "await" THEN "failed" ELSE phase
    /\ reader' = IF reader = "run" THEN "ended" ELSE reader
    /\ UNCHANGED <<buffered, stage, need, pos, hdr, hpos, recv_seq, got>>

NoTransfer == [st |-> "none", n |-> 0]

SubmitRead ==
    /\ CanRead /\ buffered = 0 /\ transfer.st = "none" /\ plugged
    /\ transfer' = [st |-> "queued", n |-> 0]
    /\ UNCHANGED <<phase, faults, flight, buffered, stage, need, pos, hdr, hpos, reader, recv_seq, got>>
    /\ ReadPass

\* The transfer is complete when it is polled for the first time: its bytes are
\* taken whatever its status.
SubmitReadReady ==
    /\ CanRead /\ buffered = 0 /\ transfer.st = "none" /\ plugged
    /\ \E n \in 1..Min2(flight, TransferSize) :
          flight' = flight - n /\ Take(n)
    /\ UNCHANGED <<faults, transfer>>
    /\ ReadPass

SubmitReadFails ==
    /\ CanRead /\ buffered = 0 /\ transfer.st = "none" /\ ~plugged
    /\ IoError
    /\ UNCHANGED <<faults, flight, transfer>>
    /\ ReadPass

\* bulk_callback, in the thread of libusb.
TransferCompletes ==
    /\ transfer.st = "queued"
    /\ \E n \in 1..Min2(flight, TransferSize) :
          flight' = flight - n /\ transfer' = [st |-> "ok", n |-> n]
    /\ UNCHANGED <<phase, faults, buffered, stage, need, pos, hdr, hpos, reader, recv_seq, got>>
    /\ ReadPass

\* It fails, with the bytes it has got, or succeeds without bytes.
TransferFails ==
    /\ transfer.st = "queued"
    /\ \/ ~plugged /\ UNCHANGED faults
       \/ faults < MaxFaults /\ faults' = faults + 1
    /\ \/ \E n \in 0..Min2(flight, TransferSize) :
             flight' = flight - n /\ transfer' = [st |-> "error", n |-> n]
       \/ transfer' = [st |-> "ok", n |-> 0] /\ UNCHANGED flight
    /\ UNCHANGED <<phase, buffered, stage, need, pos, hdr, hpos, reader, recv_seq, got>>
    /\ ReadPass

\* A failed transfer is not reported.
PollTransferDeaf ==
    /\ CanRead /\ buffered = 0 /\ transfer.st = "ok"
    /\ transfer' = NoTransfer
    /\ IF transfer.n > 0 THEN Take(transfer.n) ELSE IoError
    /\ UNCHANGED <<faults, flight>>
    /\ ReadPass

\* No byte at all is the end of the stream for read_exact.
PollTransfer ==
    /\ CanRead /\ buffered = 0 /\ transfer.st \in {"ok", "error"}
    /\ transfer' = NoTransfer
    /\ IF transfer.st = "ok" /\ transfer.n > 0 THEN Take(transfer.n) ELSE IoError
    /\ UNCHANGED <<faults, flight>>
    /\ ReadPass

VersionTimeout ==
    /\ phase = "await"
    /\ phase' = "failed"
    /\ UNCHANGED <<faults, inVars, reader>>
    /\ ReadPass

\* router.route returns: whoever reads the connection has made room.
RouteReturns ==
    /\ reader = "route"
    /\ reader' = "run"
    /\ UNCHANGED <<phase, faults, inVars>>
    /\ ReadPass

ReadStep == ReadBuffered \/ SubmitRead \/ SubmitReadReady \/ SubmitReadFails \/ PollTransfer

------------------------------------------------------------------------------
(* The device receives: a USB transfer ends with a short or an empty packet. *)

\* pks, len bytes of them, arrive in one bulk write; zlp follows it or not.
Arrives(pks, len, zlp) ==
    LET short == len % max_packet_size # 0
        now   == Len(wire) + Len(pks)
    IN  /\ wire' = wire \o pks
        /\ ends' = IF short /\ zlp THEN ends \o <<now, now>>
                   ELSE IF short \/ zlp THEN Append(ends, now) ELSE ends

------------------------------------------------------------------------------
(* UsbDevice::new.                                                           *)

NewPass == UNCHANGED <<build, plugged, sent, inVars, chan, queued, send_seq, wbuf, wlen, stale>>

OpeningLen == IF phase \in {"version", "flush"} THEN VersionPacket ELSE SetupPacket

Opening == [n |-> 0, send |-> 0, recv |-> SeqRange - 1, len |-> OpeningLen, stale |-> FALSE]

\* write_all and the first poll of flush: alloc_and_submit.
SendOpening ==
    /\ phase \in {"version", "setup"}
    /\ \/ /\ plugged
          /\ current_transfer_len' = current_transfer_len + OpeningLen
          /\ wpending' = "queued"
          /\ phase' = IF phase = "version" THEN "flush" ELSE "flush2"
       \/ ~plugged /\ phase' = "failed" /\ UNCHANGED <<current_transfer_len, wpending>>
    /\ UNCHANGED <<faults, reader, writer, wireVars>>
    /\ NewPass

OpeningWritten ==
    /\ wpending = "queued" /\ plugged
    /\ wpending' = "ok"
    /\ Arrives(<<Opening>>, OpeningLen, FALSE)
    /\ UNCHANGED <<phase, faults, current_transfer_len, reader, writer>>
    /\ NewPass

OpeningFails ==
    /\ wpending = "queued"
    /\ \/ ~plugged /\ UNCHANGED faults
       \/ faults < MaxFaults /\ faults' = faults + 1
    /\ wpending' = "error"
    /\ UNCHANGED <<phase, current_transfer_len, reader, writer, wireVars>>
    /\ NewPass

\* The loop reads from an endpoint of its own.
OpeningFlushedAnew ==
    /\ wpending \in {"ok", "error"}
    /\ wpending' = "none"
    /\ phase' = IF wpending = "error" THEN "failed" ELSE IF phase = "flush" THEN "await" ELSE "running"
    /\ reader' = IF phase' = "running" THEN "run" ELSE reader
    /\ writer' = IF phase' = "running" THEN "recv" ELSE writer
    /\ buffered' = 0 /\ pos' = pos + buffered
    /\ UNCHANGED <<faults, current_transfer_len, wireVars, build, plugged, sent, chan, queued, send_seq,
                   wbuf, wlen, stale, flight, transfer, stage, need, hdr, hpos, recv_seq, got>>

\* poll_flush again.  After the setup packet both loops start, on the same endpoints.
OpeningFlushed ==
    /\ wpending \in {"ok", "error"}
    /\ wpending' = "none"
    /\ phase' = IF wpending = "error" THEN "failed" ELSE IF phase = "flush" THEN "await" ELSE "running"
    /\ reader' = IF phase' = "running" THEN "run" ELSE reader
    /\ writer' = IF phase' = "running" THEN "recv" ELSE writer
    /\ UNCHANGED <<faults, current_transfer_len, wireVars>>
    /\ NewPass

NewStep == SendOpening \/ OpeningFlushed

------------------------------------------------------------------------------
(* The writer loop.                                                          *)

WritePass == UNCHANGED <<build, phase, plugged, sent, inVars, reader>>

\* The channel has no bound.
EnqueueUnbounded ==
    /\ phase = "running" /\ writer # "panicked"
    /\ queued < MaxOut /\ Len(sent) + queued < MaxPackets
    /\ chan' = Append(chan, HEADERS_LEN_V2)
    /\ queued' = queued + 1
    /\ UNCHANGED <<faults, send_seq, wbuf, wlen, current_transfer_len, wpending, stale, writer, wireVars>>
    /\ WritePass

\* A connection queues a packet; the first of a device is a SYN.
Enqueue ==
    /\ phase = "running" /\ writer # "panicked" /\ Len(chan) < ChanCap
    /\ queued < MaxOut /\ Len(sent) + queued < MaxPackets
    /\ \E p \in IF queued = 0 THEN {0} ELSE Payloads : chan' = Append(chan, HEADERS_LEN_V2 + p)
    /\ queued' = queued + 1
    /\ UNCHANGED <<faults, send_seq, wbuf, wlen, current_transfer_len, wpending, stale, writer, wireVars>>
    /\ WritePass

\* The numbers of the header, header and payload into the buffer.  A buffer above the
\* threshold is submitted by poll_write, which then never returns.
WriterTakes ==
    /\ writer = "recv" /\ chan # <<>>
    /\ chan' = Tail(chan)
    /\ \/ /\ build = "debug" /\ send_seq = SeqRange - 1
          /\ writer' = "panicked"
          /\ UNCHANGED <<send_seq, wbuf, wlen, current_transfer_len, wpending>>
       \/ /\ ~(build = "debug" /\ send_seq = SeqRange - 1)
          /\ send_seq' = (send_seq + 1) % SeqRange
          /\ LET p == [n |-> queued - Len(chan) + 1, send |-> send_seq, recv |-> recv_seq,
                        len |-> Head(chan), stale |-> stale]
                 full == wlen + p.len >= 2 * MAX_PACKET_SIZE
             IN  /\ wbuf' = IF full THEN <<>> ELSE Append(wbuf, p)
                 /\ wlen' = IF full THEN 0 ELSE wlen + p.len
                 /\ writer' = IF full THEN "stalled" ELSE "submit"
                 /\ current_transfer_len' = current_transfer_len + (IF full THEN p.len ELSE 0)
                 /\ wpending' = IF full THEN "queued" ELSE wpending
    /\ UNCHANGED <<faults, queued, stale, wireVars>>
    /\ WritePass

\* A failed write leaves the buffer for the next packet.
SubmitEndFailsKeeps ==
    /\ writer = "submit"
    /\ \/ ~plugged /\ UNCHANGED faults
       \/ faults < MaxFaults /\ faults' = faults + 1
    /\ writer' = "recv" /\ stale' = TRUE
    /\ UNCHANGED <<chan, queued, send_seq, wbuf, wlen, current_transfer_len, wpending, wireVars>>
    /\ WritePass

\* write_bulk fails, with the data or with the empty packet after it: the length is
\* not reset.  Nobody looks at the error.
SubmitEndFails ==
    /\ writer = "submit"
    /\ \/ ~plugged /\ UNCHANGED faults
       \/ faults < MaxFaults /\ faults' = faults + 1
    /\ current_transfer_len' = current_transfer_len + wlen
    /\ \/ UNCHANGED wireVars
       \/ /\ plugged /\ current_transfer_len' % max_packet_size = 0
          /\ Arrives(wbuf, wlen, FALSE)
    /\ wbuf' = <<>> /\ wlen' = 0 /\ writer' = "recv" /\ stale' = TRUE
    /\ UNCHANGED <<chan, queued, send_seq, wpending>>
    /\ WritePass

\* No empty packet.
SubmitEndNoZlp ==
    /\ writer = "submit" /\ plugged
    /\ Arrives(wbuf, wlen, FALSE)
    /\ current_transfer_len' = 0
    /\ wbuf' = <<>> /\ wlen' = 0 /\ writer' = "recv" /\ stale' = FALSE
    /\ UNCHANGED <<faults, chan, queued, send_seq, wpending>>
    /\ WritePass

\* sync_flush_and_zlp: the buffer in one bulk write, and an empty packet if what was
\* counted fills whole USB packets.
SubmitEnd ==
    /\ writer = "submit" /\ plugged
    /\ Arrives(wbuf, wlen, (current_transfer_len + wlen) % max_packet_size = 0)
    /\ current_transfer_len' = 0
    /\ wbuf' = <<>> /\ wlen' = 0 /\ writer' = "recv" /\ stale' = FALSE
    /\ UNCHANGED <<faults, chan, queued, send_seq, wpending>>
    /\ WritePass

WriteStep == WriterTakes \/ SubmitEnd \/ SubmitEndFails

------------------------------------------------------------------------------

Init ==
    /\ build \in {"debug", "release"} /\ phase = "version"
    /\ plugged = TRUE /\ faults = 0
    /\ sent = <<>> /\ flight = 0 /\ transfer = NoTransfer /\ buffered = 0
    /\ stage = "v1" /\ need = V1Size /\ pos = 0 /\ hdr = NoHeader /\ hpos = 0
    /\ reader = "off" /\ recv_seq = 0 /\ got = <<>>
    /\ chan = <<>> /\ queued = 0 /\ send_seq = 1
    /\ wbuf = <<>> /\ wlen = 0 /\ current_transfer_len = 0 /\ wpending = "none" /\ writer = "off"
    /\ stale = FALSE /\ wire = <<>> /\ ends = <<>>

Next ==
    \/ DeviceSends \/ Unplug \/ TransferCompletes \/ TransferFails
    \/ ReadStep \/ VersionTimeout \/ RouteReturns
    \/ NewStep \/ OpeningWritten \/ OpeningFails
    \/ Enqueue \/ WriteStep

Spec == Init /\ [][Next]_vars

\* Woken tasks run; libusb completes a transfer for which there are bytes, or whose
\* device is gone.
Fairness ==
    /\ WF_vars(ReadStep) /\ WF_vars(NewStep) /\ WF_vars(WriteStep)
    /\ WF_vars(TransferCompletes \/ (~plugged /\ TransferFails))
    /\ WF_vars(OpeningWritten \/ (~plugged /\ OpeningFails))

\* Of the users of the connections: what is routed to them they read, or they go away.
UsersRead == WF_vars(RouteReturns)

FairSpec == Spec /\ Fairness /\ UsersRead

------------------------------------------------------------------------------
(* Properties.                                                               *)

Accepted(p) ==
    /\ p.length = p.size /\ ~p.opts /\ p.proto # "unknown"
    /\ p.proto = "Version" => p.length = VersionPacket

\* A packet of which nothing is left unread when it is rejected.
Harmless(p) == p.length < p.size \/ (~p.opts /\ p.proto # "unknown")

\* However the transfers cut the stream, and across the hand-over from constructor to
\* reader loop, from_reader finds the device's packets, all of them and in order, as
\* long as it did not reject one halfway.
ParsedInOrder ==
    (\A k \in 1..Len(sent) : Harmless(sent[k])) =>
        /\ \A i, j \in 1..Len(got) : i < j => got[i] < got[j]
        /\ \A i \in 1..Len(got) : \E k \in 1..Len(sent) : Accepted(sent[k]) /\ sent[k].start = got[i]
        /\ \A k \in 1..Len(sent) :
              Accepted(sent[k]) /\ got # <<>> /\ sent[k].start < got[Len(got)] =>
                  \E i \in 1..Len(got) : got[i] = sent[k].start

\* How many packets there were when a USB transfer began.
Begin(k) == IF k = 1 THEN 0 ELSE ends[k - 1]

\* Every packet of the writer loop is one USB transfer for the device, neither glued
\* to the next nor followed by an empty one.  A failed write spoils the packet after
\* it at most: the length it leaves behind is counted once more.
OnePacketPerTransfer ==
    \A k \in 1..Len(ends) :
        \/ ends[k] = Begin(k) + 1
        \/ \E i \in Begin(k)+1..ends[k] : wire[i].stale
        \/ k > 1 /\ ends[k] = Begin(k) /\ wire[ends[k]].stale

\* poll_write never submits by itself: submit_end empties the buffer after each packet
\* whether it fails or not.  It would never be polled again.
WriterNeverStalls == writer # "stalled" /\ (writer = "recv" => wpending = "none" /\ wbuf = <<>>)

\* The packets parsed when the version packet is found.
VersionAt(at) == \E i \in 1..Len(sent) : sent[i].start = at /\ sent[i].proto = "Version"
Opened == CHOOSE k \in 1..Len(got) : VersionAt(got[k]) /\ \A j \in 1..k-1 : ~VersionAt(got[j])

\* The packets the device gets are those of the channel in order, numbered in order, and
\* the only gaps are failed writes; recv_seq counts what the loop has parsed.
SeqNumbers ==
    /\ \A i, j \in 1..Len(wire) : i < j /\ wire[j].n > 0 => wire[i].n < wire[j].n
    /\ \A i \in 1..Len(wire) : wire[i].n > 0 => wire[i].send = wire[i].n % SeqRange
    /\ faults = 0 /\ plugged => \A i \in 1..Len(wire)-1 : wire[i+1].n <= wire[i].n + 1
    /\ reader # "off" => recv_seq = (Len(got) - Opened) % SeqRange

\* What the device sends is parsed in the end, unless the device could not be opened or
\* the reader gave up.  The loop polls the endpoint only between two calls of
\* router.route, so this needs users that read their connections.
PacketsAreParsed ==
    Len(got) < Len(sent) ~> \/ Len(got) = Len(sent) \/ \E i \in 1..Len(sent) : ~Accepted(sent[i])
                            \/ phase = "failed" \/ reader \in {"ended", "panicked"}

\* Pulling the cable fails the constructor or ends the reader loop, also in the middle
\* of a packet, out of step with the stream, or, as long as users read their
\* connections, while a packet waits in router.route.
UnplugIsNoticed == ~plugged ~> phase = "failed" \/ reader \in {"ended", "panicked"}
=============================================================================
