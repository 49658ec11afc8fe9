------------------------- MODULE ProviderStream_proofs -------------------------
(***************************************************************************)
(* RusbmuxStream implements a byte pipe, proved for every packet size,      *)
(* window, buffer and channel capacity and any number of bytes.             *)
(***************************************************************************)
EXTENDS ProviderStream, ProofFacts

(* Sequences of packets.                                                     *)

\* The packets of q carry the bytes from position a up to b, one after the other.
Chain(q, a, b) ==
    /\ q = <<>> => a = b
    /\ q # <<>> => q[1].seq = a /\ q[Len(q)].seq + q[Len(q)].len = b
    /\ \A i \in 1..Len(q) : q[i].seq + q[i].len <= b
    /\ \A i \in 1..(Len(q) - 1) : q[i + 1].seq = q[i].seq + q[i].len

\* What a packet has to be for these lemmas.
Numbered(S) == \A p \in S : p.seq \in Nat /\ p.len \in Nat

\* A packet that starts where the chain ends prolongs it.
LEMMA ChainAppend ==
    ASSUME NEW S, Numbered(S), NEW q \in Seq(S), NEW e \in S, NEW a \in Nat, NEW b \in Nat,
           Chain(q, a, b), e.seq = b
    PROVE  Chain(Append(q, e), a, b + e.len)
  <1> DEFINE r == Append(q, e)
  <1>1. /\ r \in Seq(S) /\ Len(r) = Len(q) + 1 /\ Len(q) \in Nat
        /\ \A i \in 1..Len(q) : r[i] = q[i]
        /\ r[Len(q) + 1] = e
    BY AppendFacts
  <1>2. \A i \in 1..Len(q) : q[i].seq \in Nat /\ q[i].len \in Nat BY DEF Numbered
  <1>3. e.seq \in Nat /\ e.len \in Nat BY DEF Numbered
  <1> HIDE DEF r
  <1>4. r # <<>> BY <1>1
  <1>5. r[1].seq = a
    <2>1. CASE q = <<>> BY <1>1, <2>1 DEF Chain
    <2>2. CASE q # <<>> BY <1>1, <2>2 DEF Chain
    <2> QED BY <2>1, <2>2
  <1>6. r[Len(r)].seq + r[Len(r)].len = b + e.len BY <1>1
  <1>7. \A i \in 1..Len(r) : r[i].seq + r[i].len <= b + e.len
    <2> SUFFICES ASSUME NEW i \in 1..Len(r) PROVE r[i].seq + r[i].len <= b + e.len OBVIOUS
    <2>1. CASE i \in 1..Len(q)
      <3>1. q[i].seq + q[i].len <= b BY <2>1 DEF Chain
      <3>2. r[i] = q[i] BY <1>1, <2>1
      <3> QED BY <1>2, <1>3, <2>1, <3>1, <3>2
    <2>2. CASE i = Len(q) + 1 BY <1>1, <1>3, <2>2
    <2> QED BY <1>1, <2>1, <2>2
  <1>8. \A i \in 1..(Len(r) - 1) : r[i + 1].seq = r[i].seq + r[i].len
    <2> SUFFICES ASSUME NEW i \in 1..(Len(r) - 1) PROVE r[i + 1].seq = r[i].seq + r[i].len OBVIOUS
    <2>1. i \in 1..Len(q) /\ r[i] = q[i] BY <1>1
    <2>2. CASE i = Len(q) BY <1>1, <2>1, <2>2 DEF Chain
    <2>3. CASE i # Len(q)
      <3>1. i \in 1..(Len(q) - 1) /\ i + 1 \in 1..Len(q) BY <1>1, <2>1, <2>3
      <3> QED BY <1>1, <2>1, <3>1 DEF Chain
    <2> QED BY <2>2, <2>3
  <1> QED BY <1>4, <1>5, <1>6, <1>7, <1>8 DEF Chain, r

\* The first packet of a chain starts it, and the others go on behind it.
LEMMA ChainTail ==
    ASSUME NEW S, Numbered(S), NEW q \in Seq(S), NEW a \in Nat, NEW b \in Nat,
           Chain(q, a, b), q # <<>>
    PROVE  Head(q).seq = a /\ a + Head(q).len <= b /\ Chain(Tail(q), a + Head(q).len, b)
  <1> DEFINE r == Tail(q)
  <1>1. /\ r \in Seq(S) /\ Len(r) = Len(q) - 1 /\ Len(q) \in Nat \ {0}
        /\ Head(q) = q[1] /\ q[1] \in S /\ 1 \in 1..Len(q)
        /\ \A i \in 1..Len(r) : r[i] = q[i+1] /\ i + 1 \in 1..Len(q)
    BY TailFacts
  <1>2. \A i \in 1..Len(q) : q[i].seq \in Nat /\ q[i].len \in Nat BY DEF Numbered
  <1> HIDE DEF r
  <1>3. q[1].seq = a /\ q[1].seq + q[1].len <= b BY <1>1 DEF Chain
  <1>4. r = <<>> => a + q[1].len = b
    <2> SUFFICES ASSUME r = <<>> PROVE a + q[1].len = b OBVIOUS
    <2>1. Len(q) = 1 BY <1>1
    <2> QED BY <1>3, <2>1 DEF Chain
  <1>5. ASSUME r # <<>> PROVE r[1].seq = a + q[1].len /\ r[Len(r)].seq + r[Len(r)].len = b
    <2>1. Len(r) >= 1 /\ Len(q) >= 2 BY <1>1, <1>5
    <2>2. r[1] = q[2] /\ r[Len(r)] = q[Len(q)] BY <1>1, <2>1
    <2>3. q[2].seq = q[1].seq + q[1].len BY <1>1, <2>1 DEF Chain
    <2> QED BY <1>1, <1>3, <2>2, <2>3 DEF Chain
  <1>6. \A i \in 1..Len(r) : r[i].seq + r[i].len <= b BY <1>1 DEF Chain
  <1>7. \A i \in 1..(Len(r) - 1) : r[i + 1].seq = r[i].seq + r[i].len
    <2> SUFFICES ASSUME NEW i \in 1..(Len(r) - 1) PROVE r[i + 1].seq = r[i].seq + r[i].len OBVIOUS
    <2>1. i \in 1..Len(r) /\ i + 1 \in 1..Len(r) /\ i + 1 \in 1..(Len(q) - 1) BY <1>1
    <2> QED BY <1>1, <2>1 DEF Chain
  <1> QED BY <1>1, <1>3, <1>4, <1>5, <1>6, <1>7 DEF Chain, r

\* A chain does not end before it starts.
LEMMA ChainOrder ==
    ASSUME NEW S, Numbered(S), NEW q \in Seq(S), NEW a \in Nat, NEW b \in Nat, Chain(q, a, b)
    PROVE  a <= b
  <1>1. CASE q = <<>> BY <1>1 DEF Chain
  <1>2. CASE q # <<>>
    <2>1. Head(q) \in S BY <1>2, TailFacts
    <2>2. Head(q).len \in Nat BY <2>1 DEF Numbered
    <2> QED BY <1>2, <2>2, ChainTail
  <1> QED BY <1>1, <1>2

\* No packets carry no bytes.
LEMMA ChainEmpty == \A a : Chain(<<>>, a, a)
  BY DEF Chain

\* Packets of either side are numbered.
LEMMA PacketsNumbered == Numbered(InPacket) /\ Numbered(OutPacket)
  BY DEF Numbered, InPacket, OutPacket

------------------------------------------------------------------------------
(* The inductive invariant.                                                  *)

\* What was read, what is buffered and what is in the channel are the bytes the device
\* has sent, in this order.  Bytes of a stream that is gone are nobody's.
ReadSide ==
    /\ \A i \in 1..Len(got) : got[i] = i
    /\ Len(got) <= devSent - 1
    /\ call # "gone" =>
          /\ \A i \in 1..Len(read_buf) : read_buf[i] = Len(got) + i
          /\ Len(got) + Len(read_buf) = received_bytes - 1
          /\ Chain(rx, received_bytes, devSent)

\* What arrived and what is in the channel are the bytes reported as written; the
\* packet a write waits to send is the next one.
WriteSide ==
    /\ sent_bytes = accepted + 1
    /\ HasPacket => /\ write_packet.flag = "ACK"
                    /\ write_packet.seq = sent_bytes /\ write_packet.data = accepted + 1
                    /\ write_packet.len = last_write_len /\ write_packet.len > 0
    /\ \A i \in 1..Len(arrived) : arrived[i] = i
    /\ \A i \in 1..Len(tx) : tx[i].data = tx[i].seq /\ (tx[i].flag = "RST" => tx[i].len = 0)
    /\ devOpen /\ writerOn => Chain(tx, Len(arrived) + 1, accepted + 1)

\* Windows announced, in the channel or taken in, promise room the device still has;
\* what may be sent, and what waits to be sent, fits into it.
Windows ==
    /\ device_last_received_bytes + device_last_window_size <= devRead + DevBuf
    /\ \A i \in 1..Len(rx) : rx[i].ack + rx[i].win <= devRead + DevBuf
    /\ sent_bytes + sendable_bytes <= devRead + DevBuf
    /\ WindowRespected

\* A call has a buffer; nothing is called after a read has failed, and nothing was left
\* to be read.
Ends ==
    /\ Polled => buf > 0
    /\ failedOn = "read" => /\ call \in {"none", "gone"}
                            /\ writerOn => ~rxOpen /\ Len(got) = devSent - 1

StreamInv == TypeOK /\ ReadSide /\ WriteSide /\ Windows /\ Ends

------------------------------------------------------------------------------
(* Type correctness.                                                         *)

\* calc_sendable_bytes allows at most a packet, and nothing beyond a bound that the
\* bytes sent and the announced window respect.
LEMMA CalcSound ==
    ASSUME NEW s \in Nat, NEW w \in Nat, NEW a \in Nat
    PROVE  /\ CalcSendable(s, w, a) \in 0..MAX_PACKET_PAYLOAD_SIZE
           /\ \A bound \in Nat : s <= bound /\ a + w <= bound => s + CalcSendable(s, w, a) <= bound
  BY StreamAssumption, SMT DEF CalcSendable, Lesser

\* A run of positions.
LEMMA RunFacts ==
    ASSUME NEW a \in Nat, NEW n \in Nat
    PROVE  /\ Run(a, n) \in Seq(Nat) /\ Len(Run(a, n)) = n
           /\ \A i \in 1..n : Run(a, n)[i] = a + i - 1
  BY SMT DEF Run

\* A run that continues the positions 1..n of a stream.
LEMMA RunContinues ==
    ASSUME NEW s \in Seq(Nat), NEW n \in Nat, NEW k \in Nat,
           \A i \in 1..Len(s) : s[i] = k + i
    PROVE  /\ s \o Run(k + Len(s) + 1, n) \in Seq(Nat)
           /\ Len(s \o Run(k + Len(s) + 1, n)) = Len(s) + n
           /\ \A i \in 1..(Len(s) + n) : (s \o Run(k + Len(s) + 1, n))[i] = k + i
  <1> DEFINE t == Run(k + Len(s) + 1, n)
  <1>1. t \in Seq(Nat) /\ Len(t) = n /\ \A i \in 1..n : t[i] = k + Len(s) + i
    <2>1. k + Len(s) + 1 \in Nat OBVIOUS
    <2>2. t \in Seq(Nat) /\ Len(t) = n /\ \A i \in 1..n : t[i] = (k + Len(s) + 1) + i - 1
      BY <2>1, RunFacts
    <2> QED BY <2>2
  <1> HIDE DEF t
  <1>2. /\ s \o t \in Seq(Nat) /\ Len(s \o t) = Len(s) + n
        /\ \A i \in 1..(Len(s) + n) : (s \o t)[i] = IF i <= Len(s) THEN s[i] ELSE t[i - Len(s)]
    BY <1>1, ConcatProperties
  <1>3. \A i \in 1..(Len(s) + n) : (s \o t)[i] = k + i
    <2> SUFFICES ASSUME NEW i \in 1..(Len(s) + n) PROVE (s \o t)[i] = k + i OBVIOUS
    <2>1. Len(s) \in Nat /\ i \in Int OBVIOUS
    <2>2. CASE i <= Len(s) BY <1>2, <2>1, <2>2
    <2>3. CASE i > Len(s)
      <3>1. i - Len(s) \in 1..n BY <2>1, <2>3
      <3>2. t[i - Len(s)] = k + Len(s) + (i - Len(s)) BY <1>1, <3>1
      <3> QED BY <1>2, <2>1, <2>3, <3>2
    <2>4. i <= Len(s) \/ i > Len(s) BY <2>1
    <2> QED BY <2>2, <2>3, <2>4
  <1> QED BY <1>2, <1>3 DEF t

\* Packets built from the counters.
LEMMA PacketFacts ==
    ASSUME TypeOK, NEW f \in {"ACK", "RST"}, NEW n \in Nat
    PROVE  /\ Packet(f, n) \in OutPacket
           /\ Packet(f, n).flag = f /\ Packet(f, n).seq = sent_bytes
           /\ Packet(f, n).data = accepted + 1 /\ Packet(f, n).len = n
  BY DEF TypeOK, Packet, OutPacket

\* The first state.
LEMMA TypeInit == Init => TypeOK
  <1> SUFFICES ASSUME Init PROVE TypeOK OBVIOUS
  <1>1. device_last_window_size \in Nat BY StreamAssumption, SMT DEF Init
  <1>2. sendable_bytes \in 0..MAX_PACKET_PAYLOAD_SIZE BY <1>1, CalcSound DEF Init, Sendable
  <1>3. NoPacket \in OutPacket BY DEF NoPacket, OutPacket
  <1>4. announced \in [at : Nat, win : Nat] BY <1>1 DEF Init
  <1>5. /\ rx \in Seq(InPacket) /\ Len(rx) <= RxCap /\ tx \in Seq(OutPacket) /\ Len(tx) <= TxCap
        /\ read_buf \in Seq(Nat) /\ got \in Seq(Nat) /\ arrived \in Seq(Nat)
    BY StreamAssumption, SMT DEF Init
  <1> QED BY <1>1, <1>2, <1>3, <1>4, <1>5 DEF Init, TypeOK, Calls

\* The rounds of the poll functions.
LEMMA PollTypes == TypeOK /\ PollNext => TypeOK'
  <1> SUFFICES ASSUME TypeOK, PollNext PROVE TypeOK' OBVIOUS
  <1> USE DEF connVars, streamVars, userVars, deviceVars
  <1>1. Sendable \in 0..MAX_PACKET_PAYLOAD_SIZE BY CalcSound DEF TypeOK, Sendable
  <1>2. CASE SendAck
    <2>1. Packet("ACK", 0) \in OutPacket BY PacketFacts
    <2>2. tx' \in Seq(OutPacket) /\ Len(tx') <= TxCap
      BY <1>2, <2>1, StreamAssumption, SMT DEF TypeOK, SendAck, Full
    <2> QED BY <1>1, <1>2, <2>2 DEF TypeOK, SendAck
  <1>3. CASE ReadBuffered
    <2> DEFINE n == Lesser(Len(read_buf), buf)
    <2>1. n \in 0..Len(read_buf) BY DEF TypeOK, Lesser
    <2>2. /\ SubSeq(read_buf, 1, n) \in Seq(Nat)
          /\ SubSeq(read_buf, n + 1, Len(read_buf)) \in Seq(Nat)
      <3>1. \A i \in 1..Len(read_buf) : read_buf[i] \in Nat BY DEF TypeOK
      <3>2. n \in Int /\ Len(read_buf) \in Int /\ n + 1 \in Int /\ 1 \in Int BY <2>1 DEF TypeOK
      <3>3. \A i \in 1..n : read_buf[i] \in Nat BY <2>1, <3>1, <3>2
      <3>4. \A i \in (n + 1)..Len(read_buf) : read_buf[i] \in Nat BY <2>1, <3>1, <3>2
      <3> HIDE DEF n
      <3>5. SubSeq(read_buf, 1, n) \in Seq(Nat) BY <3>2, <3>3, SubSeqProperties
      <3>6. SubSeq(read_buf, n + 1, Len(read_buf)) \in Seq(Nat) BY <3>2, <3>4, SubSeqProperties
      <3> QED BY <3>5, <3>6
    <2>3. got' \in Seq(Nat) /\ read_buf' \in Seq(Nat)
      BY <1>3, <2>2, ConcatProperties DEF TypeOK, ReadBuffered
    <2> QED BY <1>3, <2>3 DEF TypeOK, ReadBuffered, Calls
  <1>4. CASE PollRecv
    <2> DEFINE p == Head(rx)
    <2>1. p \in InPacket /\ rx' \in Seq(InPacket) /\ Len(rx') <= RxCap
      BY <1>4, StreamAssumption, SMT DEF TypeOK, PollRecv
    <2>2. p.seq \in Nat /\ p.len \in Nat /\ p.ack \in Nat /\ p.win \in Nat BY <2>1 DEF InPacket
    <2>3. Run(p.seq, p.len) \in Seq(Nat) BY <2>2, RunFacts
    <2>4. read_buf' \in Seq(Nat) BY <1>4, <2>3, ConcatProperties DEF TypeOK, PollRecv
    <2> HIDE DEF p
    <2>5. received_bytes' = p.seq + p.len /\ device_last_received_bytes' = p.ack
          /\ device_last_window_size' = p.win
      BY <1>4 DEF PollRecv, p
    <2>6. received_bytes' \in Nat BY <2>2, <2>5
    <2>7. UNCHANGED <<sent_bytes, sendable_bytes, dropped, write_packet, last_write_len, rxOpen, tx,
                      writerOn, userVars, deviceVars>> /\ need_ack' = TRUE
      BY <1>4 DEF PollRecv
    <2> QED BY <2>1, <2>2, <2>4, <2>5, <2>6, <2>7 DEF TypeOK
  <1>5. CASE BuildPacket
    <2>1. last_write_len' \in Nat BY <1>5 DEF TypeOK, BuildPacket, Lesser
    <2>2. write_packet' \in OutPacket BY <1>5, <2>1, PacketFacts DEF BuildPacket
    <2> QED BY <1>5, <2>1, <2>2 DEF TypeOK, BuildPacket
  <1>6. CASE SendPending
    <2>1. write_packet.len \in Nat BY DEF TypeOK, OutPacket
    <2>2. sent_bytes' \in Nat /\ accepted' \in Nat BY <1>6, <2>1 DEF TypeOK, SendPending
    <2>3. sendable_bytes' \in 0..MAX_PACKET_PAYLOAD_SIZE
      BY <1>6, <2>2, CalcSound DEF TypeOK, SendPending
    <2>4. tx' \in Seq(OutPacket) /\ Len(tx') <= TxCap
      BY <1>6, StreamAssumption, SMT DEF TypeOK, SendPending, Full
    <2>5. NoPacket \in OutPacket BY DEF NoPacket, OutPacket
    <2> QED BY <1>6, <2>2, <2>3, <2>4, <2>5 DEF TypeOK, SendPending, Calls
  <1>7. CASE PollShutdown
    <2>1. Packet("RST", 0) \in OutPacket BY PacketFacts
    <2>2. tx \in Seq(OutPacket) /\ Len(tx) <= TxCap /\ TxCap \in Nat BY StreamAssumption DEF TypeOK
    <2>3. Append(tx, Packet("RST", 0)) \in Seq(OutPacket) /\ Len(Append(tx, Packet("RST", 0))) = Len(tx) + 1
      BY <2>1, <2>2, AppendFacts
    <2>4. tx' = tx \/ (Len(tx) < TxCap /\ tx' = Append(tx, Packet("RST", 0)))
      BY <1>7, <2>2 DEF PollShutdown, Full
    <2>5. tx' \in Seq(OutPacket) /\ Len(tx') <= TxCap BY <2>2, <2>3, <2>4
    <2>6. sendable_bytes' \in 0..MAX_PACKET_PAYLOAD_SIZE /\ need_ack' \in BOOLEAN /\ dropped' \in BOOLEAN
      BY <1>1, <1>7 DEF TypeOK, PollShutdown
    <2> QED BY <1>7, <2>5, <2>6 DEF TypeOK, PollShutdown, Calls
  <1>8. CASE CallFails
    <2>1. NoPacket \in OutPacket BY DEF NoPacket, OutPacket
    <2>2. write_packet' \in OutPacket BY <1>8, <2>1 DEF TypeOK, CallFails
    <2>3. call \in {"read", "write", "shutdown"}
      BY <1>8 DEF CallFails, SendDisconnected, RecvDisconnected, AtRecv, Polled
    <2> QED BY <1>8, <2>2, <2>3 DEF TypeOK, CallFails, Calls
  <1> QED BY <1>2, <1>3, <1>4, <1>5, <1>6, <1>7, <1>8 DEF PollNext

\* The user, the loops and the device.
LEMMA OtherTypes == TypeOK /\ (UserNext \/ LoopNext \/ DeviceNext \/ UNCHANGED vars) => TypeOK'
  <1> SUFFICES ASSUME TypeOK, UserNext \/ LoopNext \/ DeviceNext \/ UNCHANGED vars PROVE TypeOK'
    OBVIOUS
  <1> USE DEF connVars, streamVars, userVars, deviceVars, userPass, streamPass
  <1>1. CASE CallRead BY <1>1 DEF TypeOK, CallRead, Calls
  <1>2. CASE CallWrite BY <1>2 DEF TypeOK, CallWrite, Calls
  <1>3. CASE CallShutdown BY <1>3 DEF TypeOK, CallShutdown, Calls
  <1>4. CASE Cancel BY <1>4 DEF TypeOK, Cancel, Calls
  <1>5. CASE DropStream
    <2>1. Packet("RST", 0) \in OutPacket BY PacketFacts
    <2>2. tx \in Seq(OutPacket) /\ Len(tx) <= TxCap /\ TxCap \in Nat BY StreamAssumption DEF TypeOK
    <2>3. Append(tx, Packet("RST", 0)) \in Seq(OutPacket) /\ Len(Append(tx, Packet("RST", 0))) = Len(tx) + 1
      BY <2>1, <2>2, AppendFacts
    <2>4. tx' = tx \/ (Len(tx) < TxCap /\ tx' = Append(tx, Packet("RST", 0)))
      BY <1>5, <2>2 DEF DropStream, Full
    <2>5. tx' \in Seq(OutPacket) /\ Len(tx') <= TxCap BY <2>2, <2>3, <2>4
    <2>6. dropped' \in BOOLEAN BY <1>5 DEF TypeOK, DropStream
    <2>7. NoPacket \in OutPacket BY DEF NoPacket, OutPacket
    <2>8. rx' \in Seq(InPacket) /\ Len(rx') <= RxCap /\ read_buf' \in Seq(Nat)
      BY <1>5, StreamAssumption, SMT DEF DropStream
    <2> QED BY <1>5, <2>5, <2>7, <2>8, <2>6 DEF TypeOK, DropStream, Calls
  <1>6. CASE WriterStep
    <2> DEFINE p == Head(tx)
    <2>1. p \in OutPacket /\ tx' \in Seq(OutPacket) /\ Len(tx') <= TxCap
      BY <1>6, StreamAssumption, SMT DEF TypeOK, WriterStep
    <2>2. p.data \in Nat /\ p.len \in Nat /\ p.ack \in Nat BY <2>1 DEF OutPacket
    <2>3. Run(p.data, p.len) \in Seq(Nat) BY <2>2, RunFacts
    <2>4. arrived' \in Seq(Nat)
      <3>1. arrived \o Run(p.data, p.len) \in Seq(Nat) BY <2>3, ConcatProperties DEF TypeOK
      <3> QED BY <1>6, <3>1 DEF TypeOK, WriterStep
    <2>5. devOpen' \in BOOLEAN /\ devAckd' \in Nat BY <1>6, <2>2 DEF TypeOK, WriterStep
    <2> QED BY <1>6, <2>1, <2>4, <2>5 DEF TypeOK, WriterStep
  <1>7. CASE WriterStops
    <2>1. tx' \in Seq(OutPacket) /\ Len(tx') <= TxCap
      BY <1>7, StreamAssumption, SMT DEF WriterStops
    <2> QED BY <1>7, <2>1 DEF TypeOK, WriterStops
  <1>8. ASSUME NEW len \in 0..MaxIn, NEW win \in 0..DevBuf, DeviceSend(len, win) PROVE TypeOK'
    <2>1. len \in Nat /\ win \in Nat /\ devRcvd \in Nat BY StreamAssumption, SMT DEF TypeOK, devRcvd
    <2> DEFINE p == [seq |-> devSent, ack |-> devRcvd, win |-> win, len |-> len]
    <2>2. p \in InPacket BY <2>1 DEF TypeOK, InPacket
    <2>3. rx' \in Seq(InPacket) /\ Len(rx') <= RxCap
      BY <1>8, <2>2, StreamAssumption, SMT DEF TypeOK, DeviceSend
    <2>4. devSent' \in Nat /\ announced' \in [at : Nat, win : Nat]
      BY <1>8, <2>1 DEF TypeOK, DeviceSend
    <2> QED BY <1>8, <2>3, <2>4 DEF TypeOK, DeviceSend
  <1>9. CASE DeviceReads
    <2>1. devRcvd \in Nat BY DEF TypeOK, devRcvd
    <2> QED BY <1>9, <2>1 DEF TypeOK, DeviceReads
  <1>10. CASE ConnectionLost BY <1>10 DEF TypeOK, ConnectionLost
  <1>11. CASE UNCHANGED vars BY <1>11 DEF TypeOK, vars
  <1> QED
    BY <1>1, <1>2, <1>3, <1>4, <1>5, <1>6, <1>7, <1>8, <1>9, <1>10, <1>11
    DEF UserNext, LoopNext, DeviceNext

------------------------------------------------------------------------------
(* Reading.                                                                  *)

\* Steps that neither read, receive nor let the device send.
LEMMA ReadFrame ==
    ASSUME ReadSide, UNCHANGED <<got, read_buf, received_bytes, rx, devSent>>,
           call' # "gone" => call # "gone"
    PROVE  ReadSide'
  BY DEF ReadSide

\* The user gets the first bytes of read_buf.
LEMMA ReadBufferedReads == TypeOK /\ ReadSide /\ ReadBuffered => ReadSide'
  <1> SUFFICES ASSUME TypeOK, ReadSide, ReadBuffered PROVE ReadSide' OBVIOUS
  <1> DEFINE n == Lesser(Len(read_buf), buf)
             L == Len(read_buf)
             a == SubSeq(read_buf, 1, n)
             g == got \o a
             b == SubSeq(read_buf, n + 1, L)
  <1>1. /\ got \in Seq(Nat) /\ read_buf \in Seq(Nat) /\ L \in Nat /\ Len(got) \in Nat
        /\ n \in 0..L /\ received_bytes \in Nat /\ devSent \in Nat
    BY DEF TypeOK, Lesser
  <1>2. got' = g /\ read_buf' = b /\ UNCHANGED <<received_bytes, rx, devSent>>
    BY DEF ReadBuffered, connVars, deviceVars
  <1>3. call # "gone" BY DEF ReadBuffered
  <1>4. \A i \in 1..L : read_buf[i] \in Nat /\ read_buf[i] = Len(got) + i BY <1>1, <1>3 DEF ReadSide
  <1>5. Len(got) + L = received_bytes - 1 /\ Chain(rx, received_bytes, devSent)
    BY <1>3 DEF ReadSide
  <1> HIDE DEF n, L
  <1>6. a \in Seq(Nat) /\ Len(a) = n /\ \A i \in 1..n : a[i] = read_buf[i]
    <2>1. \A i \in 1..n : read_buf[i] \in Nat BY <1>1, <1>4
    <2>2. /\ a \in Seq(Nat) /\ Len(a) = IF 1 <= n THEN n - 1 + 1 ELSE 0
          /\ \A i \in 1..(n - 1 + 1) : a[i] = read_buf[1 + i - 1]
      BY <1>1, <2>1, SubSeqProperties
    <2> QED BY <1>1, <2>2
  <1>7. b \in Seq(Nat) /\ Len(b) = L - n /\ \A i \in 1..(L - n) : b[i] = read_buf[n + i]
    <2>1. \A i \in (n + 1)..L : read_buf[i] \in Nat BY <1>1, <1>4
    <2>2. /\ b \in Seq(Nat) /\ Len(b) = IF n + 1 <= L THEN L - (n + 1) + 1 ELSE 0
          /\ \A i \in 1..(L - (n + 1) + 1) : b[i] = read_buf[(n + 1) + i - 1]
      <3>1. n + 1 \in Int /\ L \in Int BY <1>1
      <3> QED BY <2>1, <3>1, SubSeqProperties
    <2> QED BY <1>1, <2>2
  <1> HIDE DEF a, b
  <1>8. /\ Len(g) = Len(got) + n
        /\ \A i \in 1..(Len(got) + n) : g[i] = IF i <= Len(got) THEN got[i] ELSE a[i - Len(got)]
    BY <1>1, <1>6, ConcatProperties
  <1> HIDE DEF g
  <1>9. \A i \in 1..(Len(got) + n) : g[i] = i
    <2> SUFFICES ASSUME NEW i \in 1..(Len(got) + n) PROVE g[i] = i OBVIOUS
    <2>1. i \in Int /\ n \in Int BY <1>1
    <2>2. CASE i <= Len(got)
      <3>1. i \in 1..Len(got) /\ g[i] = got[i] BY <1>1, <1>8, <2>1, <2>2
      <3> QED BY <3>1 DEF ReadSide
    <2>3. CASE i > Len(got)
      <3>1. i - Len(got) \in 1..n BY <1>1, <2>1, <2>3
      <3>2. a[i - Len(got)] = Len(got) + (i - Len(got)) BY <1>1, <1>4, <1>6, <3>1
      <3> QED BY <1>1, <1>8, <2>1, <2>3, <3>2
    <2>4. i <= Len(got) \/ i > Len(got) BY <1>1, <2>1
    <2> QED BY <2>2, <2>3, <2>4
  <1>10. \A i \in 1..Len(b) : b[i] = Len(g) + i
    <2> SUFFICES ASSUME NEW i \in 1..Len(b) PROVE b[i] = Len(g) + i OBVIOUS
    <2>1. n + i \in 1..L /\ i \in 1..(L - n) /\ i \in Int /\ n \in Int BY <1>1, <1>7
    <2>2. b[i] = Len(got) + (n + i) BY <1>4, <1>7, <2>1
    <2>3. Len(g) = Len(got) + n /\ Len(got) \in Nat BY <1>1, <1>8
    <2> QED BY <2>1, <2>2, <2>3
  <1>11. Len(g) + Len(b) = received_bytes - 1
    <2>1. Len(g) = Len(got) + n /\ Len(b) = L - n BY <1>7, <1>8
    <2>2. Len(got) \in Int /\ n \in Int /\ L \in Int BY <1>1
    <2>3. Len(g) + Len(b) = Len(got) + L BY <2>1, <2>2
    <2> QED BY <1>5, <2>3
  <1>12. received_bytes <= devSent BY <1>1, <1>5, ChainOrder, PacketsNumbered DEF TypeOK
  <1>13. Len(g) <= devSent - 1 BY <1>1, <1>7, <1>11, <1>12
  <1> QED BY <1>2, <1>5, <1>8, <1>9, <1>10, <1>11, <1>13 DEF ReadSide

\* A packet is taken from the channel, its bytes are buffered.
LEMMA PollRecvReads == TypeOK /\ ReadSide /\ PollRecv => ReadSide'
  <1> SUFFICES ASSUME TypeOK, ReadSide, PollRecv PROVE ReadSide' OBVIOUS
  <1> DEFINE p == Head(rx)
  <1>1. rx \in Seq(InPacket) /\ rx # <<>> /\ p \in InPacket BY TailFacts DEF TypeOK, PollRecv
  <1>2. p.seq \in Nat /\ p.len \in Nat BY <1>1 DEF InPacket
  <1>3. received_bytes \in Nat /\ devSent \in Nat /\ got \in Seq(Nat) /\ read_buf \in Seq(Nat)
        /\ Len(got) \in Nat /\ Len(read_buf) \in Nat
    BY DEF TypeOK
  <1>4. call # "gone" /\ call' = call BY DEF PollRecv, AtRecv, userVars
  <1>5. /\ \A i \in 1..Len(read_buf) : read_buf[i] = Len(got) + i
        /\ Len(got) + Len(read_buf) = received_bytes - 1 /\ Chain(rx, received_bytes, devSent)
    BY <1>4 DEF ReadSide
  <1>6. /\ p.seq = received_bytes
        /\ Chain(Tail(rx), received_bytes + p.len, devSent)
    BY <1>1, <1>3, <1>5, PacketsNumbered, ChainTail
  <1>7. /\ received_bytes' = p.seq + p.len /\ rx' = Tail(rx)
        /\ read_buf' = read_buf \o Run(p.seq, p.len) /\ UNCHANGED <<got, devSent>>
    BY DEF PollRecv, userVars, deviceVars
  <1> HIDE DEF p
  <1>8. p.seq = Len(got) + Len(read_buf) + 1 BY <1>3, <1>5, <1>6
  <1>9. /\ Len(read_buf') = Len(read_buf) + p.len
        /\ \A i \in 1..Len(read_buf') : read_buf'[i] = Len(got) + i
    <2>1. read_buf' = read_buf \o Run(Len(got) + Len(read_buf) + 1, p.len) BY <1>7, <1>8
    <2>2. /\ Len(read_buf') = Len(read_buf) + p.len
          /\ \A i \in 1..(Len(read_buf) + p.len) : read_buf'[i] = Len(got) + i
      <3> DEFINE e == read_buf \o Run(Len(got) + Len(read_buf) + 1, p.len)
      <3>1. Len(e) = Len(read_buf) + p.len /\ \A i \in 1..(Len(read_buf) + p.len) : e[i] = Len(got) + i
        BY <1>2, <1>3, <1>5, RunContinues, Zenon
      <3> QED BY <2>1, <3>1
    <2> QED BY <2>2
  <1>10. Len(got) + Len(read_buf') = received_bytes' - 1 BY <1>2, <1>3, <1>5, <1>6, <1>7, <1>9
  <1>11. Chain(rx', received_bytes', devSent') BY <1>6, <1>7
  <1> QED BY <1>7, <1>9, <1>10, <1>11 DEF ReadSide

\* The device sends the next bytes.
LEMMA DeviceSendReads ==
    ASSUME TypeOK, ReadSide, NEW len \in Nat, NEW win \in Nat, DeviceSend(len, win)
    PROVE  ReadSide'
  <1> DEFINE p == [seq |-> devSent, ack |-> devRcvd, win |-> win, len |-> len]
  <1>1. p \in InPacket /\ p.seq = devSent /\ p.len = len BY DEF TypeOK, InPacket, devRcvd
  <1>2. rx' = Append(rx, p) /\ devSent' = devSent + len BY DEF DeviceSend
  <1>3. UNCHANGED <<got, read_buf, received_bytes, call>>
    BY DEF DeviceSend, streamPass, connVars, streamVars, userVars
  <1>4. call # "gone" BY DEF DeviceSend
  <1>5. rx \in Seq(InPacket) /\ received_bytes \in Nat /\ devSent \in Nat /\ Len(got) \in Nat
    BY DEF TypeOK
  <1> HIDE DEF p
  <1>6. Chain(rx', received_bytes, devSent') BY <1>1, <1>2, <1>4, <1>5, ChainAppend, PacketsNumbered DEF ReadSide
  <1>7. Len(got) <= devSent' - 1 BY <1>2, <1>5 DEF ReadSide
  <1> QED BY <1>3, <1>4, <1>6, <1>7 DEF ReadSide

\* Every step keeps the order of the bytes that are read.
LEMMA ReadSideStep == TypeOK /\ ReadSide /\ [Next]_vars => ReadSide'
  <1> SUFFICES ASSUME TypeOK, ReadSide, [Next]_vars PROVE ReadSide' OBVIOUS
  <1> USE DEF connVars, streamVars, userVars, deviceVars, userPass, streamPass
  <1>1. CASE SendAck \/ BuildPacket BY <1>1, ReadFrame DEF SendAck, BuildPacket
  <1>2. CASE ReadBuffered BY <1>2, ReadBufferedReads
  <1>3. CASE PollRecv BY <1>3, PollRecvReads
  <1>4. CASE SendPending \/ PollShutdown BY <1>4, ReadFrame DEF SendPending, PollShutdown
  <1>5. CASE CallFails
    <2>1. call # "gone"
      BY <1>5 DEF CallFails, SendDisconnected, RecvDisconnected, AtRecv, Polled
    <2> QED BY <1>5, <2>1, ReadFrame DEF CallFails
  <1>6. CASE CallRead \/ CallWrite \/ CallShutdown BY <1>6, ReadFrame DEF CallRead, CallWrite, CallShutdown
  <1>7. CASE Cancel
    <2>1. call # "gone" BY <1>7 DEF Cancel, Pending, Polled, AtRecv
    <2> QED BY <1>7, <2>1, ReadFrame DEF Cancel
  <1>8. CASE DropStream BY <1>8 DEF DropStream, ReadSide
  <1>9. CASE LoopNext BY <1>9, ReadFrame DEF LoopNext, WriterStep, WriterStops
  <1>10. ASSUME NEW len \in 0..MaxIn, NEW win \in 0..DevBuf, DeviceSend(len, win) PROVE ReadSide'
    BY <1>10, DeviceSendReads, StreamAssumption
  <1>11. CASE DeviceReads \/ ConnectionLost BY <1>11, ReadFrame DEF DeviceReads, ConnectionLost
  <1>12. CASE UNCHANGED vars BY <1>12, ReadFrame DEF vars
  <1> QED
    BY <1>1, <1>2, <1>3, <1>4, <1>5, <1>6, <1>7, <1>8, <1>9, <1>10, <1>11, <1>12
    DEF Next, PollNext, UserNext, DeviceNext

------------------------------------------------------------------------------
(* Writing.                                                                  *)

\* Steps of reads and of the device.
LEMMA WriteFrame ==
    ASSUME WriteSide, UNCHANGED <<sent_bytes, accepted, write_packet, last_write_len, arrived, tx>>,
           devOpen' => devOpen, writerOn' => writerOn
    PROVE  WriteSide'
  BY DEF WriteSide, HasPacket

\* The channel with one more packet of the stream in it.
TxOrdered ==
    /\ \A i \in 1..Len(tx) : tx[i].data = tx[i].seq /\ (tx[i].flag = "RST" => tx[i].len = 0)
    /\ devOpen /\ writerOn => Chain(tx, Len(arrived) + 1, accepted + 1)

\* A packet built from the counters of the stream continues it.
LEMMA TxAppend ==
    ASSUME TypeOK, WriteSide, NEW p \in OutPacket, tx' = Append(tx, p),
           p.seq = sent_bytes, p.data = accepted + 1, p.flag = "RST" => p.len = 0,
           accepted' = accepted + p.len, UNCHANGED <<arrived, devOpen, writerOn>>
    PROVE  TxOrdered'
  <1>1. /\ tx \in Seq(OutPacket) /\ accepted \in Nat /\ Len(arrived) \in Nat
        /\ p.len \in Nat /\ sent_bytes = accepted + 1
    BY DEF TypeOK, OutPacket, WriteSide
  <1>2. /\ Len(tx') = Len(tx) + 1 /\ Len(tx) \in Nat
        /\ \A i \in 1..Len(tx) : tx'[i] = tx[i] /\ tx'[Len(tx) + 1] = p
    BY <1>1, AppendFacts
  <1>3. tx'[Len(tx) + 1] = p BY <1>1, AppendFacts
  <1>4. \A i \in 1..Len(tx') : tx'[i].data = tx'[i].seq /\ (tx'[i].flag = "RST" => tx'[i].len = 0)
    <2> SUFFICES ASSUME NEW i \in 1..Len(tx')
                 PROVE  tx'[i].data = tx'[i].seq /\ (tx'[i].flag = "RST" => tx'[i].len = 0)
      OBVIOUS
    <2>1. CASE i \in 1..Len(tx) BY <1>2, <2>1 DEF WriteSide
    <2>2. CASE i = Len(tx) + 1 BY <1>1, <1>3, <2>2
    <2> QED BY <1>2, <2>1, <2>2
  <1>5. ASSUME devOpen, writerOn PROVE Chain(tx', Len(arrived) + 1, (accepted + 1) + p.len)
    <2>1. Chain(tx, Len(arrived) + 1, accepted + 1) BY <1>5 DEF WriteSide
    <2>2. Len(arrived) + 1 \in Nat /\ accepted + 1 \in Nat /\ p.seq = accepted + 1 BY <1>1
    <2> QED BY <1>1, <2>1, <2>2, PacketsNumbered, ChainAppend
  <1>6. (accepted + 1) + p.len = accepted' + 1
    <2>1. accepted \in Nat /\ p.len \in Nat /\ accepted' = accepted + p.len BY <1>1
    <2>2. \A a, n \in Nat : (a + 1) + n = (a + n) + 1 OBVIOUS
    <2>3. (accepted + 1) + p.len = (accepted + p.len) + 1 BY <2>1, <2>2, Zenon
    <2> QED BY <2>1, <2>3, Zenon
  <1> QED BY <1>4, <1>5, <1>6 DEF TxOrdered

\* A flag packet is queued and the packet that waits is kept, or dropped with the stream.
LEMMA FlagQueued ==
    ASSUME TypeOK, WriteSide, NEW f \in {"ACK", "RST"}, tx' = Append(tx, Packet(f, 0)),
           UNCHANGED <<sent_bytes, accepted, arrived, devOpen, writerOn>>,
           write_packet' = NoPacket \/ UNCHANGED <<write_packet, last_write_len>>
    PROVE  WriteSide'
  <1>1. /\ Packet(f, 0) \in OutPacket /\ Packet(f, 0).seq = sent_bytes
        /\ Packet(f, 0).data = accepted + 1 /\ Packet(f, 0).len = 0
    BY PacketFacts
  <1>2. accepted' = accepted + Packet(f, 0).len BY <1>1 DEF TypeOK
  <1>3. TxOrdered' BY <1>1, <1>2, TxAppend
  <1> QED BY <1>3 DEF WriteSide, TxOrdered, HasPacket

\* A write has a packet to send.
LEMMA BuildPacketWrites == StreamInv /\ BuildPacket => WriteSide'
  <1> SUFFICES ASSUME StreamInv, BuildPacket PROVE WriteSide' OBVIOUS
  <1>1. TypeOK /\ WriteSide /\ Ends BY DEF StreamInv
  <1>2. last_write_len' \in Nat /\ last_write_len' > 0
    BY <1>1 DEF TypeOK, BuildPacket, Ends, Polled, Lesser
  <1>3. /\ write_packet'.flag = "ACK" /\ write_packet'.seq = sent_bytes
        /\ write_packet'.data = accepted + 1 /\ write_packet'.len = last_write_len'
    BY <1>1, <1>2, PacketFacts DEF BuildPacket
  <1>4. UNCHANGED <<sent_bytes, accepted, arrived, tx, devOpen, writerOn>>
    BY DEF BuildPacket, connVars, userVars, deviceVars
  <1> QED BY <1>1, <1>2, <1>3, <1>4 DEF WriteSide

\* The packet enters the channel and its length is reported.
LEMMA SendPendingWrites == TypeOK /\ WriteSide /\ SendPending => WriteSide'
  <1> SUFFICES ASSUME TypeOK, WriteSide, SendPending PROVE WriteSide' OBVIOUS
  <1> DEFINE p == write_packet
  <1>1. /\ p \in OutPacket /\ p.seq = sent_bytes /\ p.data = accepted + 1 /\ p.flag = "ACK"
        /\ p.len = last_write_len
    BY DEF TypeOK, WriteSide, SendPending
  <1>2. /\ tx' = Append(tx, p) /\ accepted' = accepted + p.len /\ sent_bytes' = sent_bytes + p.len
        /\ write_packet' = NoPacket /\ UNCHANGED <<arrived, devOpen, writerOn>>
    BY <1>1 DEF SendPending, deviceVars
  <1>3. p.len \in Nat BY <1>1 DEF OutPacket
  <1> HIDE DEF p
  <1>4. TxOrdered' BY <1>1, <1>2, TxAppend
  <1>5. sent_bytes' = accepted' + 1
    <2>1. accepted \in Nat /\ sent_bytes = accepted + 1 BY DEF TypeOK, WriteSide
    <2>2. accepted' = accepted + p.len /\ sent_bytes' = sent_bytes + p.len BY <1>2
    <2> QED BY <1>3, <2>1, <2>2
  <1> QED BY <1>2, <1>4, <1>5 DEF WriteSide, TxOrdered, HasPacket

\* A packet leaves the channel: while the device is there it continues what arrived.
LEMMA WriterStepWrites ==
    ASSUME TypeOK, WriteSide, WriterStep
    PROVE  /\ WriteSide'
           /\ arrived' = arrived \/ /\ devOpen /\ Head(tx).len \in Nat
                                    /\ arrived' = arrived \o Run(Len(arrived) + 1, Head(tx).len)
                                    /\ Head(tx).len <= accepted - Len(arrived)
                                    /\ ~devOpen' => Head(tx).len = 0
  <1> DEFINE p == Head(tx)
  <1>1. /\ tx \in Seq(OutPacket) /\ tx # <<>> /\ tx' = Tail(tx) /\ writerOn
        /\ accepted \in Nat /\ arrived \in Seq(Nat) /\ Len(arrived) \in Nat
    BY DEF TypeOK, WriterStep
  <1>2. p \in OutPacket /\ p = tx[1] /\ 1 \in 1..Len(tx)
        /\ \A i \in 1..Len(tx') : tx'[i] = tx[i+1] /\ i + 1 \in 1..Len(tx)
    BY <1>1, TailFacts
  <1>3. p.len \in Nat /\ p.data \in Nat /\ p.seq \in Nat BY <1>2 DEF OutPacket
  <1>4. p.data = p.seq /\ (p.flag = "RST" => p.len = 0) BY <1>2 DEF WriteSide
  <1>5. UNCHANGED <<sent_bytes, accepted, write_packet, last_write_len, writerOn>>
    BY DEF WriterStep, streamPass, connVars, streamVars, userVars
  <1>6. \A i \in 1..Len(tx') : tx'[i].data = tx'[i].seq /\ (tx'[i].flag = "RST" => tx'[i].len = 0)
    BY <1>2 DEF WriteSide
  <1>7. CASE devOpen
    <2>1. devOpen' = (p.flag # "RST") /\ arrived' = arrived \o Run(p.data, p.len)
      BY <1>7 DEF WriterStep
    <2>2. Chain(tx, Len(arrived) + 1, accepted + 1) BY <1>1, <1>7 DEF WriteSide
    <2>3. Len(arrived) + 1 \in Nat /\ accepted + 1 \in Nat BY <1>1
    <2>4. /\ p.seq = Len(arrived) + 1 /\ (Len(arrived) + 1) + p.len <= accepted + 1
          /\ Chain(Tail(tx), (Len(arrived) + 1) + p.len, accepted + 1)
      BY <1>1, <2>2, <2>3, PacketsNumbered, ChainTail
    <2> HIDE DEF p
    <2>5. arrived' = arrived \o Run(0 + Len(arrived) + 1, p.len) BY <1>1, <1>4, <2>1, <2>4
    <2>6. \A i \in 1..Len(arrived) : arrived[i] = 0 + i BY <1>1 DEF WriteSide
    <2>7. /\ Len(arrived') = Len(arrived) + p.len
          /\ \A i \in 1..(Len(arrived) + p.len) : arrived'[i] = 0 + i
      <3> DEFINE e == arrived \o Run(0 + Len(arrived) + 1, p.len)
      <3>1. 0 \in Nat OBVIOUS
      <3>2. Len(e) = Len(arrived) + p.len /\ \A i \in 1..(Len(arrived) + p.len) : e[i] = 0 + i
        BY <1>1, <1>3, <2>6, <3>1, RunContinues, Zenon
      <3> QED BY <2>5, <3>2
    <2>8. \A i \in 1..Len(arrived') : arrived'[i] = i BY <2>7
    <2>9. Chain(tx', Len(arrived') + 1, accepted + 1)
      <3>1. Len(arrived') + 1 = (Len(arrived) + 1) + p.len
        <4>1. Len(arrived) \in Nat /\ p.len \in Nat /\ Len(arrived') = Len(arrived) + p.len
          BY <1>1, <1>3, <2>7
        <4> QED BY <4>1
      <3> QED BY <1>1, <2>4, <3>1
    <2>10. WriteSide' BY <1>5, <1>6, <2>8, <2>9 DEF WriteSide, HasPacket
    <2>11. arrived' = arrived \o Run(Len(arrived) + 1, p.len) BY <1>1, <2>5
    <2>12. p.len <= accepted - Len(arrived) BY <1>1, <1>3, <2>4
    <2>13. ~devOpen' => p.len = 0 BY <1>4, <2>1
    <2> QED BY <1>3, <1>7, <2>10, <2>11, <2>12, <2>13 DEF p
  <1>8. CASE ~devOpen
    <2>1. devOpen' = devOpen /\ arrived' = arrived BY <1>8 DEF WriterStep
    <2>2. WriteSide' BY <1>5, <1>6, <1>8, <2>1 DEF WriteSide, HasPacket
    <2> QED BY <2>1, <2>2
  <1> QED BY <1>7, <1>8

\* Every step keeps the order of the bytes that are written.
LEMMA WriteSideStep == StreamInv /\ [Next]_vars => WriteSide'
  <1> SUFFICES ASSUME StreamInv, [Next]_vars PROVE WriteSide' OBVIOUS
  <1> USE DEF connVars, streamVars, userVars, deviceVars, userPass, streamPass
  <1>1. TypeOK /\ WriteSide BY DEF StreamInv
  <1>2. CASE SendAck
    <2>1. tx' = Append(tx, Packet("ACK", 0)) BY <1>2 DEF SendAck
    <2>2. UNCHANGED <<sent_bytes, accepted, arrived, devOpen, writerOn, write_packet, last_write_len>>
      BY <1>2 DEF SendAck
    <2> QED BY <1>1, <2>1, <2>2, FlagQueued
  <1>3. CASE ReadBuffered \/ PollRecv BY <1>1, <1>3, WriteFrame DEF ReadBuffered, PollRecv
  <1>4. CASE BuildPacket BY <1>4, BuildPacketWrites
  <1>5. CASE SendPending BY <1>1, <1>5, SendPendingWrites
  <1>6. CASE PollShutdown
    <2>1. UNCHANGED <<sent_bytes, accepted, arrived, devOpen, writerOn, write_packet, last_write_len>>
      BY <1>6 DEF PollShutdown
    <2>2. tx' = tx \/ tx' = Append(tx, Packet("RST", 0)) BY <1>6 DEF PollShutdown
    <2>3. CASE tx' = tx BY <1>1, <2>1, <2>3, WriteFrame
    <2>4. CASE tx' = Append(tx, Packet("RST", 0)) BY <1>1, <2>1, <2>4, FlagQueued
    <2> QED BY <2>2, <2>3, <2>4
  <1>7. CASE CallFails
    <2>1. write_packet' = NoPacket \/ write_packet' = write_packet BY <1>7 DEF CallFails
    <2>2. UNCHANGED <<sent_bytes, accepted, arrived, tx, devOpen, writerOn, last_write_len>>
      BY <1>7 DEF CallFails
    <2> QED BY <1>1, <2>1, <2>2 DEF WriteSide, HasPacket
  <1>8. CASE CallRead \/ CallWrite \/ CallShutdown \/ Cancel
    BY <1>1, <1>8, WriteFrame DEF CallRead, CallWrite, CallShutdown, Cancel
  <1>9. CASE DropStream
    <2>1. UNCHANGED <<sent_bytes, accepted, arrived, devOpen, writerOn>> /\ write_packet' = NoPacket
      BY <1>9 DEF DropStream
    <2>2. tx' = tx \/ tx' = Append(tx, Packet("RST", 0)) BY <1>9 DEF DropStream
    <2>3. CASE tx' = tx BY <1>1, <2>1, <2>3 DEF WriteSide, HasPacket
    <2>4. CASE tx' = Append(tx, Packet("RST", 0)) BY <1>1, <2>1, <2>4, FlagQueued
    <2> QED BY <2>2, <2>3, <2>4
  <1>10. CASE WriterStep BY <1>1, <1>10, WriterStepWrites
  <1>11. CASE WriterStops BY <1>1, <1>11 DEF WriterStops, WriteSide, HasPacket
  <1>12. ASSUME NEW len \in 0..MaxIn, NEW win \in 0..DevBuf, DeviceSend(len, win) PROVE WriteSide'
    BY <1>1, <1>12, WriteFrame DEF DeviceSend
  <1>13. CASE DeviceReads \/ ConnectionLost BY <1>1, <1>13, WriteFrame DEF DeviceReads, ConnectionLost
  <1>14. CASE UNCHANGED vars BY <1>1, <1>14, WriteFrame DEF vars
  <1> QED
    BY <1>2, <1>3, <1>4, <1>5, <1>6, <1>7, <1>8, <1>9, <1>10, <1>11, <1>12, <1>13, <1>14
    DEF Next, PollNext, UserNext, LoopNext, DeviceNext

------------------------------------------------------------------------------
(* Flow control.                                                             *)

\* Sums grow with their parts.
LEMMA AddMono ==
    ASSUME NEW a \in Nat, NEW b \in Nat, NEW c \in Nat, a <= b
    PROVE  a + c \in Nat /\ b + c \in Nat /\ a + c <= b + c
  OBVIOUS

\* The room the device has, or will have when it has read.
Room == devRead + DevBuf

\* Steps that move no window and add no bytes.
LEMMA WindowFrame ==
    ASSUME TypeOK, Windows, devRead' \in Nat, devRead <= devRead',
           UNCHANGED <<sent_bytes, device_last_received_bytes, device_last_window_size>>,
           rx' = rx \/ rx' = <<>>,
           sendable_bytes' = sendable_bytes \/ sendable_bytes' = Sendable,
           write_packet' = write_packet \/ write_packet' = NoPacket
    PROVE  Windows'
  <1>1. /\ devRead \in Nat /\ DevBuf \in Nat /\ sent_bytes \in Nat /\ sendable_bytes \in Nat
        /\ device_last_received_bytes \in Nat /\ device_last_window_size \in Nat
    BY StreamAssumption DEF TypeOK
  <1>2. Room \in Nat /\ Room' \in Nat /\ Room <= Room'
    <2>1. devRead' \in Nat /\ devRead <= devRead' OBVIOUS
    <2>2. devRead + DevBuf \in Nat /\ devRead' + DevBuf \in Nat /\ devRead + DevBuf <= devRead' + DevBuf
      BY <1>1, <2>1, AddMono, Zenon
    <2> QED BY <2>2, Zenon DEF Room
  <1>3. device_last_received_bytes' + device_last_window_size' <= Room'
    <2>1. device_last_received_bytes + device_last_window_size <= Room BY DEF Windows, Room
    <2>2. device_last_received_bytes + device_last_window_size <= Room' BY <1>1, <1>2, <2>1
    <2> QED BY <2>2
  <1>4. \A i \in 1..Len(rx') : rx'[i].ack + rx'[i].win <= Room'
    <2>1. CASE rx' = <<>> BY <2>1
    <2>2. CASE rx' = rx
      <3> SUFFICES ASSUME NEW i \in 1..Len(rx) PROVE rx[i].ack + rx[i].win <= Room' BY <2>2
      <3>1. rx[i] \in InPacket BY DEF TypeOK
      <3>2. rx[i].ack \in Nat /\ rx[i].win \in Nat BY <3>1 DEF InPacket
      <3>3. rx[i].ack + rx[i].win <= Room BY DEF Windows, Room
      <3> QED BY <1>2, <3>2, <3>3
    <2> QED BY <2>1, <2>2
  <1>5. sent_bytes + sendable_bytes' <= Room'
    <2>1. sent_bytes + sendable_bytes <= Room BY DEF Windows, Room
    <2>2. CASE sendable_bytes' = sendable_bytes
      <3>1. sent_bytes + sendable_bytes <= Room' BY <1>1, <1>2, <2>1
      <3> QED BY <2>2, <3>1
    <2>3. CASE sendable_bytes' = Sendable
      <3>1. device_last_received_bytes + device_last_window_size <= Room BY DEF Windows, Room
      <3>2. sent_bytes <= Room BY <1>1, <1>2, <2>1
      <3>3. Sendable \in 0..MAX_PACKET_PAYLOAD_SIZE /\ sent_bytes + Sendable <= Room
        BY <1>1, <1>2, <3>1, <3>2, CalcSound, Zenon DEF Sendable
      <3>4. Sendable \in Nat BY <3>3, StreamAssumption
      <3>5. sent_bytes + Sendable <= Room' BY <1>1, <1>2, <3>3, <3>4
      <3> QED BY <2>3, <3>5
    <2> QED BY <2>2, <2>3
  <1>6. WindowRespected'
    <2>1. sent_bytes + (IF HasPacket THEN write_packet.len ELSE 0) <= Room
      BY DEF Windows, WindowRespected, Room
    <2>2. write_packet.len \in Nat BY DEF TypeOK, OutPacket
    <2>3. CASE write_packet' = NoPacket
      <3>1. ~HasPacket' BY <2>3 DEF HasPacket
      <3>2. sent_bytes + 0 <= Room' BY <1>1, <1>2, <2>1, <2>2
      <3> QED BY <3>1, <3>2 DEF WindowRespected, Room
    <2>4. CASE write_packet' = write_packet
      <3>1. HasPacket' = HasPacket BY <2>4 DEF HasPacket
      <3>2. sent_bytes + (IF HasPacket THEN write_packet.len ELSE 0) <= Room' BY <1>1, <1>2, <2>1, <2>2
      <3> QED BY <2>4, <3>1, <3>2 DEF WindowRespected, Room
    <2> QED BY <2>3, <2>4
  <1> QED BY <1>3, <1>4, <1>5, <1>6 DEF Windows, Room

\* A packet is taken from the channel with the window it announces.
LEMMA PollRecvWindow == TypeOK /\ Windows /\ PollRecv => Windows'
  <1> SUFFICES ASSUME TypeOK, Windows, PollRecv PROVE Windows' OBVIOUS
  <1>1. rx \in Seq(InPacket) /\ rx # <<>> BY DEF TypeOK, PollRecv
  <1>2. /\ Head(rx) = rx[1] /\ 1 \in 1..Len(rx)
        /\ \A i \in 1..Len(Tail(rx)) : Tail(rx)[i] = rx[i+1] /\ i + 1 \in 1..Len(rx)
    BY <1>1, TailFacts
  <1>3. /\ device_last_received_bytes' = rx[1].ack /\ device_last_window_size' = rx[1].win
        /\ rx' = Tail(rx)
    BY <1>2 DEF PollRecv
  <1>4. UNCHANGED <<sent_bytes, sendable_bytes, write_packet, devRead>>
    BY DEF PollRecv, deviceVars
  <1> QED BY <1>2, <1>3, <1>4 DEF Windows, WindowRespected, HasPacket

\* The packet of a write is no longer than what may be sent.
LEMMA BuildPacketWindow == TypeOK /\ Windows /\ BuildPacket => Windows'
  <1> SUFFICES ASSUME TypeOK, Windows, BuildPacket PROVE Windows' OBVIOUS
  <1>1. /\ sent_bytes \in Nat /\ sendable_bytes \in Nat /\ devRead \in Nat /\ DevBuf \in Nat /\ buf \in Nat
    BY StreamAssumption DEF TypeOK
  <1>2. last_write_len' \in Nat /\ last_write_len' <= sendable_bytes
    BY <1>1 DEF BuildPacket, Lesser
  <1>3. write_packet'.len = last_write_len' BY <1>2, PacketFacts DEF BuildPacket
  <1>4. /\ UNCHANGED <<sent_bytes, sendable_bytes, device_last_received_bytes, device_last_window_size>>
        /\ UNCHANGED <<rx, devRead>>
    BY DEF BuildPacket, connVars, deviceVars
  <1>5. sent_bytes + sendable_bytes <= devRead + DevBuf BY DEF Windows
  <1>6. WindowRespected'
    <2> DEFINE n == last_write_len'
    <2>1. n \in Nat /\ n <= sendable_bytes BY <1>2
    <2> HIDE DEF n
    <2>2. sent_bytes + n <= devRead + DevBuf /\ sent_bytes + 0 <= devRead + DevBuf BY <1>1, <1>5, <2>1
    <2> QED BY <1>3, <1>4, <2>2 DEF WindowRespected, n
  <1> QED BY <1>4, <1>6 DEF Windows

\* The packet is sent: its bytes fitted when it was built, and do so now.
LEMMA SendPendingWindow == TypeOK /\ Windows /\ SendPending => Windows'
  <1> SUFFICES ASSUME TypeOK, Windows, SendPending PROVE Windows' OBVIOUS
  <1>1. /\ sent_bytes \in Nat /\ devRead \in Nat /\ DevBuf \in Nat /\ write_packet.len \in Nat
        /\ device_last_received_bytes \in Nat /\ device_last_window_size \in Nat
    BY StreamAssumption DEF TypeOK, OutPacket
  <1>2. sent_bytes' = sent_bytes + write_packet.len BY DEF SendPending
  <1>3. sent_bytes' \in Nat BY <1>1, <1>2
  <1>4. Room \in Nat BY <1>1 DEF Room
  <1>5. sent_bytes' <= Room BY <1>2 DEF Windows, WindowRespected, SendPending, Room
  <1>6. device_last_received_bytes + device_last_window_size <= Room BY DEF Windows, Room
  <1>7. sendable_bytes' = CalcSendable(sent_bytes', device_last_window_size, device_last_received_bytes)
    BY DEF SendPending
  <1>8. sent_bytes' + sendable_bytes' <= Room BY <1>1, <1>3, <1>4, <1>5, <1>6, <1>7, CalcSound
  <1>9. /\ UNCHANGED <<device_last_received_bytes, device_last_window_size, rx, devRead>>
        /\ write_packet' = NoPacket
    BY DEF SendPending, deviceVars
  <1>10. WindowRespected' BY <1>3, <1>5, <1>9 DEF WindowRespected, HasPacket, Room
  <1> QED BY <1>8, <1>9, <1>10 DEF Windows, Room

\* The device announces no more than it has room for.
LEMMA DeviceSendWindow ==
    ASSUME TypeOK, Windows, NEW len \in Nat, NEW win \in Nat, DeviceSend(len, win)
    PROVE  Windows'
  <1> DEFINE p == [seq |-> devSent, ack |-> devRcvd, win |-> win, len |-> len]
  <1>1. devRcvd \in Nat /\ devRead \in Nat /\ DevBuf \in Nat /\ rx \in Seq(InPacket)
    BY StreamAssumption DEF TypeOK, devRcvd
  <1>2. p \in InPacket /\ p.ack = devRcvd /\ p.win = win BY <1>1 DEF TypeOK, InPacket
  <1>3. rx' = Append(rx, p) BY DEF DeviceSend
  <1>4. win <= DevBuf - (devRcvd - devRead) BY DEF DeviceSend
  <1>5. p.ack + p.win <= devRead + DevBuf BY <1>1, <1>2, <1>4
  <1>6. UNCHANGED <<connVars, write_packet, devRead>>
    BY DEF DeviceSend, streamPass, streamVars
  <1> HIDE DEF p
  <1>7. /\ Len(rx') = Len(rx) + 1 /\ Len(rx) \in Nat
        /\ \A i \in 1..Len(rx) : rx'[i] = rx[i]
        /\ rx'[Len(rx) + 1] = p
    BY <1>1, <1>2, <1>3, AppendFacts
  <1>8. \A i \in 1..Len(rx') : rx'[i].ack + rx'[i].win <= devRead + DevBuf
    <2> SUFFICES ASSUME NEW i \in 1..Len(rx') PROVE rx'[i].ack + rx'[i].win <= devRead + DevBuf
      OBVIOUS
    <2>1. CASE i \in 1..Len(rx) BY <1>7, <2>1 DEF Windows
    <2>2. CASE i = Len(rx) + 1 BY <1>5, <1>7, <2>2
    <2> QED BY <1>7, <2>1, <2>2
  <1> QED BY <1>6, <1>8 DEF Windows, WindowRespected, HasPacket, connVars

\* Every step respects the windows.
LEMMA WindowsStep == TypeOK /\ Windows /\ [Next]_vars => Windows'
  <1> SUFFICES ASSUME TypeOK, Windows, [Next]_vars PROVE Windows' OBVIOUS
  <1> USE DEF connVars, streamVars, userVars, deviceVars, userPass, streamPass
  <1>1. devRead \in Nat /\ devRcvd \in Nat BY DEF TypeOK, devRcvd
  <1>2. CASE SendAck \/ ReadBuffered \/ PollShutdown \/ CallFails
    BY <1>1, <1>2, WindowFrame DEF SendAck, ReadBuffered, PollShutdown, CallFails
  <1>3. CASE PollRecv BY <1>3, PollRecvWindow
  <1>4. CASE BuildPacket BY <1>4, BuildPacketWindow
  <1>5. CASE SendPending BY <1>5, SendPendingWindow
  <1>6. CASE UserNext
    BY <1>1, <1>6, WindowFrame DEF UserNext, CallRead, CallWrite, CallShutdown, Cancel, DropStream
  <1>7. CASE LoopNext BY <1>1, <1>7, WindowFrame DEF LoopNext, WriterStep, WriterStops
  <1>8. ASSUME NEW len \in 0..MaxIn, NEW win \in 0..DevBuf, DeviceSend(len, win) PROVE Windows'
    BY <1>8, DeviceSendWindow, StreamAssumption
  <1>9. CASE DeviceReads BY <1>1, <1>9, WindowFrame DEF DeviceReads
  <1>10. CASE ConnectionLost BY <1>1, <1>10, WindowFrame DEF ConnectionLost
  <1>11. CASE UNCHANGED vars BY <1>1, <1>11, WindowFrame DEF vars
  <1> QED
    BY <1>2, <1>3, <1>4, <1>5, <1>6, <1>7, <1>8, <1>9, <1>10, <1>11 DEF Next, PollNext, DeviceNext

------------------------------------------------------------------------------
(* The end of a stream.                                                      *)

\* Steps that leave the call in progress, or end it, and deliver nothing.
LEMMA EndsFrame ==
    ASSUME Ends, UNCHANGED <<got, failedOn>>,
           (call' = call /\ buf' = buf) \/ call' \in {"none", "gone"},
           writerOn' => writerOn, rxOpen' => rxOpen,
           devSent' = devSent \/ rxOpen
    PROVE  Ends'
  BY DEF Ends, Polled

\* A call that fails: a read for want of a sender has got everything.
LEMMA CallFailsEnds == TypeOK /\ ReadSide /\ Ends /\ CallFails => Ends'
  <1> SUFFICES ASSUME TypeOK, ReadSide, Ends, CallFails PROVE Ends' OBVIOUS
  <1>1. call' = "none" /\ failedOn' = call /\ UNCHANGED <<got, writerOn, rxOpen, devSent>>
    BY DEF CallFails, deviceVars
  <1>2. ASSUME call = "read", writerOn PROVE ~rxOpen /\ Len(got) = devSent - 1
    <2>1. RecvDisconnected BY <1>2 DEF CallFails, SendDisconnected
    <2>2. rx = <<>> /\ read_buf = <<>> /\ ~rxOpen BY <1>2, <2>1 DEF RecvDisconnected, AtRecv
    <2>3. Len(read_buf) = 0 BY <2>2
    <2>4. received_bytes = devSent /\ Len(got) + Len(read_buf) = received_bytes - 1
      BY <1>2, <2>2 DEF ReadSide, Chain
    <2>5. Len(got) \in Nat BY DEF TypeOK
    <2> QED BY <2>2, <2>3, <2>4, <2>5
  <1> QED BY <1>1, <1>2 DEF Ends, Polled

\* Every step ends streams this way.
LEMMA EndsStep == StreamInv /\ [Next]_vars => Ends'
  <1> SUFFICES ASSUME StreamInv, [Next]_vars PROVE Ends' OBVIOUS
  <1> USE DEF connVars, streamVars, userVars, deviceVars, userPass, streamPass
  <1>1. TypeOK /\ ReadSide /\ Ends BY DEF StreamInv
  <1>2. CASE SendAck \/ PollRecv \/ BuildPacket
    BY <1>1, <1>2, EndsFrame DEF SendAck, PollRecv, BuildPacket
  <1>3. CASE ReadBuffered BY <1>1, <1>3 DEF ReadBuffered, Ends, Polled
  <1>4. CASE SendPending \/ PollShutdown BY <1>1, <1>4, EndsFrame DEF SendPending, PollShutdown
  <1>5. CASE CallFails BY <1>1, <1>5, CallFailsEnds
  <1>6. CASE CallRead
    <2>1. buf' > 0 BY <1>6 DEF CallRead
    <2> QED BY <1>1, <1>6, <2>1 DEF CallRead, Ends, Polled
  <1>7. CASE CallWrite
    <2>1. PICK n \in 1..(MaxOut - accepted) : buf' = n /\ call' = "write" BY <1>7 DEF CallWrite
    <2>2. n > 0 BY <2>1, StreamAssumption, <1>1 DEF TypeOK
    <2> QED BY <1>1, <1>7, <2>1, <2>2 DEF CallWrite, Ends, Polled
  <1>8. CASE CallShutdown BY <1>1, <1>8 DEF CallShutdown, Ends, Polled
  <1>9. CASE Cancel \/ DropStream BY <1>1, <1>9, EndsFrame DEF Cancel, DropStream
  <1>10. CASE LoopNext BY <1>1, <1>10, EndsFrame DEF LoopNext, WriterStep, WriterStops
  <1>11. ASSUME NEW len \in 0..MaxIn, NEW win \in 0..DevBuf, DeviceSend(len, win) PROVE Ends'
    BY <1>1, <1>11, EndsFrame DEF DeviceSend
  <1>12. CASE DeviceReads \/ ConnectionLost BY <1>1, <1>12, EndsFrame DEF DeviceReads, ConnectionLost
  <1>13. CASE UNCHANGED vars BY <1>1, <1>13, EndsFrame DEF vars
  <1> QED
    BY <1>2, <1>3, <1>4, <1>5, <1>6, <1>7, <1>8, <1>9, <1>10, <1>11, <1>12, <1>13
    DEF Next, PollNext, UserNext, DeviceNext

------------------------------------------------------------------------------
(* The theorems.                                                             *)

\* A stream that was just connected.
LEMMA InitInv == Init => StreamInv
  <1> SUFFICES ASSUME Init PROVE StreamInv OBVIOUS
  <1>1. TypeOK BY TypeInit
  <1>2. ReadSide BY ChainEmpty DEF Init, ReadSide
  <1>3. WriteSide
    <2>1. Chain(tx, Len(arrived) + 1, accepted + 1) BY ChainEmpty DEF Init
    <2> QED BY <2>1 DEF Init, WriteSide, HasPacket
  <1>4. Windows
    <2>1. DevBuf \in Nat /\ device_last_window_size \in Nat /\ device_last_window_size <= DevBuf
      BY StreamAssumption, SMT DEF Init
    <2>2. 1 + device_last_window_size <= 1 + DevBuf /\ 1 <= 1 + DevBuf /\ 1 + DevBuf \in Nat BY <2>1
    <2>3. 1 + CalcSendable(1, device_last_window_size, 1) <= 1 + DevBuf
      <3>1. 1 \in Nat OBVIOUS
      <3> QED BY <2>1, <2>2, <3>1, CalcSound, Zenon
    <2>4. ~HasPacket BY DEF Init, HasPacket
    <2> QED BY <2>2, <2>3, <2>4 DEF Init, Sendable, Windows, WindowRespected
  <1>5. Ends BY DEF Init, Ends, Polled
  <1> QED BY <1>1, <1>2, <1>3, <1>4, <1>5 DEF StreamInv

\* The invariant is inductive.
LEMMA InvStep == StreamInv /\ [Next]_vars => StreamInv'
  <1> SUFFICES ASSUME StreamInv, [Next]_vars PROVE StreamInv' OBVIOUS
  <1>1. TypeOK' BY PollTypes, OtherTypes DEF StreamInv, Next
  <1>2. ReadSide' BY ReadSideStep DEF StreamInv
  <1>3. WriteSide' BY WriteSideStep
  <1>4. Windows' BY WindowsStep DEF StreamInv
  <1>5. Ends' BY EndsStep
  <1> QED BY <1>1, <1>2, <1>3, <1>4, <1>5 DEF StreamInv

\* It holds in every state.
LEMMA Invariant == Spec => []StreamInv
  BY InitInv, InvStep, PTL DEF Spec

\* The variables of RusbmuxStream, its channels and its user keep their types.
THEOREM TypeCorrect == Spec => []TypeOK
  <1>1. StreamInv => TypeOK BY DEF StreamInv
  <1> QED BY <1>1, Invariant, PTL

\* Every byte acknowledged to the device was read or is in read_buf, although poll_write
\* receives packets too and any call may be cancelled while it waits.
THEOREM KeepsAcked == Spec => []AckedIsKept
  <1>1. StreamInv => AckedIsKept
    <2> SUFFICES ASSUME StreamInv, call # "gone" PROVE received_bytes - 1 = Len(got) + Len(read_buf)
      BY DEF AckedIsKept
    <2> QED BY DEF StreamInv, ReadSide
  <1> QED BY <1>1, Invariant, PTL

\* The bytes sent, and those of a packet that a cancelled write has left behind, stay
\* within what the device has read plus its buffer.
THEOREM RespectsWindow == Spec => []WindowRespected
  <1>1. StreamInv => WindowRespected BY DEF StreamInv, Windows
  <1> QED BY <1>1, Invariant, PTL

\* A read fails for a reset or an unplugged cable only after everything was read.
THEOREM ErrorComesLast == Spec => []DataBeforeError
  <1>1. StreamInv => DataBeforeError BY DEF StreamInv, Ends, DataBeforeError
  <1> QED BY <1>1, Invariant, PTL

------------------------------------------------------------------------------
(* RusbmuxStream implements BytePipe.                                        *)

\* Two sequences of the first positions of a stream differ by a run.
LEMMA PositionsGrow ==
    ASSUME NEW s \in Seq(Nat), NEW t \in Seq(Nat), Len(s) <= Len(t),
           \A i \in 1..Len(s) : s[i] = i, \A i \in 1..Len(t) : t[i] = i
    PROVE  t = s \o Run(Len(s) + 1, Len(t) - Len(s))
  <1> DEFINE n == Len(t) - Len(s)
             u == s \o Run(0 + Len(s) + 1, n)
  <1>1. Len(s) \in Nat /\ Len(t) \in Nat /\ n \in Nat /\ Len(s) + n = Len(t) OBVIOUS
  <1>2. 0 \in Nat /\ \A i \in 1..Len(s) : s[i] = 0 + i OBVIOUS
  <1> HIDE DEF n
  <1>3. /\ u \in Seq(Nat) /\ Len(u) = Len(s) + n
        /\ \A i \in 1..(Len(s) + n) : u[i] = 0 + i
    BY <1>1, <1>2, RunContinues, Zenon
  <1>4. Len(u) = Len(t) /\ \A i \in 1..Len(t) : u[i] = i BY <1>1, <1>3
  <1>5. u = s \o Run(Len(s) + 1, n) BY <1>1
  <1> HIDE DEF u
  <1>6. u = t BY <1>3, <1>4, SeqEqual
  <1> QED BY <1>5, <1>6 DEF n

\* An empty run adds nothing.
LEMMA EmptyRun == ASSUME NEW s \in Seq(Nat), NEW a PROVE s \o Run(a, 0) = s
  <1>1. Run(a, 0) = <<>> BY SMT DEF Run
  <1> QED BY <1>1, ConcatEmptySeq

\* A step that the byte pipe does not see.
LEMMA PipeStutters ==
    ASSUME UNCHANGED <<accepted, arrived, devSent, got, devOpen>>
    PROVE  UNCHANGED Pipe!vars
  BY DEF Pipe!vars

\* A read is a Deliver.
LEMMA ReadIsDeliver ==
    ASSUME StreamInv, StreamInv', ReadBuffered
    PROVE  Pipe!Deliver
  <1> DEFINE g == got'
             d == devSent
  <1>1. got \in Seq(Nat) /\ g \in Seq(Nat) /\ d \in Nat BY DEF StreamInv, TypeOK
  <1>2. UNCHANGED <<accepted, arrived, devSent, devOpen>> BY DEF ReadBuffered, deviceVars
  <1>3. /\ \A i \in 1..Len(got) : got[i] = i
        /\ \A i \in 1..Len(g) : g[i] = i
        /\ Len(g) <= d - 1
    BY <1>2 DEF StreamInv, ReadSide
  <1>4. Len(got) <= Len(g)
    <2> DEFINE a == SubSeq(read_buf, 1, Lesser(Len(read_buf), buf))
    <2>1. got' = got \o a BY DEF ReadBuffered
    <2>2. read_buf \in Seq(Nat) /\ Len(read_buf) \in Nat /\ buf \in Nat BY DEF StreamInv, TypeOK
    <2>3. Lesser(Len(read_buf), buf) \in 0..Len(read_buf) BY <2>2 DEF Lesser
    <2>4. a \in Seq(Nat)
      <3> DEFINE n == Lesser(Len(read_buf), buf)
      <3>1. 1 \in Int /\ n \in Int BY <2>3
      <3>2. \A i \in 1..n : read_buf[i] \in Nat BY <2>2, <2>3
      <3> HIDE DEF n
      <3>3. SubSeq(read_buf, 1, n) \in Seq(Nat) BY <3>1, <3>2, SubSeqProperties
      <3> QED BY <3>3 DEF n
    <2> HIDE DEF a
    <2>5. Len(got \o a) = Len(got) + Len(a) /\ Len(got) \in Nat /\ Len(a) \in Nat
      BY <1>1, <2>4, ConcatProperties
    <2> QED BY <2>1, <2>5
  <1> HIDE DEF g, d
  <1>5. g = got \o Run(Len(got) + 1, Len(g) - Len(got)) BY <1>1, <1>3, <1>4, PositionsGrow
  <1>6. Len(g) - Len(got) \in 0..(d - 1 - Len(got)) BY <1>1, <1>3, <1>4
  <1>7. \E n \in 0..(devSent - 1 - Len(got)) : got' = got \o Run(Len(got) + 1, n)
    BY <1>5, <1>6 DEF g, d
  <1> QED BY <1>2, <1>7 DEF Pipe!Deliver, Pipe!Run, Run

\* A packet that enters the writer channel is an Accept.
LEMMA SendIsAccept ==
    ASSUME StreamInv, SendPending
    PROVE  Pipe!Accept
  <1>1. accepted \in Nat /\ last_write_len \in Nat /\ last_write_len > 0
    BY DEF StreamInv, TypeOK, WriteSide, SendPending
  <1>2. accepted' = accepted + last_write_len BY DEF SendPending
  <1>3. accepted' \in Nat /\ accepted' > accepted BY <1>1, <1>2
  <1>4. UNCHANGED <<arrived, devSent, got, devOpen>> BY DEF SendPending, deviceVars
  <1> QED BY <1>3, <1>4 DEF Pipe!Accept

\* A packet that the writer loop writes is an Arrive, a reset a Close.
LEMMA WriteIsArrive ==
    ASSUME StreamInv, WriterStep
    PROVE  Pipe!Arrive \/ Pipe!Close \/ UNCHANGED Pipe!vars
  <1> DEFINE n == Head(tx).len
  <1>1. arrived \in Seq(Nat) /\ accepted \in Nat /\ devOpen \in BOOLEAN BY DEF StreamInv, TypeOK
  <1>2. UNCHANGED <<accepted, devSent, got>>
    BY DEF WriterStep, streamPass, userVars, deviceVars
  <1>3. arrived' = arrived \/ /\ devOpen /\ n \in Nat
                              /\ arrived' = arrived \o Run(Len(arrived) + 1, n)
                              /\ n <= accepted - Len(arrived)
                              /\ ~devOpen' => n = 0
    BY WriterStepWrites DEF StreamInv
  <1>4. devOpen' => devOpen BY DEF WriterStep
  <1>5. CASE arrived' = arrived /\ devOpen' = devOpen BY <1>2, <1>5, PipeStutters
  <1>6. CASE arrived' = arrived /\ ~devOpen'
    BY <1>2, <1>6 DEF Pipe!Close
  <1>7. CASE arrived' # arrived
    <2>1. /\ devOpen /\ n \in Nat /\ arrived' = arrived \o Run(Len(arrived) + 1, n)
          /\ n <= accepted - Len(arrived)
      BY <1>3, <1>7
    <2>2. devOpen'
      <3> SUFFICES ASSUME ~devOpen' PROVE FALSE OBVIOUS
      <3>1. n = 0 BY <1>3, <1>7
      <3> QED BY <1>1, <1>7, <2>1, <3>1, EmptyRun
    <2> HIDE DEF n
    <2>3. n \in 0..(accepted - Len(arrived)) BY <1>1, <2>1
    <2>4. devOpen' = devOpen BY <1>1, <2>1, <2>2 DEF WriterStep
    <2> QED BY <1>2, <2>1, <2>3, <2>4 DEF Pipe!Arrive, Pipe!Run, Run
  <1> QED BY <1>4, <1>5, <1>6, <1>7

\* Every step of the stream is a step of the byte pipe, or one that it does not see.
LEMMA PipeStep == StreamInv /\ StreamInv' /\ [Next]_vars => [Pipe!Next]_(Pipe!vars)
  <1> SUFFICES ASSUME StreamInv, StreamInv', [Next]_vars PROVE Pipe!Next \/ UNCHANGED Pipe!vars
    OBVIOUS
  <1> USE DEF userVars, deviceVars, userPass, streamPass
  <1>1. CASE SendAck \/ PollRecv \/ BuildPacket \/ PollShutdown \/ CallFails
    BY <1>1, PipeStutters DEF SendAck, PollRecv, BuildPacket, PollShutdown, CallFails
  <1>2. CASE ReadBuffered BY <1>2, ReadIsDeliver DEF Pipe!Next
  <1>3. CASE SendPending BY <1>3, SendIsAccept DEF Pipe!Next
  <1>4. CASE UserNext
    BY <1>4, PipeStutters DEF UserNext, CallRead, CallWrite, CallShutdown, Cancel, DropStream
  <1>5. CASE WriterStep BY <1>5, WriteIsArrive DEF Pipe!Next
  <1>6. CASE WriterStops \/ DeviceReads BY <1>6, PipeStutters DEF WriterStops, DeviceReads
  <1>7. ASSUME NEW len \in 0..MaxIn, NEW win \in 0..DevBuf, DeviceSend(len, win)
        PROVE  Pipe!Next \/ UNCHANGED Pipe!vars
    <2>1. devSent \in Nat /\ devSent - 1 >= 0
      <3>1. Len(got) \in Nat /\ devSent \in Nat /\ Len(got) <= devSent - 1
        BY DEF StreamInv, TypeOK, ReadSide
      <3> QED BY <3>1
    <2>2. /\ devOpen /\ devSent' = devSent + len
          /\ UNCHANGED <<accepted, arrived, got, devOpen>>
      BY <1>7 DEF DeviceSend
    <2>3. CASE len = 0 BY <2>1, <2>2, <2>3, PipeStutters
    <2>4. CASE len # 0
      <3> DEFINE w == devSent'
      <3>1. w = devSent + len BY <2>2
      <3>2. len \in Nat \ {0} BY <2>4, StreamAssumption
      <3> HIDE DEF w
      <3>3. w - 1 \in Nat /\ w - 1 > devSent - 1 BY <2>1, <3>1, <3>2
      <3>4. devSent' - 1 \in Nat /\ devSent' - 1 > devSent - 1 BY <3>3 DEF w
      <3>5. Pipe!Produce BY <2>2, <3>4 DEF Pipe!Produce
      <3> QED BY <3>5 DEF Pipe!Next
    <2> QED BY <2>3, <2>4
  <1>8. CASE ConnectionLost
    <2>1. UNCHANGED <<accepted, arrived, devSent, got>> /\ ~devOpen' BY <1>8 DEF ConnectionLost
    <2> QED BY <2>1 DEF Pipe!Close, Pipe!Next
  <1>9. CASE UNCHANGED vars BY <1>9, PipeStutters DEF vars
  <1> QED
    BY <1>1, <1>2, <1>3, <1>4, <1>5, <1>6, <1>7, <1>8, <1>9
    DEF Next, PollNext, LoopNext, DeviceNext

\* The poll functions of RusbmuxStream implement a byte pipe in each direction: in
\* order, without a gap, and nothing arrives that the user was not told is written,
\* whatever calls are cancelled and whichever end goes away.
THEOREM ImplementsPipe == Spec => IsBytePipe
  <1>1. Init => Pipe!Init BY DEF Init, Pipe!Init
  <1> QED BY <1>1, Invariant, PipeStep, PTL DEF Spec, IsBytePipe, Pipe!Spec
=============================================================================
