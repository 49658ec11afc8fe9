---------------------------- MODULE UsbConn_proofs ----------------------------
(***************************************************************************)
(* Flow control of a UsbDeviceConn, proved for every window unit, buffer    *)
(* size, channel capacity and counter width with DevBuf < SeqMod.           *)
(***************************************************************************)
EXTENDS UsbConn, ProofFacts

(* The inductive invariant.                                                  *)

\* The wrapped counters are the true ones modulo SeqMod.
CountersWrap ==
    /\ sent_bytes = sentTotal % SeqMod
    /\ device_last_received_bytes = ackedTotal % SeqMod
    /\ \A i \in 1..Len(rx) : rx[i].ack = rx[i].at % SeqMod

\* Announcements a(cknowledgement), w(indow) never promise more than the device
\* will have room for, now or later.
Promise(a, w) == a + WinBytes(w) <= devRead + DevBuf /\ WinBytes(w) <= DevBuf

PromisesKept ==
    /\ Promise(ackedTotal, device_last_window_size)
    /\ \A i \in 1..Len(rx) : Promise(rx[i].at, rx[i].win)

\* The device acknowledges in order, and never what it has not received.
AcksOrdered ==
    /\ devRead <= devRcvd
    /\ ackedTotal <= devRcvd
    /\ \A i \in 1..Len(rx) : ackedTotal <= rx[i].at /\ rx[i].at <= devRcvd
    /\ \A i, j \in 1..Len(rx) : i < j => rx[i].at <= rx[j].at

\* The queued packets that carry data are ahead of the device and behind the
\* connection, in order.
QueueOrdered ==
    /\ devRcvd <= sentTotal
    /\ \A i \in 1..Len(tx) :
          tx[i].len > 0 => devRcvd <= tx[i].pos /\ tx[i].pos + tx[i].len <= sentTotal
    /\ \A i, j \in 1..Len(tx) :
          i < j /\ tx[i].len > 0 /\ tx[j].len > 0 => tx[i].pos + tx[i].len <= tx[j].pos

\* sendable_bytes, however stale, stays within both the buffer of the device and
\* one buffer length of the last acknowledgement.
SendableSound ==
    /\ sentTotal + sendable_bytes <= devRead + DevBuf
    /\ sentTotal + sendable_bytes <= ackedTotal + DevBuf
    /\ pc = "send" => outLen <= sendable_bytes

FlowInv == TypeOK /\ CountersWrap /\ PromisesKept /\ AcksOrdered /\ QueueOrdered /\ SendableSound

------------------------------------------------------------------------------
(* Lemmas.                                                                   *)

\* A window is a number of bytes.
LEMMA WinBytesNat == \A w \in Nat : WinBytes(w) \in Nat
  BY ConnAssumption, SMT DEF WinBytes

\* calc_sendable_bytes never allows more than a bound that both the bytes sent so
\* far and the announced window respect.
LEMMA CalcSound ==
    ASSUME NEW s \in Nat, NEW a \in Nat, NEW w \in Nat, NEW bound \in Nat,
           a <= s, s - a < SeqMod, s <= bound, a + WinBytes(w) <= bound
    PROVE  /\ CalcSendable(s % SeqMod, w, a % SeqMod) \in 0..MAX_PACKET_PAYLOAD_SIZE
           /\ s + CalcSendable(s % SeqMod, w, a % SeqMod) <= bound
  <1>0. SeqMod \in Nat /\ SeqMod > 0
    BY ConnAssumption, SMT
  <1>1. ((s % SeqMod) - (a % SeqMod)) % SeqMod = s - a
    BY <1>0, ModDiff
  <1>2. WinBytes(w) \in Nat
    BY WinBytesNat
  <1> QED
    BY <1>1, <1>2, ConnAssumption, SMT DEF CalcSendable, Lesser

\* The numbers in a packet of the daemon ...
LEMMA OutFields ==
    ASSUME NEW q \in Seq(OutPacket), NEW i \in 1..Len(q)
    PROVE  q[i].pos \in Nat /\ q[i].len \in Nat /\ q[i].at \in Nat
  <1>1. q[i] \in OutPacket OBVIOUS
  <1> QED BY <1>1 DEF OutPacket

\* ... and of the device.
LEMMA InFields ==
    ASSUME NEW q \in Seq(InPacket), NEW i \in 1..Len(q)
    PROVE  /\ q[i].pos \in Nat /\ q[i].len \in Nat /\ q[i].at \in Nat /\ q[i].win \in Nat
           /\ q[i].seq \in 0..SeqMod-1 /\ q[i].ack \in 0..SeqMod-1
  <1>1. q[i] \in InPacket OBVIOUS
  <1> QED BY <1>1 DEF InPacket

\* What the daemon puts into the channel is a packet.
LEMMA PacketType ==
    ASSUME TypeOK, NEW f \in Flags, NEW n \in Nat, NEW rb \in 0..SeqMod-1, NEW rt \in Nat
    PROVE  Packet(f, n, rb, rt) \in OutPacket
  BY SMT DEF TypeOK, Packet, OutPacket

\* A counter reduced modulo SeqMod is a counter.
LEMMA ModType == \A a \in Nat : a % SeqMod \in 0..SeqMod-1
  BY DivMod, ConnAssumption, SMT

\* A packet enters the writer channel: the queue stays ordered when it carries no
\* data or continues the stream.
LEMMA AppendOrdered ==
    ASSUME TypeOK, QueueOrdered, NEW p \in OutPacket, tx' = Append(tx, p),
           p.len = 0 \/ p.pos = sentTotal, sentTotal' = sentTotal + p.len, devRcvd' = devRcvd
    PROVE  QueueOrdered'
  <1>1. p.pos \in Nat /\ p.len \in Nat BY DEF OutPacket
  <1>3. /\ tx \in Seq(OutPacket) /\ Len(tx) \in Nat /\ sentTotal \in Nat /\ devRcvd \in Nat
    BY DEF TypeOK
  <1>4. /\ Len(tx') = Len(tx) + 1 /\ \A i \in 1..Len(tx) : tx'[i] = tx[i]
        /\ tx'[Len(tx) + 1] = p
    BY <1>3, AppendFacts
  <1>5. \A i \in 1..Len(tx) : tx[i].pos \in Nat /\ tx[i].len \in Nat
    BY <1>3, OutFields
  <1>6. \A i \in 1..Len(tx') :
           tx'[i].len > 0 => devRcvd <= tx'[i].pos /\ tx'[i].pos + tx'[i].len <= sentTotal'
    <2> SUFFICES ASSUME NEW i \in 1..Len(tx'), tx'[i].len > 0
                 PROVE  devRcvd <= tx'[i].pos /\ tx'[i].pos + tx'[i].len <= sentTotal'
      OBVIOUS
    <2>1. CASE i \in 1..Len(tx)
      <3>1. tx'[i] = tx[i] BY <1>4, <2>1
      <3>2. devRcvd <= tx[i].pos /\ tx[i].pos + tx[i].len <= sentTotal
        BY <2>1, <3>1 DEF QueueOrdered
      <3>3. tx[i].pos \in Nat /\ tx[i].len \in Nat BY <1>5, <2>1
      <3>4. sentTotal <= sentTotal' BY <1>1, <1>3
      <3>5. sentTotal' \in Nat BY <1>1, <1>3
      <3> QED BY <1>3, <3>1, <3>2, <3>3, <3>4, <3>5
    <2>2. CASE i = Len(tx) + 1
      <3>1. tx'[i] = p BY <1>4, <2>2
      <3>2. p.pos = sentTotal BY <1>1, <3>1
      <3>3. devRcvd <= sentTotal BY DEF QueueOrdered
      <3> QED BY <1>1, <1>3, <3>1, <3>2, <3>3
    <2> QED BY <1>3, <1>4, <2>1, <2>2
  <1>7. \A i, j \in 1..Len(tx') :
           i < j /\ tx'[i].len > 0 /\ tx'[j].len > 0 => tx'[i].pos + tx'[i].len <= tx'[j].pos
    <2> SUFFICES ASSUME NEW i \in 1..Len(tx'), NEW j \in 1..Len(tx'), i < j,
                        tx'[i].len > 0, tx'[j].len > 0
                 PROVE  tx'[i].pos + tx'[i].len <= tx'[j].pos
      OBVIOUS
    <2>1. i \in 1..Len(tx) /\ tx'[i] = tx[i] BY <1>3, <1>4, SMT
    <2>2. tx[i].pos \in Nat /\ tx[i].len \in Nat BY <1>5, <2>1
    <2>3. CASE j \in 1..Len(tx)
      <3>1. tx'[j] = tx[j] BY <1>4, <2>3
      <3> QED BY <2>1, <2>3, <3>1 DEF QueueOrdered
    <2>4. CASE j = Len(tx) + 1
      <3>1. tx'[j] = p BY <1>4, <2>4
      <3>2. p.pos = sentTotal BY <1>1, <3>1, SMT
      <3>3. tx[i].pos + tx[i].len <= sentTotal BY <2>1 DEF QueueOrdered
      <3> QED BY <2>1, <3>1, <3>2, <3>3
    <2> QED BY <1>3, <1>4, <2>3, <2>4, SMT
  <1>8. devRcvd <= sentTotal + p.len BY <1>1, <1>3, SMT DEF QueueOrdered
  <1> QED BY <1>6, <1>7, <1>8 DEF QueueOrdered

\* In particular when it was just built from the counters.
LEMMA EnqueueOrdered ==
    ASSUME TypeOK, QueueOrdered, NEW f \in Flags, NEW n \in Nat, NEW rb \in 0..SeqMod-1,
           NEW rt \in Nat, tx' = Append(tx, Packet(f, n, rb, rt)),
           sentTotal' = sentTotal + n, devRcvd' = devRcvd
    PROVE  QueueOrdered'
  <1> DEFINE p == Packet(f, n, rb, rt)
  <1>1. p \in OutPacket BY PacketType
  <1>2. p.pos = sentTotal /\ p.len = n BY DEF Packet
  <1>3. tx' = Append(tx, p) OBVIOUS
  <1> HIDE DEF p
  <1> QED BY <1>1, <1>2, <1>3, AppendOrdered

------------------------------------------------------------------------------
(* Type correctness.                                                         *)

\* Init establishes the type invariant.
LEMMA TypeInit == Init => TypeOK
  <1> SUFFICES ASSUME Init PROVE TypeOK OBVIOUS
  <1>1. 1 % SeqMod \in 0..SeqMod-1 BY ModType
  <1>2. device_last_window_size \in Nat BY ConnAssumption, SMT DEF Init
  <1>3. /\ WinBytes(device_last_window_size) \in Nat BY <1>2, WinBytesNat
  <1>4. sendable_bytes \in 0..MAX_PACKET_PAYLOAD_SIZE
    <2> DEFINE w == device_last_window_size
               b == 1 + WinBytes(w)
    <2>1. 1 - 1 < SeqMod /\ b \in Nat /\ 1 <= b BY <1>3, ConnAssumption, SMT
    <2>2. CalcSendable(1 % SeqMod, w, 1 % SeqMod) \in 0..MAX_PACKET_PAYLOAD_SIZE
      BY <1>2, <2>1, CalcSound
    <2> QED BY <2>2 DEF Init
  <1>5. /\ rx \in Seq(InPacket) /\ Len(rx) <= RxCap
        /\ tx \in Seq(OutPacket) /\ others \in Nat /\ Len(tx) + others <= TxCap
    BY ConnAssumption, SMT DEF Init
  <1>6. held \in [pos : Nat, len : Nat] /\ announced \in [at : Nat, win : Nat]
    BY <1>2, SMT DEF Init, NoPacket
  <1>7. sent_bytes \in 0..SeqMod-1 /\ received_bytes \in 0..SeqMod-1
        /\ device_last_received_bytes \in 0..SeqMod-1
    BY <1>1 DEF Init
  <1>8. rst \in RstPacket BY ConnAssumption, SMT DEF Init, NoRst, RstPacket
  <1> QED BY <1>2, <1>4, <1>5, <1>6, <1>7, <1>8 DEF Init, TypeOK, PcValues

------------------------------------------------------------------------------
(* Steps that leave the counters, the channels and the device's buffer alone. *)

\* Such a step preserves everything but the types.
LEMMA QuietStep ==
    ASSUME FlowInv, TypeOK', UNCHANGED <<connVars, rx, tx, devRcvd, devRead>>,
           pc' = "send" => (pc = "send" /\ outLen' = outLen)
    PROVE  FlowInv'
  <1>1. CountersWrap' BY DEF FlowInv, CountersWrap, connVars
  <1>2. PromisesKept' BY DEF FlowInv, PromisesKept, Promise, connVars
  <1>3. AcksOrdered' BY DEF FlowInv, AcksOrdered, connVars
  <1>4. QueueOrdered' BY DEF FlowInv, QueueOrdered, connVars
  <1>5. SendableSound' BY DEF FlowInv, SendableSound, connVars
  <1> QED BY <1>1, <1>2, <1>3, <1>4, <1>5 DEF FlowInv

QuietActions ==
    \/ RecvFails \/ ClientSend \/ ClientSendFails \/ ClientReadEof \/ ClientReadFails
    \/ SendFails \/ WaitShutdown \/ OthersEnqueue \/ OthersWritten \/ DeviceRst \/ Unplug
    \/ ReaderIoError \/ Shutdown \/ CloseAllTake \/ CloseAllBuild \/ ClientWrites \/ ClientCloses

\* The steps that end or wait, of the client and of the other connections.
LEMMA QuietPreserves == FlowInv /\ QuietActions => FlowInv'
  <1> SUFFICES ASSUME FlowInv, QuietActions PROVE FlowInv' OBVIOUS
  <1> USE DEF connVars, clientVars, deviceVars, stopVars, daemonVars, PcValues
  <1>0. TypeOK BY DEF FlowInv
  <1>1. CASE RecvFails
    <2>1. TypeOK' BY <1>0, <1>1, ConnAssumption, SMT DEF TypeOK, RecvFails
    <2> QED BY <1>1, <2>1, QuietStep DEF RecvFails
  <1>2. CASE ClientSend
    <2>1. TypeOK' BY <1>0, <1>2, ConnAssumption, SMT DEF TypeOK, ClientSend, NoPacket
    <2> QED BY <1>2, <2>1, QuietStep DEF ClientSend
  <1>3. CASE ClientSendFails
    <2>1. TypeOK' BY <1>0, <1>3, ConnAssumption, SMT DEF TypeOK, ClientSendFails, NoPacket
    <2> QED BY <1>3, <2>1, QuietStep DEF ClientSendFails
  <1>4. CASE ClientReadEof
    <2>1. TypeOK' BY <1>0, <1>4, ConnAssumption, SMT DEF TypeOK, ClientReadEof, NoPacket
    <2> QED BY <1>4, <2>1, QuietStep DEF ClientReadEof
  <1>5. CASE ClientReadFails
    <2>1. TypeOK' BY <1>0, <1>5, ConnAssumption, SMT DEF TypeOK, ClientReadFails, NoPacket
    <2> QED BY <1>5, <2>1, QuietStep DEF ClientReadFails
  <1>6. CASE SendFails
    <2>1. TypeOK' BY <1>0, <1>6, ConnAssumption, SMT DEF TypeOK, SendFails
    <2> QED BY <1>6, <2>1, QuietStep DEF SendFails
  <1>7. CASE WaitShutdown
    <2>1. TypeOK' BY <1>0, <1>7, ConnAssumption, SMT DEF TypeOK, WaitShutdown
    <2> QED BY <1>7, <2>1, QuietStep DEF WaitShutdown
  <1>8. CASE OthersEnqueue
    <2>1. TypeOK' BY <1>0, <1>8, ConnAssumption, SMT DEF TypeOK, OthersEnqueue, Full
    <2> QED BY <1>8, <2>1, QuietStep DEF OthersEnqueue
  <1>9. CASE OthersWritten
    <2>1. TypeOK' BY <1>0, <1>9, ConnAssumption, SMT DEF TypeOK, OthersWritten
    <2> QED BY <1>9, <2>1, QuietStep DEF OthersWritten
  <1>10. CASE DeviceRst
    <2>1. TypeOK' BY <1>0, <1>10, ZenonT(60) DEF TypeOK, DeviceRst
    <2> QED BY <1>10, <2>1, QuietStep DEF DeviceRst
  <1>11. CASE Unplug
    <2>1. TypeOK' BY <1>0, <1>11, ZenonT(60) DEF TypeOK, Unplug
    <2> QED BY <1>11, <2>1, QuietStep DEF Unplug
  <1>12. CASE ReaderIoError
    <2>1. TypeOK' BY <1>0, <1>12, ZenonT(60) DEF TypeOK, ReaderIoError
    <2> QED BY <1>12, <2>1, QuietStep DEF ReaderIoError
  <1>13. CASE Shutdown
    <2>1. TypeOK' BY <1>0, <1>13, ZenonT(60) DEF TypeOK, Shutdown
    <2> QED BY <1>13, <2>1, QuietStep DEF Shutdown
  <1>14. CASE CloseAllTake
    <2>1. TypeOK' BY <1>0, <1>14, ZenonT(60) DEF TypeOK, CloseAllTake
    <2> QED BY <1>14, <2>1, QuietStep DEF CloseAllTake
  <1>15. CASE ClientWrites
    <2>1. TypeOK' BY <1>0, <1>15, ConnAssumption, SMT DEF TypeOK, ClientWrites
    <2> QED BY <1>15, <2>1, QuietStep DEF ClientWrites
  <1>16. CASE ClientCloses
    <2>1. TypeOK' BY <1>0, <1>16, ZenonT(60) DEF TypeOK, ClientCloses
    <2> QED BY <1>16, <2>1, QuietStep DEF ClientCloses
  <1>17. CASE CloseAllBuild
    <2>1. Packet("RST", 0, received_bytes, rcvdTotal) \in RstPacket
      BY <1>0, SMT DEF TypeOK, Packet, RstPacket
    <2>2. TypeOK' BY <1>0, <1>17, <2>1, ZenonT(60) DEF TypeOK, CloseAllBuild
    <2> QED BY <1>17, <2>2, QuietStep DEF CloseAllBuild
  <1> QED
    BY <1>1, <1>2, <1>3, <1>4, <1>5, <1>6, <1>7, <1>8, <1>9, <1>10, <1>11, <1>12, <1>13, <1>14,
       <1>15, <1>16, <1>17
    DEF QuietActions

------------------------------------------------------------------------------
(* Receiving.                                                                *)

\* rx.recv() and update_states: the newest announcement is in order, was promised
\* and comes from the channel.
LEMMA TakeFacts ==
    ASSUME FlowInv, TakePacket, UNCHANGED <<devRcvd, devRead>>
    PROVE  /\ rx' \in Seq(InPacket) /\ Len(rx') <= RxCap
           /\ received_bytes' \in 0..SeqMod-1 /\ rcvdTotal' \in Nat
           /\ device_last_received_bytes' \in 0..SeqMod-1 /\ ackedTotal' \in Nat
           /\ device_last_window_size' \in Nat /\ held' \in [pos : Nat, len : Nat]
           /\ ackedTotal <= ackedTotal'
           /\ CountersWrap' /\ PromisesKept' /\ AcksOrdered'
  <1>1. /\ rx \in Seq(InPacket) /\ rx # <<>> /\ Len(rx) <= RxCap
        /\ ackedTotal \in Nat /\ devRcvd \in Nat
    BY DEF FlowInv, TypeOK, TakePacket
  <1>2. /\ rx' \in Seq(InPacket) /\ Len(rx') = Len(rx) - 1 /\ Len(rx) \in Nat
        /\ Head(rx) = rx[1] /\ 1 \in 1..Len(rx)
        /\ \A i \in 1..Len(rx') : rx'[i] = rx[i+1] /\ i + 1 \in 1..Len(rx)
    BY <1>1, TailFacts DEF TakePacket
  <1>3. \A i \in 1..Len(rx) :
            /\ rx[i].pos \in Nat /\ rx[i].len \in Nat /\ rx[i].at \in Nat /\ rx[i].win \in Nat
            /\ rx[i].seq \in 0..SeqMod-1 /\ rx[i].ack \in 0..SeqMod-1
    BY <1>1, InFields
  <1>4. received_bytes' \in 0..SeqMod-1
    <2>1. rx[1].seq + rx[1].len \in Nat BY <1>2, <1>3, SMT
    <2> QED BY <2>1, <1>2, ModType DEF TakePacket
  <1>5. /\ rcvdTotal' \in Nat /\ ackedTotal' = rx[1].at /\ device_last_window_size' = rx[1].win
        /\ device_last_received_bytes' = rx[1].ack
        /\ sent_bytes' = sent_bytes /\ sentTotal' = sentTotal
    BY <1>2, <1>3, SMT DEF TakePacket
  <1>6. held' \in [pos : Nat, len : Nat]
    BY <1>2, <1>3 DEF TakePacket
  <1>7. CountersWrap'
    BY <1>2, <1>5 DEF FlowInv, CountersWrap
  <1>8. PromisesKept'
    BY <1>2, <1>5 DEF FlowInv, PromisesKept, Promise
  <1>9. AcksOrdered' /\ ackedTotal <= ackedTotal'
    <2>1. \A i \in 1..Len(rx') : rx[1].at <= rx'[i].at /\ rx'[i].at <= devRcvd
      BY <1>2, SMT DEF FlowInv, AcksOrdered
    <2>2. \A i, j \in 1..Len(rx') : i < j => rx'[i].at <= rx'[j].at
      BY <1>2, SMT DEF FlowInv, AcksOrdered
    <2> QED BY <1>2, <1>5, <2>1, <2>2 DEF FlowInv, AcksOrdered
  <1>10. Len(rx') <= RxCap BY <1>1, <1>2, ConnAssumption, SMT
  <1>11. /\ device_last_received_bytes' \in 0..SeqMod-1 /\ ackedTotal' \in Nat
         /\ device_last_window_size' \in Nat
    BY <1>2, <1>3, <1>5
  <1> QED BY <1>2, <1>4, <1>5, <1>6, <1>7, <1>8, <1>9, <1>10, <1>11

\* update_sendable_bytes: what it stores is sound for the counters it reads.
LEMMA RefreshSound ==
    ASSUME NEW s \in Nat, NEW a \in Nat, NEW w \in Nat, NEW r \in Nat,
           a <= s, s <= a + DevBuf, s <= r + DevBuf,
           a + WinBytes(w) <= r + DevBuf, WinBytes(w) <= DevBuf
    PROVE  /\ CalcSendable(s % SeqMod, w, a % SeqMod) \in 0..MAX_PACKET_PAYLOAD_SIZE
           /\ s + CalcSendable(s % SeqMod, w, a % SeqMod) <= r + DevBuf
           /\ s + CalcSendable(s % SeqMod, w, a % SeqMod) <= a + DevBuf
  <1>1. WinBytes(w) \in Nat BY WinBytesNat
  <1>2. /\ s - a < SeqMod /\ r + DevBuf \in Nat /\ a + DevBuf \in Nat
        /\ a + WinBytes(w) <= a + DevBuf
    BY <1>1, ConnAssumption, SMT
  <1> QED BY <1>2, CalcSound

\* The numbers of the invariant and how they are ordered.
LEMMA FlowNumbers ==
    ASSUME FlowInv
    PROVE  /\ sentTotal \in Nat /\ ackedTotal \in Nat /\ devRcvd \in Nat /\ devRead \in Nat
           /\ sendable_bytes \in Nat /\ outLen \in Nat /\ read_buf \in Nat
           /\ devRead <= devRcvd /\ ackedTotal <= devRcvd /\ devRcvd <= sentTotal
           /\ sentTotal + sendable_bytes <= devRead + DevBuf
           /\ sentTotal + sendable_bytes <= ackedTotal + DevBuf
           /\ DevBuf \in Nat
  <1>1. sendable_bytes \in 0..MAX_PACKET_PAYLOAD_SIZE BY DEF FlowInv, TypeOK
  <1>2. sendable_bytes \in Nat BY <1>1, ConnAssumption, SMT
  <1> QED BY <1>2, ConnAssumption
          DEF FlowInv, TypeOK, AcksOrdered, QueueOrdered, SendableSound

\* recv with room in the channel.
LEMMA RecvAckedPreserves == FlowInv /\ RecvAcked => FlowInv'
  <1> SUFFICES ASSUME FlowInv, RecvAcked PROVE FlowInv' OBVIOUS
  <1> USE DEF clientVars, deviceVars, stopVars
  <1>0. TypeOK BY DEF FlowInv
  <1>1. TakePacket /\ UNCHANGED <<devRcvd, devRead>> BY DEF RecvAcked
  <1>2. /\ rx' \in Seq(InPacket) /\ Len(rx') <= RxCap
        /\ received_bytes' \in 0..SeqMod-1 /\ rcvdTotal' \in Nat
        /\ device_last_received_bytes' \in 0..SeqMod-1 /\ ackedTotal' \in Nat
        /\ device_last_window_size' \in Nat /\ held' \in [pos : Nat, len : Nat]
        /\ ackedTotal <= ackedTotal'
        /\ CountersWrap' /\ PromisesKept' /\ AcksOrdered'
    BY <1>1, TakeFacts
  <1>3. sent_bytes' = sent_bytes /\ sentTotal' = sentTotal BY <1>1 DEF TakePacket
  <1>4. QueueOrdered'
    BY <1>0, <1>1, <1>2, <1>3, EnqueueOrdered, "ACK" \in Flags, sentTotal' = sentTotal + 0
    DEF RecvAcked, Enqueue, FlowInv, Flags, TypeOK
  <1>5. tx' \in Seq(OutPacket) /\ Len(tx') + others' <= TxCap
    <2>1. Packet("ACK", 0, received_bytes', rcvdTotal') \in OutPacket
      BY <1>0, <1>2, PacketType DEF Flags
    <2>2. tx' \in Seq(OutPacket) /\ Len(tx') = Len(tx) + 1 /\ Len(tx) \in Nat
      BY <1>0, <2>1, AppendFacts DEF RecvAcked, Enqueue, TypeOK
    <2> QED BY <1>0, <2>2, ConnAssumption, SMT DEF RecvAcked, Full, TypeOK
  <1>6. /\ sendable_bytes' \in 0..MAX_PACKET_PAYLOAD_SIZE
        /\ sentTotal + sendable_bytes' <= devRead + DevBuf
        /\ sentTotal + sendable_bytes' <= ackedTotal' + DevBuf
    <2>1. sendable_bytes' = CalcSendable(sentTotal % SeqMod, device_last_window_size', ackedTotal' % SeqMod)
      BY <1>2, <1>3 DEF RecvAcked, CountersWrap, FlowInv
    <2>2. /\ ackedTotal' <= sentTotal /\ sentTotal <= ackedTotal' + DevBuf
          /\ sentTotal <= devRead + DevBuf
      <3>1. ackedTotal' <= devRcvd BY <1>1, <1>2 DEF AcksOrdered
      <3>2. ackedTotal' \in Nat /\ ackedTotal <= ackedTotal' BY <1>2
      <3> QED BY <3>1, <3>2, FlowNumbers, SMT
    <2>3. /\ ackedTotal' + WinBytes(device_last_window_size') <= devRead + DevBuf
          /\ WinBytes(device_last_window_size') <= DevBuf
      BY <1>1, <1>2 DEF PromisesKept, Promise
    <2> QED BY <1>0, <1>2, <2>1, <2>2, <2>3, RefreshSound DEF TypeOK
  <1>7. TypeOK'
    BY <1>0, <1>2, <1>3, <1>5, <1>6, SMTT(30) DEF TypeOK, RecvAcked, PcValues
  <1>8. SendableSound'
    BY <1>1, <1>3, <1>6 DEF SendableSound, RecvAcked
  <1> QED BY <1>2, <1>4, <1>7, <1>8 DEF FlowInv

\* recv suspended in ack, or failing there: sendable_bytes is left stale.
LEMMA RecvStalePreserves == FlowInv /\ (RecvBlocked \/ RecvAckFails) => FlowInv'
  <1> SUFFICES ASSUME FlowInv, RecvBlocked \/ RecvAckFails PROVE FlowInv' OBVIOUS
  <1> USE DEF clientVars, deviceVars, stopVars, RecvBlocked, RecvAckFails
  <1>0. TypeOK BY DEF FlowInv
  <1>1. TakePacket /\ UNCHANGED <<devRcvd, devRead, tx, sendable_bytes>> OBVIOUS
  <1>2. /\ rx' \in Seq(InPacket) /\ Len(rx') <= RxCap
        /\ received_bytes' \in 0..SeqMod-1 /\ rcvdTotal' \in Nat
        /\ device_last_received_bytes' \in 0..SeqMod-1 /\ ackedTotal' \in Nat
        /\ device_last_window_size' \in Nat /\ held' \in [pos : Nat, len : Nat]
        /\ ackedTotal <= ackedTotal'
        /\ CountersWrap' /\ PromisesKept' /\ AcksOrdered'
    BY <1>1, TakeFacts
  <1>3. sent_bytes' = sent_bytes /\ sentTotal' = sentTotal BY <1>1 DEF TakePacket
  <1>4. QueueOrdered' BY <1>1, <1>3 DEF QueueOrdered, FlowInv
  <1>5. TypeOK'
    <2>1. pc' \in PcValues BY DEF PcValues
    <2>2. UNCHANGED <<sendable_bytes, dropped, rxOpen, tx, others, writerOn, outLen, read_buf,
                      written, clientOpen, taken, clientEnd, up, devOpen, devRcvd, devRead,
                      devSent, devAckd, announced, cancelled, closeAll, rst>>
      OBVIOUS
    <2> HIDE DEF RecvBlocked, RecvAckFails
    <2> QED BY <1>0, <1>2, <1>3, <2>1, <2>2, ZenonT(60) DEF TypeOK
  <1>6. SendableSound'
    <2>1. /\ sentTotal + sendable_bytes <= devRead + DevBuf
          /\ sentTotal + sendable_bytes <= ackedTotal' + DevBuf
      <3>1. ackedTotal' \in Nat /\ ackedTotal <= ackedTotal' BY <1>2
      <3> QED BY <3>1, FlowNumbers, SMT
    <2> QED BY <1>1, <1>3, <2>1 DEF SendableSound
  <1> QED BY <1>2, <1>4, <1>5, <1>6 DEF FlowInv

------------------------------------------------------------------------------
(* Sending.                                                                  *)

\* A slot of the writer channel is taken.
LEMMA EnqueueType ==
    ASSUME TypeOK, ~Full, NEW p \in OutPacket, tx' = Append(tx, p), others' = others
    PROVE  tx' \in Seq(OutPacket) /\ Len(tx') + others' <= TxCap
  <1>1. tx' \in Seq(OutPacket) /\ Len(tx') = Len(tx) + 1 /\ Len(tx) \in Nat
    BY AppendFacts DEF TypeOK
  <1>2. others \in Nat BY DEF TypeOK
  <1> QED BY <1>1, <1>2, ConnAssumption, SMT DEF Full

\* A step that changes only the channels: rx is kept or dropped, tx stays ordered.
LEMMA ChannelStep ==
    ASSUME FlowInv, TypeOK', QueueOrdered', UNCHANGED <<connVars, devRcvd, devRead>>,
           rx' = rx \/ rx' = <<>>,
           pc' = "send" => (pc = "send" /\ outLen' = outLen)
    PROVE  FlowInv'
  <1>1. rx' = <<>> => Len(rx') = 0 OBVIOUS
  <1>2. CountersWrap' BY <1>1, SMT DEF FlowInv, CountersWrap, connVars
  <1>3. PromisesKept' BY <1>1, SMT DEF FlowInv, PromisesKept, Promise, connVars
  <1>4. AcksOrdered' BY <1>1, SMT DEF FlowInv, AcksOrdered, connVars
  <1>5. SendableSound' BY DEF FlowInv, SendableSound, connVars
  <1> QED BY <1>2, <1>3, <1>4, <1>5 DEF FlowInv

\* An RST enters the channel.
LEMMA RstQueued ==
    ASSUME FlowInv, ~Full, Enqueue(Packet("RST", 0, received_bytes, rcvdTotal)),
           UNCHANGED <<connVars, devRcvd, others>>
    PROVE  tx' \in Seq(OutPacket) /\ Len(tx') + others' <= TxCap /\ QueueOrdered'
  <1>0. TypeOK /\ QueueOrdered BY DEF FlowInv
  <1>1. /\ "RST" \in Flags /\ received_bytes \in 0..SeqMod-1 /\ rcvdTotal \in Nat
        /\ tx' = Append(tx, Packet("RST", 0, received_bytes, rcvdTotal))
    BY <1>0 DEF Flags, TypeOK, Enqueue
  <1>2. Packet("RST", 0, received_bytes, rcvdTotal) \in OutPacket BY <1>0, <1>1, PacketType
  <1>3. sentTotal' = sentTotal + 0 BY <1>0, SMT DEF TypeOK, connVars
  <1>4. QueueOrdered' BY <1>0, <1>1, <1>3, EnqueueOrdered
  <1> QED BY <1>0, <1>1, <1>2, <1>4, EnqueueType

\* close, Drop and close_all.
LEMMA ClosePreserves == FlowInv /\ (Close \/ DropConn \/ CloseAllRst) => FlowInv'
  <1> SUFFICES ASSUME FlowInv, Close \/ DropConn \/ CloseAllRst PROVE FlowInv' OBVIOUS
  <1> USE DEF clientVars, deviceVars, stopVars
  <1>0. TypeOK BY DEF FlowInv
  <1>1. CASE Close
    <2>1. tx' \in Seq(OutPacket) /\ Len(tx') + others' <= TxCap /\ QueueOrdered'
      BY <1>1, RstQueued DEF Close
    <2>2. TypeOK' BY <1>0, <1>1, <2>1 DEF TypeOK, Close, connVars, PcValues
    <2> QED BY <1>1, <2>1, <2>2, ChannelStep DEF Close
  <1>2. CASE DropConn
    <2>1. CASE ~dropped /\ writerOn /\ ~Full
      <3>1. tx' \in Seq(OutPacket) /\ Len(tx') + others' <= TxCap /\ QueueOrdered'
        BY <1>2, <2>1, RstQueued DEF DropConn
      <3>2. <<>> \in Seq(InPacket) /\ Len(<<>>) <= RxCap BY ConnAssumption, SMT
      <3>3. TypeOK' BY <1>0, <1>2, <2>1, <3>1, <3>2 DEF TypeOK, DropConn, connVars, PcValues, NoPacket
      <3> QED BY <1>2, <3>1, <3>3, ChannelStep DEF DropConn
    <2>2. CASE ~(~dropped /\ writerOn /\ ~Full)
      <3>1. tx' = tx /\ dropped' = dropped BY <1>2, <2>2 DEF DropConn
      <3>2. <<>> \in Seq(InPacket) /\ Len(<<>>) <= RxCap BY ConnAssumption, SMT
      <3>3. TypeOK' BY <1>0, <1>2, <3>1, <3>2 DEF TypeOK, DropConn, connVars, PcValues, NoPacket
      <3>4. QueueOrdered' BY <1>2, <3>1 DEF DropConn, FlowInv, QueueOrdered, connVars
      <3> QED BY <1>2, <3>3, <3>4, ChannelStep DEF DropConn
    <2> QED BY <2>1, <2>2
  <1>3. CASE CloseAllRst
    <2>0. NoRst \in RstPacket BY ConnAssumption, SMT DEF NoRst, RstPacket
    <2>1. CASE writerOn
      <3>0. /\ rst \in OutPacket /\ rst.len = 0 /\ ~Full /\ tx' = Append(tx, rst)
            /\ others' = others /\ sentTotal' = sentTotal /\ devRcvd' = devRcvd
            /\ QueueOrdered /\ sentTotal \in Nat
        BY <1>0, <1>3, <2>1, SMTT(30)
        DEF TypeOK, RstPacket, OutPacket, Flags, CloseAllRst, Enqueue, connVars, FlowInv
      <3>a. sentTotal' = sentTotal + rst.len BY <3>0, SMT
      <3>b. QueueOrdered' BY <1>0, <3>0, <3>a, AppendOrdered
      <3>1. tx' \in Seq(OutPacket) /\ Len(tx') + others' <= TxCap BY <1>0, <3>0, EnqueueType
      <3>2. TypeOK' BY <1>0, <1>3, <2>0, <3>1 DEF TypeOK, CloseAllRst, connVars, PcValues
      <3> QED BY <1>3, <3>b, <3>2, ChannelStep DEF CloseAllRst
    <2>2. CASE ~writerOn
      <3>1. tx' = tx BY <1>3, <2>2 DEF CloseAllRst
      <3>2. TypeOK' BY <1>0, <1>3, <2>0, <3>1 DEF TypeOK, CloseAllRst, connVars, PcValues
      <3>3. QueueOrdered' BY <1>3, <3>1 DEF CloseAllRst, FlowInv, QueueOrdered, connVars
      <3> QED BY <1>3, <3>2, <3>3, ChannelStep DEF CloseAllRst
    <2> QED BY <2>1, <2>2
  <1> QED BY <1>1, <1>2, <1>3

\* The client branch wins: what it takes from the buffer fits sendable_bytes.
LEMMA ClientReadPreserves == FlowInv /\ (ClientReadBuffered \/ ClientReadSocket) => FlowInv'
  <1> SUFFICES ASSUME FlowInv, ClientReadBuffered \/ ClientReadSocket PROVE FlowInv' OBVIOUS
  <1> USE DEF clientVars, deviceVars, stopVars, connVars
  <1>0. TypeOK BY DEF FlowInv
  <1>1. /\ outLen' \in Nat /\ read_buf' \in Nat /\ outLen' <= sendable_bytes /\ taken' \in Nat
    <2>1. sendable_bytes \in Nat /\ read_buf \in Nat /\ taken \in Nat /\ written \in Nat
      BY <1>0, FlowNumbers DEF TypeOK
    <2>2. CASE ClientReadBuffered BY <2>1, <2>2, SMT DEF ClientReadBuffered, Lesser
    <2>3. CASE ClientReadSocket BY <2>1, <2>3, SMT DEF ClientReadSocket, Lesser
    <2> QED BY <2>2, <2>3
  <1>2. /\ UNCHANGED <<sent_bytes, received_bytes, sendable_bytes, device_last_window_size,
                       device_last_received_bytes, sentTotal, rcvdTotal, ackedTotal, dropped,
                       rx, rxOpen, tx, others, writerOn, written, clientOpen, clientEnd, up,
                       devOpen, devRcvd, devRead, devSent, devAckd, announced, cancelled, closeAll,
                       rst>>
        /\ pc' = "send" /\ held' = NoPacket
    BY DEF ClientReadBuffered, ClientReadSocket
  <1>3. TypeOK' BY <1>0, <1>1, <1>2 DEF TypeOK, PcValues, NoPacket
  <1>4. SendableSound' BY <1>1, <1>2 DEF SendableSound, FlowInv
  <1>5. CountersWrap' /\ PromisesKept' BY <1>2 DEF FlowInv, CountersWrap, PromisesKept, Promise
  <1>6. AcksOrdered' /\ QueueOrdered' BY <1>2 DEF FlowInv, AcksOrdered, QueueOrdered
  <1> QED BY <1>3, <1>4, <1>5, <1>6 DEF FlowInv

\* The suspended ACK is sent and sendable_bytes is refreshed.
LEMMA AckResumesPreserves == FlowInv /\ AckResumes => FlowInv'
  <1> SUFFICES ASSUME FlowInv, AckResumes PROVE FlowInv' OBVIOUS
  <1> USE DEF clientVars, deviceVars, stopVars
  <1>0. TypeOK BY DEF FlowInv
  <1>1. /\ "ACK" \in Flags /\ received_bytes \in 0..SeqMod-1 /\ rcvdTotal \in Nat
        /\ tx' = Append(tx, Packet("ACK", 0, received_bytes, rcvdTotal))
        /\ others' = others /\ devRcvd' = devRcvd /\ devRead' = devRead /\ rx' = rx
        /\ sentTotal' = sentTotal /\ ackedTotal' = ackedTotal
        /\ device_last_window_size' = device_last_window_size
    BY <1>0 DEF Flags, TypeOK, Enqueue, AckResumes
  <1>2. Packet("ACK", 0, received_bytes, rcvdTotal) \in OutPacket BY <1>0, <1>1, PacketType
  <1>3. sentTotal' = sentTotal + 0 BY <1>0, <1>1, SMT DEF TypeOK
  <1>4. QueueOrdered'
    <2>1. QueueOrdered BY DEF FlowInv
    <2> QED BY <1>0, <1>1, <1>3, <2>1, EnqueueOrdered
  <1>5. tx' \in Seq(OutPacket) /\ Len(tx') + others' <= TxCap
    BY <1>0, <1>1, <1>2, EnqueueType DEF AckResumes
  <1>6. /\ sendable_bytes' \in 0..MAX_PACKET_PAYLOAD_SIZE
        /\ sentTotal + sendable_bytes' <= devRead + DevBuf
        /\ sentTotal + sendable_bytes' <= ackedTotal + DevBuf
    <2>1. sendable_bytes' = CalcSendable(sentTotal % SeqMod, device_last_window_size, ackedTotal % SeqMod)
      BY DEF AckResumes, CountersWrap, FlowInv
    <2>2. /\ ackedTotal <= sentTotal /\ sentTotal <= ackedTotal + DevBuf
          /\ sentTotal <= devRead + DevBuf
      BY FlowNumbers, SMT
    <2>3. /\ ackedTotal + WinBytes(device_last_window_size) <= devRead + DevBuf
          /\ WinBytes(device_last_window_size) <= DevBuf
      BY DEF PromisesKept, Promise, FlowInv
    <2> QED BY <1>0, <2>1, <2>2, <2>3, RefreshSound DEF TypeOK
  <1>7. TypeOK' BY <1>0, <1>1, <1>5, <1>6 DEF TypeOK, AckResumes, PcValues
  <1>8. SendableSound' BY <1>1, <1>6 DEF SendableSound, AckResumes
  <1>9. CountersWrap' /\ PromisesKept' /\ AcksOrdered'
    BY <1>1 DEF AckResumes, FlowInv, CountersWrap, PromisesKept, Promise, AcksOrdered
  <1> QED BY <1>4, <1>7, <1>8, <1>9 DEF FlowInv

\* send_bytes: the bytes leave the allowance and sendable_bytes is refreshed.
LEMMA SendBytesPreserves == FlowInv /\ SendBytes => FlowInv'
  <1> SUFFICES ASSUME FlowInv, SendBytes PROVE FlowInv' OBVIOUS
  <1> USE DEF clientVars, deviceVars, stopVars
  <1>0. TypeOK BY DEF FlowInv
  <1>1. /\ "ACK" \in Flags /\ received_bytes \in 0..SeqMod-1 /\ rcvdTotal \in Nat
        /\ outLen \in Nat /\ outLen <= sendable_bytes
        /\ tx' = Append(tx, Packet("ACK", outLen, received_bytes, rcvdTotal))
        /\ others' = others /\ devRcvd' = devRcvd /\ devRead' = devRead /\ rx' = rx
        /\ sentTotal' = sentTotal + outLen /\ ackedTotal' = ackedTotal
        /\ device_last_window_size' = device_last_window_size
        /\ device_last_received_bytes' = device_last_received_bytes
    BY <1>0 DEF Flags, TypeOK, Enqueue, SendBytes, FlowInv, SendableSound
  <1>2. Packet("ACK", outLen, received_bytes, rcvdTotal) \in OutPacket BY <1>0, <1>1, PacketType
  <1>3. sent_bytes' = sentTotal' % SeqMod /\ sentTotal' \in Nat
    <2>1. sent_bytes' = ((sentTotal % SeqMod) + outLen) % SeqMod
      BY DEF SendBytes, FlowInv, CountersWrap
    <2>2. SeqMod \in Nat /\ SeqMod > 0 BY ConnAssumption, SMT
    <2>3. sentTotal \in Nat BY FlowNumbers
    <2>4. sent_bytes' = (sentTotal + outLen) % SeqMod BY <1>1, <2>1, <2>2, <2>3, ModAdd
    <2>5. sentTotal + outLen \in Nat BY <1>1, <2>3, SMT
    <2> QED BY <1>1, <2>4, <2>5
  <1>4. QueueOrdered'
    <2>1. QueueOrdered BY DEF FlowInv
    <2> QED BY <1>0, <1>1, <2>1, EnqueueOrdered
  <1>5. tx' \in Seq(OutPacket) /\ Len(tx') + others' <= TxCap
    BY <1>0, <1>1, <1>2, EnqueueType DEF SendBytes
  <1>6. /\ sendable_bytes' \in 0..MAX_PACKET_PAYLOAD_SIZE
        /\ sentTotal' + sendable_bytes' <= devRead + DevBuf
        /\ sentTotal' + sendable_bytes' <= ackedTotal + DevBuf
    <2>1. sendable_bytes' = CalcSendable(sentTotal' % SeqMod, device_last_window_size, ackedTotal % SeqMod)
      BY <1>3 DEF SendBytes, CountersWrap, FlowInv
    <2>2. /\ ackedTotal <= sentTotal' /\ sentTotal' <= ackedTotal + DevBuf
          /\ sentTotal' <= devRead + DevBuf
      <3>1. sentTotal' = sentTotal + outLen /\ outLen \in Nat /\ outLen <= sendable_bytes BY <1>1
      <3> QED BY <3>1, FlowNumbers, SMT
    <2>3. /\ ackedTotal + WinBytes(device_last_window_size) <= devRead + DevBuf
          /\ WinBytes(device_last_window_size) <= DevBuf
      BY DEF PromisesKept, Promise, FlowInv
    <2> QED BY <1>0, <1>3, <2>1, <2>2, <2>3, RefreshSound DEF TypeOK
  <1>7. TypeOK'
    <2>1. sent_bytes' \in 0..SeqMod-1 BY <1>3, ModType
    <2> QED BY <1>0, <1>1, <1>3, <1>5, <1>6, <2>1 DEF TypeOK, SendBytes, PcValues
  <1>8. SendableSound' BY <1>1, <1>6 DEF SendableSound, SendBytes
  <1>9. CountersWrap' /\ PromisesKept' /\ AcksOrdered'
    BY <1>1, <1>3 DEF FlowInv, CountersWrap, PromisesKept, Promise, AcksOrdered
  <1> QED BY <1>4, <1>7, <1>8, <1>9 DEF FlowInv

------------------------------------------------------------------------------
(* The writer loop and the device.                                           *)

\* A packet is written, or fails to be: the rest of the queue stays ahead of the
\* device.
LEMMA WriterStepPreserves == FlowInv /\ WriterStep => FlowInv'
  <1> SUFFICES ASSUME FlowInv, WriterStep PROVE FlowInv' OBVIOUS
  <1> USE DEF clientVars, stopVars
  <1>0. TypeOK BY DEF FlowInv
  <1>1. /\ tx \in Seq(OutPacket) /\ tx # <<>> /\ tx' = Tail(tx)
        /\ UNCHANGED <<connVars, rx, pc, outLen, others>>
    BY <1>0 DEF WriterStep, TypeOK
  <1>2. /\ tx' \in Seq(OutPacket) /\ Len(tx') = Len(tx) - 1 /\ Len(tx) \in Nat
        /\ Head(tx) = tx[1] /\ 1 \in 1..Len(tx)
        /\ \A i \in 1..Len(tx') : tx'[i] = tx[i+1] /\ i + 1 \in 1..Len(tx)
    BY <1>1, TailFacts
  <1>3. \A i \in 1..Len(tx) : tx[i].pos \in Nat /\ tx[i].len \in Nat /\ tx[i].at \in Nat
    BY <1>1, OutFields
  <1>4. /\ devRcvd' = devRcvd \/ devRcvd' = devRcvd + tx[1].len
        /\ UNCHANGED <<up, devRead, devSent, announced>>
        /\ devAckd' \in Nat /\ devOpen' \in BOOLEAN
    <2>1. CASE up /\ devOpen
      <3>1. DeviceTakes(tx[1]) BY <1>2, <2>1 DEF WriterStep
      <3>2. tx[1].at \in Nat BY <1>2, <1>3
      <3>3. devOpen' \in BOOLEAN BY <3>1, Zenon DEF DeviceTakes
      <3> QED BY <3>1, <3>2, <3>3 DEF DeviceTakes
    <2>2. CASE ~(up /\ devOpen)
      <3>1. UNCHANGED deviceVars BY <2>2 DEF WriterStep
      <3> QED BY <1>0, <3>1 DEF deviceVars, TypeOK
    <2> QED BY <2>1, <2>2
  <1>5. devRcvd' \in Nat /\ devRcvd <= devRcvd' /\ devRcvd' <= devRcvd + tx[1].len
    <2>1. devRcvd \in Nat /\ tx[1].len \in Nat BY <1>2, <1>3, FlowNumbers
    <2> QED BY <1>4, <2>1, SMT
  <1>6. QueueOrdered'
    <2>0. sentTotal' = sentTotal BY <1>1 DEF connVars
    <2>1. /\ devRcvd \in Nat /\ sentTotal \in Nat /\ tx[1].pos \in Nat /\ tx[1].len \in Nat
          /\ devRcvd <= sentTotal
          /\ tx[1].len > 0 => devRcvd <= tx[1].pos /\ tx[1].pos + tx[1].len <= sentTotal
      BY <1>2, <1>3, FlowNumbers DEF FlowInv, QueueOrdered
    <2>2. devRcvd' <= sentTotal BY <1>5, <2>1, SMT
    <2>3. \A i \in 1..Len(tx') :
             tx'[i].len > 0 => devRcvd' <= tx'[i].pos /\ tx'[i].pos + tx'[i].len <= sentTotal
      <3> SUFFICES ASSUME NEW i \in 1..Len(tx'), tx'[i].len > 0
                   PROVE  devRcvd' <= tx'[i].pos /\ tx'[i].pos + tx'[i].len <= sentTotal
        OBVIOUS
      <3>1. tx'[i].pos \in Nat BY <1>2, <1>3
      <3>2. devRcvd <= tx'[i].pos /\ tx'[i].pos + tx'[i].len <= sentTotal
        BY <1>2 DEF FlowInv, QueueOrdered
      <3>3. tx[1].len > 0 => tx[1].pos + tx[1].len <= tx'[i].pos
        <4>1. 1 < i + 1 BY SMT
        <4> QED BY <1>2, <4>1 DEF FlowInv, QueueOrdered
      <3> QED BY <1>5, <2>1, <3>1, <3>2, <3>3, SMT
    <2>4. \A i, j \in 1..Len(tx') :
             i < j /\ tx'[i].len > 0 /\ tx'[j].len > 0 => tx'[i].pos + tx'[i].len <= tx'[j].pos
      <3>1. \A i, j \in 1..Len(tx') : i < j => i + 1 < j + 1 BY SMT
      <3> QED BY <1>2, <3>1 DEF FlowInv, QueueOrdered
    <2> QED BY <2>0, <2>2, <2>3, <2>4 DEF QueueOrdered
  <1>7. AcksOrdered'
    <2>1. /\ devRead <= devRcvd' /\ ackedTotal <= devRcvd'
      BY <1>5, FlowNumbers, SMT
    <2>2. \A i \in 1..Len(rx) : rx[i].at <= devRcvd'
      <3> SUFFICES ASSUME NEW i \in 1..Len(rx) PROVE rx[i].at <= devRcvd' OBVIOUS
      <3>1. rx[i].at \in Nat /\ rx[i].at <= devRcvd
        BY <1>0, InFields DEF TypeOK, FlowInv, AcksOrdered
      <3> QED BY <1>5, <3>1, FlowNumbers, SMT
    <2> QED BY <1>1, <1>4, <2>1, <2>2 DEF AcksOrdered, FlowInv, connVars
  <1>8. Len(tx') + others' <= TxCap
    <2>1. others \in Nat /\ Len(tx) + others <= TxCap /\ others' = others BY <1>0, <1>1 DEF TypeOK
    <2>2. Len(tx') = Len(tx) - 1 /\ Len(tx) \in Nat BY <1>2
    <2> QED BY <2>1, <2>2, ConnAssumption, SMT
  <1>9. TypeOK'
    BY <1>0, <1>2, <1>4, <1>5, <1>8 DEF TypeOK, WriterStep, connVars
  <1>10. CountersWrap' /\ PromisesKept' /\ SendableSound'
    BY <1>1, <1>4 DEF FlowInv, CountersWrap, PromisesKept, Promise, SendableSound, connVars
  <1> QED BY <1>6, <1>7, <1>9, <1>10 DEF FlowInv

\* The writer task ends: the queue is dropped.
LEMMA WriterStopsPreserves == FlowInv /\ WriterStops => FlowInv'
  <1> SUFFICES ASSUME FlowInv, WriterStops PROVE FlowInv' OBVIOUS
  <1> USE DEF clientVars, deviceVars, stopVars, connVars
  <1>0. TypeOK BY DEF FlowInv
  <1>1. tx' = <<>> /\ Len(tx') = 0 /\ others' = 0 BY DEF WriterStops
  <1>2. tx' \in Seq(OutPacket) /\ others' \in Nat /\ Len(tx') + others' <= TxCap
    BY <1>1, ConnAssumption, SMT
  <1>3. TypeOK' BY <1>0, <1>2 DEF TypeOK, WriterStops
  <1>4. QueueOrdered' BY <1>1, SMT DEF FlowInv, QueueOrdered, WriterStops
  <1> QED BY <1>3, <1>4, ChannelStep DEF WriterStops

\* The device reads its buffer: every promise gets easier to keep.
LEMMA DeviceReadsPreserves == FlowInv /\ DeviceReads => FlowInv'
  <1> SUFFICES ASSUME FlowInv, DeviceReads PROVE FlowInv' OBVIOUS
  <1> USE DEF clientVars, stopVars, daemonVars
  <1>0. TypeOK BY DEF FlowInv
  <1>1. /\ devRead' = devRcvd /\ devRead' \in Nat /\ devRead <= devRead'
        /\ devRead + DevBuf <= devRead' + DevBuf
    BY FlowNumbers, SMT DEF DeviceReads
  <1>2. UNCHANGED <<connVars, rx, tx, devRcvd, pc, outLen>> BY DEF DeviceReads
  <1>3. TypeOK' BY <1>0, <1>1 DEF TypeOK, DeviceReads, connVars
  <1>4. AcksOrdered' /\ QueueOrdered' /\ CountersWrap'
    <2>1. devRcvd <= devRcvd BY FlowNumbers, SMT
    <2> QED BY <1>1, <1>2, <2>1 DEF FlowInv, AcksOrdered, QueueOrdered, CountersWrap, connVars
  <1>5. SendableSound'
    <2>1. sentTotal + sendable_bytes <= devRead' + DevBuf BY <1>1, FlowNumbers, SMT
    <2> QED BY <1>2, <2>1 DEF FlowInv, SendableSound, connVars
  <1>6. \A a, w \in Nat : Promise(a, w) => Promise(a, w)'
    <2> SUFFICES ASSUME NEW a \in Nat, NEW w \in Nat, Promise(a, w) PROVE Promise(a, w)' OBVIOUS
    <2>1. WinBytes(w) \in Nat BY WinBytesNat
    <2>2. a + WinBytes(w) <= devRead + DevBuf /\ WinBytes(w) <= DevBuf BY DEF Promise
    <2>3. a + WinBytes(w) <= devRead' + DevBuf BY <1>1, <2>1, <2>2, FlowNumbers, SMT
    <2> QED BY <2>2, <2>3 DEF Promise
  <1>7. PromisesKept'
    <2>1. \A i \in 1..Len(rx) : rx[i].at \in Nat /\ rx[i].win \in Nat
      BY <1>0, InFields DEF TypeOK
    <2>2. ackedTotal \in Nat /\ device_last_window_size \in Nat BY <1>0 DEF TypeOK
    <2> QED BY <1>2, <1>6, <2>1, <2>2 DEF FlowInv, PromisesKept, connVars, Promise
  <1> QED BY <1>3, <1>4, <1>5, <1>7 DEF FlowInv

\* The device sends: its announcement is in order and keeps its promise.
LEMMA DeviceSendPreserves ==
    ASSUME FlowInv, NEW len \in 0..MaxIn, NEW win \in 0..(DevBuf \div WinUnit), DeviceSend(len, win)
    PROVE  FlowInv'
  <1> USE DEF clientVars, stopVars, daemonVars
  <1> DEFINE p == [seq |-> devSent % SeqMod, ack |-> devRcvd % SeqMod, win |-> win,
                   len |-> len, pos |-> devSent, at |-> devRcvd]
  <1>0. TypeOK BY DEF FlowInv
  <1>1. len \in Nat /\ win \in Nat BY ConnAssumption, SMT
  <1>2. devSent \in Nat /\ devRcvd \in Nat /\ rx \in Seq(InPacket) /\ Len(rx) \in Nat
    BY <1>0 DEF TypeOK
  <1>3. p \in InPacket
    <2>1. devSent % SeqMod \in 0..SeqMod-1 /\ devRcvd % SeqMod \in 0..SeqMod-1 BY <1>2, ModType
    <2> QED BY <1>1, <1>2, <2>1 DEF InPacket
  <1>4. p.ack = devRcvd % SeqMod /\ p.at = devRcvd /\ p.win = win OBVIOUS
  <1>5. rx' = Append(rx, p) BY DEF DeviceSend
  <1>6. UNCHANGED <<connVars, tx, pc, outLen, devRcvd, devRead>> BY DEF DeviceSend
  <1>7. Len(rx) < RxCap /\ WinBytes(win) <= DevBuf - (devRcvd - devRead) BY DEF DeviceSend
  <1>8. devSent' = devSent + len /\ announced' = [at |-> devRcvd, win |-> win] BY DEF DeviceSend
  <1> HIDE DEF p
  <1>9. /\ rx' \in Seq(InPacket) /\ Len(rx') = Len(rx) + 1
        /\ \A i \in 1..Len(rx) : rx'[i] = rx[i]
        /\ rx'[Len(rx) + 1] = p
    BY <1>2, <1>3, <1>5, AppendFacts
  <1>10. \A i \in 1..Len(rx') : i \in 1..Len(rx) \/ i = Len(rx) + 1
    BY <1>2, <1>9, SMT
  <1>11. CountersWrap'
    BY <1>4, <1>6, <1>9, <1>10 DEF FlowInv, CountersWrap, connVars
  <1>12. PromisesKept'
    <2>1. WinBytes(win) \in Nat BY <1>1, WinBytesNat
    <2>2. devRcvd + WinBytes(win) <= devRead + DevBuf /\ WinBytes(win) <= DevBuf
      BY <1>7, <2>1, FlowNumbers, SMT
    <2>3. Promise(p.at, p.win) BY <1>4, <2>2 DEF Promise
    <2> QED BY <1>6, <1>9, <1>10, <2>3 DEF FlowInv, PromisesKept, Promise, connVars
  <1>13. AcksOrdered'
    <2>1. devRcvd <= devRcvd /\ ackedTotal <= devRcvd BY FlowNumbers, SMT
    <2>2. \A i \in 1..Len(rx') : ackedTotal <= rx'[i].at /\ rx'[i].at <= devRcvd
      BY <1>4, <1>9, <1>10, <2>1 DEF FlowInv, AcksOrdered
    <2>3. \A i, j \in 1..Len(rx') : i < j => rx'[i].at <= rx'[j].at
      <3> SUFFICES ASSUME NEW i \in 1..Len(rx'), NEW j \in 1..Len(rx'), i < j
                   PROVE  rx'[i].at <= rx'[j].at
        OBVIOUS
      <3>1. i \in 1..Len(rx) BY <1>2, <1>9, SMT
      <3>2. CASE j \in 1..Len(rx) BY <1>9, <3>1, <3>2 DEF FlowInv, AcksOrdered
      <3>3. CASE j = Len(rx) + 1 BY <1>4, <1>9, <3>1, <3>3 DEF FlowInv, AcksOrdered
      <3> QED BY <1>10, <3>2, <3>3
    <2> QED BY <1>6, <2>2, <2>3 DEF FlowInv, AcksOrdered, connVars
  <1>14. QueueOrdered' /\ SendableSound'
    BY <1>6 DEF FlowInv, QueueOrdered, SendableSound, connVars
  <1>15. TypeOK'
    <2>1. devSent' \in Nat BY <1>1, <1>2, <1>8, SMT
    <2>2. announced' \in [at : Nat, win : Nat] BY <1>1, <1>2, <1>8
    <2>3. Len(rx') <= RxCap BY <1>2, <1>7, <1>9, ConnAssumption, SMT
    <2> QED BY <1>0, <1>9, <2>1, <2>2, <2>3 DEF TypeOK, DeviceSend, connVars
  <1> QED BY <1>11, <1>12, <1>13, <1>14, <1>15 DEF FlowInv

------------------------------------------------------------------------------
(* The theorems.                                                             *)

\* The handshake leaves a state in which every part of the invariant holds.
LEMMA FlowInit == Init => FlowInv
  <1> SUFFICES ASSUME Init PROVE FlowInv OBVIOUS
  <1>1. TypeOK BY TypeInit
  <1>2. Len(rx) = 0 /\ Len(tx) = 0 BY DEF Init
  <1>3. CountersWrap BY <1>2, SMT DEF Init, CountersWrap
  <1>4. device_last_window_size \in Nat BY <1>1 DEF TypeOK
  <1>5. WinBytes(device_last_window_size) <= DevBuf /\ WinBytes(device_last_window_size) \in Nat
    <2>1. device_last_window_size <= DevBuf \div WinUnit BY ConnAssumption, SMT DEF Init
    <2> DEFINE w == device_last_window_size
               q == DevBuf \div WinUnit
    <2>2. DevBuf = WinUnit * q + (DevBuf % WinUnit) /\ DevBuf % WinUnit \in 0..WinUnit-1 /\ q \in Int
      BY DivMod, ConnAssumption, WinUnit \in Nat /\ WinUnit > 0 /\ DevBuf \in Int
    <2>3. PICK d \in Nat : q = w + d BY <1>4, <2>1, <2>2, SMT
    <2>4. WinUnit * q = w * WinUnit + WinUnit * d
      <3> HIDE DEF q, w
      <3>1. w \in Nat BY <1>4 DEF w
      <3> QED BY <2>3, <3>1, ConnAssumption, SMT
    <2>5. WinUnit * d >= 0 BY ConnAssumption, SMT
    <2>6. w * WinUnit <= DevBuf
      <3> HIDE DEF q, w
      <3>1. w \in Nat BY <1>4 DEF w
      <3> QED BY <2>2, <2>4, <2>5, <3>1, ConnAssumption, SMT
    <2> QED BY <1>4, <2>6, WinBytesNat DEF WinBytes
  <1>6. PromisesKept BY <1>2, <1>5, ConnAssumption, SMT DEF Init, PromisesKept, Promise
  <1>7. AcksOrdered /\ QueueOrdered
    BY <1>2, SMT DEF Init, AcksOrdered, QueueOrdered
  <1>8. SendableSound
    <2>1. sendable_bytes = CalcSendable(1 % SeqMod, device_last_window_size, 1 % SeqMod)
      BY DEF Init
    <2>2. 1 - 1 < SeqMod /\ 1 + DevBuf \in Nat /\ 1 <= 1 + DevBuf
          /\ 1 + WinBytes(device_last_window_size) <= 1 + DevBuf
      BY <1>5, ConnAssumption, SMT
    <2>3. 1 + sendable_bytes <= 1 + DevBuf BY <1>4, <2>1, <2>2, CalcSound
    <2> QED BY <2>3 DEF Init, SendableSound
  <1> QED BY <1>1, <1>3, <1>6, <1>7, <1>8 DEF FlowInv

\* Every step of the system preserves the invariant.
LEMMA FlowStep == FlowInv /\ [Next]_vars => FlowInv'
  <1> SUFFICES ASSUME FlowInv, [Next]_vars PROVE FlowInv' OBVIOUS
  <1>1. CASE QuietActions BY <1>1, QuietPreserves
  <1>2. CASE RecvAcked BY <1>2, RecvAckedPreserves
  <1>3. CASE RecvBlocked \/ RecvAckFails BY <1>3, RecvStalePreserves
  <1>4. CASE AckResumes BY <1>4, AckResumesPreserves
  <1>5. CASE ClientReadBuffered \/ ClientReadSocket BY <1>5, ClientReadPreserves
  <1>6. CASE SendBytes BY <1>6, SendBytesPreserves
  <1>7. CASE Close \/ DropConn \/ CloseAllRst BY <1>7, ClosePreserves
  <1>8. CASE WriterStep BY <1>8, WriterStepPreserves
  <1>9. CASE WriterStops BY <1>9, WriterStopsPreserves
  <1>10. CASE DeviceReads BY <1>10, DeviceReadsPreserves
  <1>11. CASE \E len \in 0..MaxIn, win \in 0..(DevBuf \div WinUnit) : DeviceSend(len, win)
    BY <1>11, DeviceSendPreserves
  <1>12. CASE UNCHANGED vars
    <2> USE DEF vars, connVars, clientVars, deviceVars, stopVars
    <2>1. TypeOK' BY <1>12 DEF FlowInv, TypeOK
    <2> QED BY <1>12, <2>1, QuietStep
  <1> QED
    BY <1>1, <1>2, <1>3, <1>4, <1>5, <1>6, <1>7, <1>8, <1>9, <1>10, <1>11, <1>12
    DEF Next, TaskNext, DeviceNext, LoopNext, QuietActions

\* The inductive invariant holds in every reachable state.
THEOREM FlowInvariant == Spec => []FlowInv
  BY FlowInit, FlowStep, PTL DEF Spec

\* Type correctness: in particular the channels never exceed their capacity and
\* the wrapped counters stay within their width.
THEOREM TypeCorrect == Spec => []TypeOK
  <1>1. FlowInv => TypeOK BY DEF FlowInv
  <1> QED BY <1>1, FlowInvariant, PTL

\* Flow control: whatever the sizes and the width of the counters, the bytes sent
\* never exceed what the device has read plus its receive buffer, although
\* sendable_bytes may be stale and the counters wrap.
THEOREM NeverOverrun == Spec => []DeviceNeverOverrun
  <1>1. FlowInv => DeviceNeverOverrun
    <2> SUFFICES ASSUME FlowInv PROVE DeviceNeverOverrun OBVIOUS
    <2> QED BY FlowNumbers, SMT DEF DeviceNeverOverrun
  <1> QED BY <1>1, FlowInvariant, PTL
=============================================================================
