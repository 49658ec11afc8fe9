------------------------ MODULE UsbConnStreams_proofs ------------------------
(***************************************************************************)
(* What a UsbDeviceConn does with the two byte streams, proved for every    *)
(* size, capacity and counter width: the bytes of the client are accounted  *)
(* for, the headers match the streams whatever is queued, the device's      *)
(* bytes reach the client in order, and dropped is only set when the device *)
(* is told.                                                                 *)
(***************************************************************************)
EXTENDS UsbConn_proofs

\* What the task has taken from the client is sent, in outLen or in read_buf.
BytesInv ==
    /\ ClientBytesAccounted
    /\ pc \notin {"send", "drop", "done"} => outLen = 0

\* The device stream: delivered, taken from rx, in rx, sent.
RxOrdered ==
    /\ rcvdTotal <= devSent
    /\ \A i \in 1..Len(rx) : rcvdTotal <= rx[i].pos /\ rx[i].pos + rx[i].len <= devSent
    /\ \A i, j \in 1..Len(rx) : i < j => rx[i].pos + rx[i].len <= rx[j].pos

HeldOrdered ==
    /\ clientEnd <= rcvdTotal
    /\ pc \in {"ack", "forward"} =>
          /\ held.pos + held.len = rcvdTotal
          /\ held.len > 0 => clientEnd <= held.pos

OrderInv == RxOrdered /\ HeldOrdered

\* A packet whose headers were built when it was queued: only the RST of
\* close_all, after the cancellation, was built earlier.
Live(p) == p.flag = "RST" => ~cancelled

\* The headers of a packet are the counters at the positions it stands for.
Numbered(p) == p.seq = p.pos % SeqMod /\ p.ack = p.at % SeqMod /\ p.at <= rcvdTotal

RxNumbered ==
    /\ received_bytes = rcvdTotal % SeqMod
    /\ \A i \in 1..Len(rx) : rx[i].seq = rx[i].pos % SeqMod

TxNumbered == \A i \in 1..Len(tx) : Live(tx[i]) => Numbered(tx[i])

\* The queue continues the stream from where the device is to where the
\* connection is, and its acknowledgements never go back.
Chained ==
    /\ devAckd <= rcvdTotal
    /\ \A i \in 1..Len(tx) : Live(tx[i]) => devAckd <= tx[i].at
    /\ \A i, j \in 1..Len(tx) :
          i < j /\ tx[i].flag # "RST" /\ Live(tx[j]) => tx[i].at <= tx[j].at
    /\ tx = <<>> => devRcvd = sentTotal
    /\ tx # <<>> /\ Live(tx[1]) => tx[1].pos = devRcvd
    /\ \A i \in 1..Len(tx) : tx[i].flag # "RST" =>
          /\ i = Len(tx) => tx[i].pos + tx[i].len = sentTotal
          /\ i < Len(tx) /\ Live(tx[i+1]) => tx[i+1].pos = tx[i].pos + tx[i].len

StopInv ==
    /\ writerOn \/ tx = <<>>
    /\ closeAll # "no" => cancelled

HeaderInv ==
    /\ StopInv
    /\ RxNumbered /\ TxNumbered
    /\ up /\ devOpen /\ writerOn => Chained

StreamsInv == FlowInv /\ BytesInv /\ OrderInv /\ HeaderInv /\ DroppedMeansReset

------------------------------------------------------------------------------
(* The client's bytes.                                                       *)

\* Steps that move none of the client's bytes.
LEMMA BytesFrame ==
    ASSUME BytesInv, UNCHANGED <<sentTotal, outLen, read_buf, taken>>,
           \/ pc' = pc \/ pc' \in {"drop", "done"}
           \/ pc \in {"select", "ack", "forward", "close"}
    PROVE  BytesInv'
  BY DEF BytesInv, ClientBytesAccounted

\* Every step keeps the account.
LEMMA BytesStep == FlowInv /\ BytesInv /\ [Next]_vars => BytesInv'
  <1> SUFFICES ASSUME FlowInv, BytesInv, [Next]_vars PROVE BytesInv' OBVIOUS
  <1> USE DEF connVars, clientVars, deviceVars, stopVars, daemonVars, InSelect
  <1>0. /\ sentTotal \in Nat /\ outLen \in Nat /\ read_buf \in Nat /\ taken \in Nat
        /\ sendable_bytes \in Nat /\ written \in Nat
    BY FlowNumbers DEF FlowInv, TypeOK
  <1>1. CASE RecvAcked \/ RecvBlocked \/ AckResumes \/ RecvAckFails \/ RecvFails \/ ClientSend
             \/ ClientSendFails \/ ClientReadEof \/ ClientReadFails \/ Close \/ SendFails
             \/ WaitShutdown
    <2>1. UNCHANGED <<sentTotal, outLen, read_buf, taken>>
      BY <1>1 DEF RecvAcked, RecvBlocked, AckResumes, RecvAckFails, RecvFails, ClientSend,
         ClientSendFails, ClientReadEof, ClientReadFails, Close, SendFails, WaitShutdown, TakePacket
    <2>2. \/ pc' = pc \/ pc' \in {"drop", "done"}
          \/ pc \in {"select", "ack", "forward", "close"}
      BY <1>1 DEF RecvAcked, RecvBlocked, AckResumes, RecvAckFails, RecvFails, ClientSend,
         ClientSendFails, ClientReadEof, ClientReadFails, Close, SendFails, WaitShutdown
    <2> QED BY <2>1, <2>2, BytesFrame
  <1>2. CASE LoopNext \/ DeviceNext \/ ClientWrites \/ ClientCloses \/ UNCHANGED vars
    <2>1. UNCHANGED <<sentTotal, outLen, read_buf, taken, pc>>
      BY <1>2 DEF LoopNext, DeviceNext, ClientWrites, ClientCloses, vars, WriterStep, OthersEnqueue,
         OthersWritten, ReaderIoError, Shutdown, CloseAllTake, CloseAllBuild, CloseAllRst,
         WriterStops, DeviceSend, DeviceReads, DeviceRst, Unplug
    <2> QED BY <2>1, BytesFrame
  <1>3. CASE DropConn
    BY <1>3 DEF DropConn, BytesInv, ClientBytesAccounted
  <1>4. CASE ClientReadBuffered
    <2>1. /\ sentTotal + outLen + read_buf = taken + 1 /\ outLen = 0
      BY <1>4 DEF ClientReadBuffered, BytesInv, ClientBytesAccounted
    <2>2. /\ outLen' = Lesser(sendable_bytes, read_buf) /\ read_buf' = read_buf - outLen'
          /\ pc' = "send" /\ sentTotal' = sentTotal /\ taken' = taken
      BY <1>4 DEF ClientReadBuffered
    <2>3. sentTotal + outLen' + (read_buf - outLen') = taken + 1
      BY <1>0, <2>1, <2>2, SMT DEF Lesser
    <2> QED BY <2>2, <2>3 DEF BytesInv, ClientBytesAccounted
  <1>5. CASE ClientReadSocket
    <2>1. /\ sentTotal + outLen + read_buf = taken + 1 /\ outLen = 0 /\ read_buf = 0
      BY <1>5 DEF ClientReadSocket, BytesInv, ClientBytesAccounted
    <2>2. PICK k \in 1..(written - taken) :
             /\ taken' = taken + k /\ outLen' = Lesser(sendable_bytes, k) /\ read_buf' = k - outLen'
      BY <1>5 DEF ClientReadSocket
    <2>3. k \in Nat BY <1>0, SMT
    <2>4. pc' = "send" /\ sentTotal' = sentTotal BY <1>5 DEF ClientReadSocket
    <2>5. sentTotal + outLen' + (k - outLen') = taken + k + 1
      BY <1>0, <2>1, <2>2, <2>3, SMT DEF Lesser
    <2> QED BY <2>2, <2>4, <2>5 DEF BytesInv, ClientBytesAccounted
  <1>6. CASE SendBytes
    <2>1. /\ sentTotal + outLen + read_buf = taken + 1
      BY <1>6 DEF SendBytes, BytesInv, ClientBytesAccounted
    <2>2. /\ outLen' = 0 /\ read_buf' = read_buf /\ pc' = "select"
          /\ sentTotal' = sentTotal + outLen /\ taken' = taken
      BY <1>6 DEF SendBytes
    <2>3. (sentTotal + outLen) + 0 + read_buf = taken + 1
      BY <1>0, <2>1, SMT
    <2> QED BY <2>2, <2>3 DEF BytesInv, ClientBytesAccounted
  <1> QED BY <1>1, <1>2, <1>3, <1>4, <1>5, <1>6 DEF Next, TaskNext

------------------------------------------------------------------------------
(* The device's bytes.                                                       *)

\* The connection's end of the device stream stays where it is.
LEMMA RxFrame ==
    ASSUME RxOrdered, UNCHANGED <<rcvdTotal, devSent>>, rx' = rx \/ rx' = <<>>
    PROVE  RxOrdered'
  <1>1. rx' = <<>> => Len(rx') = 0 OBVIOUS
  <1> QED BY <1>1, SMT DEF RxOrdered

\* Nothing is taken and nothing delivered.
LEMMA HeldFrame ==
    ASSUME HeldOrdered, UNCHANGED <<rcvdTotal, clientEnd>>,
           \/ pc' \notin {"ack", "forward"}
           \/ pc \in {"ack", "forward"} /\ held' = held
    PROVE  HeldOrdered'
  BY DEF HeldOrdered

\* rx.recv(): the packet taken is the next part of the stream.
LEMMA TakeOrder ==
    ASSUME FlowInv, OrderInv, TakePacket, UNCHANGED <<clientEnd, devSent>>
    PROVE  OrderInv' /\ rcvdTotal <= rcvdTotal' /\ rcvdTotal' \in Nat
  <1>1. /\ rx \in Seq(InPacket) /\ rx # <<>> /\ rcvdTotal \in Nat /\ devSent \in Nat
        /\ clientEnd \in Nat
    BY DEF FlowInv, TypeOK, TakePacket
  <1>2. /\ Len(rx') = Len(rx) - 1 /\ Len(rx) \in Nat
        /\ Head(rx) = rx[1] /\ 1 \in 1..Len(rx)
        /\ \A i \in 1..Len(rx') : rx'[i] = rx[i+1] /\ i + 1 \in 1..Len(rx)
    BY <1>1, TailFacts DEF TakePacket
  <1>3. rx[1].pos \in Nat /\ rx[1].len \in Nat BY <1>1, <1>2, InFields
  <1>4. /\ rcvdTotal' = rx[1].pos + rx[1].len /\ held' = [pos |-> rx[1].pos, len |-> rx[1].len]
    BY <1>2 DEF TakePacket
  <1>5. /\ rcvdTotal <= rx[1].pos /\ rx[1].pos + rx[1].len <= devSent /\ clientEnd <= rcvdTotal
    BY <1>2 DEF OrderInv, RxOrdered, HeldOrdered
  <1>6. \A i \in 1..Len(rx') :
           rx[1].pos + rx[1].len <= rx'[i].pos /\ rx'[i].pos + rx'[i].len <= devSent
    <2> SUFFICES ASSUME NEW i \in 1..Len(rx')
                 PROVE  rx[1].pos + rx[1].len <= rx'[i].pos /\ rx'[i].pos + rx'[i].len <= devSent
      OBVIOUS
    <2>1. rx'[i] = rx[i+1] /\ i + 1 \in 1..Len(rx) BY <1>2
    <2>2. 1 < i + 1 BY SMT
    <2> QED BY <1>2, <2>1, <2>2 DEF OrderInv, RxOrdered
  <1>7. \A i, j \in 1..Len(rx') : i < j => rx'[i].pos + rx'[i].len <= rx'[j].pos
    <2>1. \A i, j \in 1..Len(rx') : i < j => i + 1 < j + 1 BY SMT
    <2> QED BY <1>2, <2>1 DEF OrderInv, RxOrdered
  <1>8. RxOrdered' BY <1>4, <1>5, <1>6, <1>7 DEF RxOrdered
  <1>9. held'.pos = rx[1].pos /\ held'.len = rx[1].len BY <1>4
  <1>10. /\ clientEnd <= rx[1].pos + rx[1].len /\ clientEnd <= rx[1].pos
         /\ rcvdTotal <= rx[1].pos + rx[1].len /\ rx[1].pos + rx[1].len \in Nat
    BY <1>1, <1>3, <1>5, SMT
  <1>11. HeldOrdered' BY <1>4, <1>9, <1>10 DEF HeldOrdered
  <1> QED BY <1>4, <1>8, <1>10, <1>11 DEF OrderInv

\* The device sends: the packet follows everything it sent before.
LEMMA SendOrder ==
    ASSUME FlowInv, OrderInv, NEW len \in 0..MaxIn, NEW win \in 0..(DevBuf \div WinUnit),
           DeviceSend(len, win)
    PROVE  OrderInv'
  <1> DEFINE p == [seq |-> devSent % SeqMod, ack |-> devRcvd % SeqMod, win |-> win,
                   len |-> len, pos |-> devSent, at |-> devRcvd]
  <1>0. TypeOK BY DEF FlowInv
  <1>1. len \in Nat /\ win \in Nat BY ConnAssumption, SMT
  <1>2. /\ devSent \in Nat /\ devRcvd \in Nat /\ rx \in Seq(InPacket) /\ Len(rx) \in Nat
        /\ rcvdTotal \in Nat
    BY <1>0 DEF TypeOK
  <1>3. p \in InPacket
    <2>1. devSent % SeqMod \in 0..SeqMod-1 /\ devRcvd % SeqMod \in 0..SeqMod-1 BY <1>2, ModType
    <2> QED BY <1>1, <1>2, <2>1 DEF InPacket
  <1>4. p.pos = devSent /\ p.len = len OBVIOUS
  <1>5. /\ rx' = Append(rx, p) /\ UNCHANGED <<rcvdTotal, clientEnd, pc, held>>
        /\ devSent' = devSent + len
    BY DEF DeviceSend, daemonVars, connVars
  <1> HIDE DEF p
  <1>6. /\ Len(rx') = Len(rx) + 1 /\ \A i \in 1..Len(rx) : rx'[i] = rx[i]
        /\ rx'[Len(rx) + 1] = p
    BY <1>2, <1>3, <1>5, AppendFacts
  <1>7. \A i \in 1..Len(rx') : i \in 1..Len(rx) \/ i = Len(rx) + 1
    BY <1>2, <1>6, SMT
  <1>8. \A i \in 1..Len(rx) : rx[i].pos \in Nat /\ rx[i].len \in Nat BY <1>2, InFields
  <1>9. \A i \in 1..Len(rx) : /\ rcvdTotal <= rx[i].pos
                              /\ rx[i].pos + rx[i].len <= devSent
                              /\ rx[i].pos + rx[i].len <= devSent + len
    <2> SUFFICES ASSUME NEW i \in 1..Len(rx)
                 PROVE  /\ rcvdTotal <= rx[i].pos
                        /\ rx[i].pos + rx[i].len <= devSent
                        /\ rx[i].pos + rx[i].len <= devSent + len
      OBVIOUS
    <2>1. rcvdTotal <= rx[i].pos /\ rx[i].pos + rx[i].len <= devSent BY DEF OrderInv, RxOrdered
    <2>2. rx[i].pos \in Nat /\ rx[i].len \in Nat BY <1>8
    <2> QED BY <1>1, <1>2, <2>1, <2>2, SMT
  <1>10. rcvdTotal <= devSent /\ devSent + len <= devSent + len /\ rcvdTotal <= devSent + len
    <2>1. rcvdTotal <= devSent BY DEF OrderInv, RxOrdered
    <2> QED BY <1>1, <1>2, <2>1, SMT
  <1>11. \A i \in 1..Len(rx') :
            rcvdTotal <= rx'[i].pos /\ rx'[i].pos + rx'[i].len <= devSent + len
    BY <1>4, <1>6, <1>7, <1>9, <1>10
  <1>12. \A i, j \in 1..Len(rx') : i < j => rx'[i].pos + rx'[i].len <= rx'[j].pos
    <2> SUFFICES ASSUME NEW i \in 1..Len(rx'), NEW j \in 1..Len(rx'), i < j
                 PROVE  rx'[i].pos + rx'[i].len <= rx'[j].pos
      OBVIOUS
    <2>1. i \in 1..Len(rx) BY <1>2, <1>6, SMT
    <2>2. CASE j \in 1..Len(rx) BY <1>6, <2>1, <2>2 DEF OrderInv, RxOrdered
    <2>3. CASE j = Len(rx) + 1 BY <1>4, <1>6, <1>9, <2>1, <2>3
    <2> QED BY <1>7, <2>2, <2>3
  <1>13. RxOrdered' BY <1>5, <1>10, <1>11, <1>12 DEF RxOrdered
  <1>14. HeldOrdered' BY <1>5 DEF OrderInv, HeldOrdered
  <1> QED BY <1>13, <1>14 DEF OrderInv

\* Every step keeps the device stream in order.
LEMMA OrderStep == FlowInv /\ OrderInv /\ [Next]_vars => OrderInv'
  <1> SUFFICES ASSUME FlowInv, OrderInv, [Next]_vars PROVE OrderInv' OBVIOUS
  <1> USE DEF connVars, clientVars, deviceVars, stopVars, daemonVars, InSelect
  <1>0. RxOrdered /\ HeldOrdered BY DEF OrderInv
  <1>1. CASE RecvAcked \/ RecvBlocked \/ RecvAckFails
    <2>1. TakePacket /\ UNCHANGED <<clientEnd, devSent>>
      BY <1>1 DEF RecvAcked, RecvBlocked, RecvAckFails
    <2> QED BY <2>1, TakeOrder
  <1>2. CASE \E len \in 0..MaxIn, win \in 0..(DevBuf \div WinUnit) : DeviceSend(len, win)
    BY <1>2, SendOrder
  <1>3. CASE ClientSend
    <2>1. UNCHANGED <<rcvdTotal, devSent, rx>> BY <1>3 DEF ClientSend
    <2>2. /\ held.pos + held.len = rcvdTotal /\ clientEnd <= rcvdTotal
      BY <1>0, <1>3 DEF ClientSend, HeldOrdered
    <2>3. /\ clientEnd' = IF held.len = 0 THEN clientEnd ELSE held.pos + held.len
          /\ pc' = "select"
      BY <1>3 DEF ClientSend
    <2>4. rcvdTotal <= rcvdTotal BY SMT DEF FlowInv, TypeOK
    <2>5. clientEnd' <= rcvdTotal BY <2>2, <2>3, <2>4
    <2>6. HeldOrdered' BY <2>1, <2>3, <2>5 DEF HeldOrdered
    <2> QED BY <1>0, <2>1, <2>6, RxFrame DEF OrderInv
  <1>4. CASE AckResumes \/ RecvFails \/ ClientSendFails \/ ClientReadBuffered \/ ClientReadSocket
             \/ ClientReadEof \/ ClientReadFails \/ SendBytes \/ Close \/ SendFails \/ WaitShutdown
             \/ DropConn
    <2>1. UNCHANGED <<rcvdTotal, devSent, clientEnd>> /\ (rx' = rx \/ rx' = <<>>)
      BY <1>4 DEF AckResumes, RecvFails, ClientSendFails, ClientReadBuffered, ClientReadSocket,
         ClientReadEof, ClientReadFails, SendBytes, Close, SendFails, WaitShutdown, DropConn
    <2>2. \/ pc' \notin {"ack", "forward"}
          \/ pc \in {"ack", "forward"} /\ held' = held
      BY <1>4 DEF AckResumes, RecvFails, ClientSendFails, ClientReadBuffered, ClientReadSocket,
         ClientReadEof, ClientReadFails, SendBytes, Close, SendFails, WaitShutdown, DropConn
    <2> QED BY <1>0, <2>1, <2>2, RxFrame, HeldFrame DEF OrderInv
  <1>5. CASE LoopNext \/ DeviceReads \/ DeviceRst \/ Unplug \/ ClientWrites \/ ClientCloses
             \/ UNCHANGED vars
    <2>1. UNCHANGED <<rcvdTotal, devSent, clientEnd, rx, pc, held>>
      BY <1>5 DEF LoopNext, ClientWrites, ClientCloses, vars, WriterStep, OthersEnqueue,
         OthersWritten, ReaderIoError, Shutdown, CloseAllTake, CloseAllBuild, CloseAllRst,
         WriterStops, DeviceReads, DeviceRst, Unplug, DeviceTakes
    <2>2. HeldOrdered' BY <1>0, <2>1 DEF HeldOrdered
    <2> QED BY <1>0, <2>1, <2>2, RxFrame DEF OrderInv
  <1> QED BY <1>1, <1>2, <1>3, <1>4, <1>5 DEF Next, TaskNext, DeviceNext

------------------------------------------------------------------------------
(* The headers.                                                              *)

\* A packet joins the queue whose headers are the counters, or that no longer
\* counts.
LEMMA ChainAppend ==
    ASSUME TypeOK, Chained, NEW p \in OutPacket, tx' = Append(tx, p),
           Live(p) => p.pos = sentTotal /\ p.at = rcvdTotal',
           rcvdTotal <= rcvdTotal', rcvdTotal' \in Nat,
           \A i \in 1..Len(tx) : Live(tx[i]) => tx[i].at <= rcvdTotal,
           sentTotal' = sentTotal + p.len, UNCHANGED <<devAckd, devRcvd, cancelled>>
    PROVE  Chained'
  <1> DEFINE rt == rcvdTotal'
  <1>1. /\ tx \in Seq(OutPacket) /\ Len(tx) \in Nat /\ sentTotal \in Nat /\ devRcvd \in Nat
        /\ devAckd \in Nat /\ rcvdTotal \in Nat
    BY DEF TypeOK
  <1>2. /\ Len(tx') = Len(tx) + 1 /\ \A i \in 1..Len(tx) : tx'[i] = tx[i]
        /\ tx'[Len(tx) + 1] = p
    BY <1>1, AppendFacts
  <1>3. \A i \in 1..Len(tx') : i \in 1..Len(tx) \/ i = Len(tx) + 1 BY <1>1, <1>2, SMT
  <1>4. \A i \in 1..Len(tx) : tx[i].pos \in Nat /\ tx[i].len \in Nat /\ tx[i].at \in Nat
    BY <1>1, OutFields
  <1>5. \A k : Live(k)' <=> Live(k) BY DEF Live
  <1>6. rt \in Nat /\ rcvdTotal <= rt /\ (Live(p) => p.pos = sentTotal /\ p.at = rt) OBVIOUS
  <1> HIDE DEF rt
  <1>7. devAckd <= rt
    <2>1. devAckd <= rcvdTotal BY DEF Chained
    <2> QED BY <1>1, <1>6, <2>1, SMT
  <1>8. \A i \in 1..Len(tx') : Live(tx'[i]) => devAckd <= tx'[i].at
    BY <1>2, <1>3, <1>6, <1>7 DEF Chained
  <1>9. \A i, j \in 1..Len(tx') :
           i < j /\ tx'[i].flag # "RST" /\ Live(tx'[j]) => tx'[i].at <= tx'[j].at
    <2> SUFFICES ASSUME NEW i \in 1..Len(tx'), NEW j \in 1..Len(tx'), i < j,
                        tx'[i].flag # "RST", Live(tx'[j])
                 PROVE  tx'[i].at <= tx'[j].at
      OBVIOUS
    <2>1. i \in 1..Len(tx) BY <1>1, <1>2, SMT
    <2>2. CASE j \in 1..Len(tx) BY <1>2, <2>1, <2>2 DEF Chained
    <2>3. CASE j = Len(tx) + 1
      <3>1. tx[i].at <= rcvdTotal BY <1>2, <2>1 DEF Live
      <3>2. tx[i].at <= rt BY <1>1, <1>4, <1>6, <2>1, <3>1, SMT
      <3> QED BY <1>2, <1>6, <2>1, <2>3, <3>2
    <2> QED BY <1>3, <2>2, <2>3
  <1>10. tx' # <<>> BY <1>1, <1>2, SMT
  <1>11. Live(tx'[1]) => tx'[1].pos = devRcvd
    <2>1. CASE tx = <<>>
      <3>1. Len(tx) = 0 BY <2>1
      <3>2. tx'[1] = p BY <1>2, <3>1, SMT
      <3>3. devRcvd = sentTotal BY <2>1 DEF Chained
      <3> QED BY <1>6, <3>2, <3>3
    <2>2. CASE tx # <<>>
      <3>1. 1 \in 1..Len(tx) BY <1>1, <2>2, TailFacts
      <3> QED BY <1>2, <2>2, <3>1 DEF Chained
    <2> QED BY <2>1, <2>2
  <1>12. ASSUME NEW i \in 1..Len(tx'), tx'[i].flag # "RST"
         PROVE  /\ i = Len(tx') => tx'[i].pos + tx'[i].len = sentTotal'
                /\ i < Len(tx') /\ Live(tx'[i+1]) => tx'[i+1].pos = tx'[i].pos + tx'[i].len
    <2>1. CASE i = Len(tx) + 1
      <3>1. tx'[i] = p BY <1>2, <2>1
      <3>2. Live(p) BY <1>12, <3>1 DEF Live
      <3>3. ~(i < Len(tx')) BY <1>1, <1>2, <2>1, SMT
      <3> QED BY <1>6, <3>1, <3>2, <3>3
    <2>2. CASE i \in 1..Len(tx)
      <3>1. tx'[i] = tx[i] BY <1>2, <2>2
      <3>2. i # Len(tx') BY <1>1, <1>2, <2>2, SMT
      <3>3. CASE i = Len(tx)
        <4>1. tx'[i+1] = p BY <1>2, <3>3
        <4>2. tx[i].pos + tx[i].len = sentTotal BY <1>12, <2>2, <3>1, <3>3 DEF Chained
        <4> QED BY <1>6, <3>1, <3>2, <4>1, <4>2
      <3>4. CASE i # Len(tx)
        <4>1. i < Len(tx) /\ i + 1 \in 1..Len(tx) BY <1>1, <2>2, <3>4, SMT
        <4>2. tx'[i+1] = tx[i+1] BY <1>2, <4>1
        <4> QED BY <1>12, <2>2, <3>1, <3>2, <4>1, <4>2 DEF Chained
      <3> QED BY <3>3, <3>4
    <2> QED BY <1>3, <2>1, <2>2
  <1>13. devAckd' <= rcvdTotal' BY <1>7 DEF rt
  <1> QED BY <1>5, <1>8, <1>9, <1>10, <1>11, <1>12, <1>13 DEF Chained

\* The writer loop writes the packet at the head and the device takes it.
LEMMA ChainTail ==
    ASSUME TypeOK, Chained, tx # <<>>, tx' = Tail(tx), tx[1].flag # "RST",
           devRcvd' = devRcvd + tx[1].len, devAckd' = tx[1].at, tx[1].at <= rcvdTotal,
           UNCHANGED <<sentTotal, rcvdTotal, cancelled>>
    PROVE  Chained'
  <1>1. tx \in Seq(OutPacket) BY DEF TypeOK
  <1>2. /\ tx' \in Seq(OutPacket) /\ Len(tx') = Len(tx) - 1 /\ Len(tx) \in Nat \ {0}
        /\ 1 \in 1..Len(tx)
        /\ \A i \in 1..Len(tx') : tx'[i] = tx[i+1] /\ i + 1 \in 1..Len(tx)
    BY <1>1, TailFacts
  <1>3. \A k : Live(k)' <=> Live(k) BY DEF Live
  <1>4. Live(tx[1]) BY DEF Live
  <1>5. tx[1].pos = devRcvd BY <1>4 DEF Chained
  <1>6. \A i \in 1..Len(tx') : Live(tx'[i]) => tx[1].at <= tx'[i].at
    <2> SUFFICES ASSUME NEW i \in 1..Len(tx'), Live(tx'[i]) PROVE tx[1].at <= tx'[i].at OBVIOUS
    <2>1. 1 < i + 1 BY SMT
    <2>2. tx'[i] = tx[i+1] /\ i + 1 \in 1..Len(tx) BY <1>2
    <2> QED BY <1>2, <2>1, <2>2, Zenon DEF Chained
  <1>7. \A i, j \in 1..Len(tx') :
           i < j /\ tx'[i].flag # "RST" /\ Live(tx'[j]) => tx'[i].at <= tx'[j].at
    <2> SUFFICES ASSUME NEW i \in 1..Len(tx'), NEW j \in 1..Len(tx'), i < j,
                        tx'[i].flag # "RST", Live(tx'[j])
                 PROVE  tx'[i].at <= tx'[j].at
      OBVIOUS
    <2>1. i + 1 < j + 1 BY SMT
    <2>2. /\ tx'[i] = tx[i+1] /\ i + 1 \in 1..Len(tx)
          /\ tx'[j] = tx[j+1] /\ j + 1 \in 1..Len(tx)
      BY <1>2
    <2> QED BY <2>1, <2>2, Zenon DEF Chained
  <1>8. tx' = <<>> => devRcvd' = sentTotal
    <2> SUFFICES ASSUME tx' = <<>> PROVE devRcvd' = sentTotal OBVIOUS
    <2>1. Len(tx) - 1 = 0 BY <1>2, Len(<<>>) = 0, Zenon
    <2>2. 1 = Len(tx)
      <3> DEFINE n == Len(tx)
      <3>1. n \in Nat /\ n - 1 = 0 BY <1>2, <2>1
      <3> HIDE DEF n
      <3>2. 1 = n BY <3>1, SMT
      <3> QED BY <3>2 DEF n
    <2>3. tx[1].pos + tx[1].len = sentTotal BY <1>2, <2>2 DEF Chained
    <2> QED BY <1>5, <2>3
  <1>9. tx' # <<>> /\ Live(tx'[1]) => tx'[1].pos = devRcvd'
    <2> SUFFICES ASSUME tx' # <<>>, Live(tx'[1]) PROVE tx'[1].pos = devRcvd' OBVIOUS
    <2>1. 1 \in 1..Len(tx') BY <1>2, TailFacts
    <2>2. tx'[1] = tx[1+1] /\ 1 < Len(tx) BY <1>2, <2>1, SMT
    <2>3. tx[1+1].pos = tx[1].pos + tx[1].len BY <1>2, <2>2 DEF Chained
    <2> QED BY <1>5, <2>2, <2>3
  <1>10. ASSUME NEW i \in 1..Len(tx'), tx'[i].flag # "RST"
         PROVE  /\ i = Len(tx') => tx'[i].pos + tx'[i].len = sentTotal
                /\ i < Len(tx') /\ Live(tx'[i+1]) => tx'[i+1].pos = tx'[i].pos + tx'[i].len
    <2>1. tx'[i] = tx[i+1] /\ i + 1 \in 1..Len(tx) BY <1>2
    <2>2. i = Len(tx') => i + 1 = Len(tx) BY <1>2, SMT
    <2>3. i < Len(tx') => i + 1 < Len(tx) /\ i + 1 \in 1..Len(tx') BY <1>2, SMT
    <2>4. i < Len(tx') => tx'[i+1] = tx[(i+1)+1] BY <1>2, <2>3
    <2> QED BY <1>10, <2>1, <2>2, <2>3, <2>4 DEF Chained
  <1> QED BY <1>3, <1>6, <1>7, <1>8, <1>9, <1>10 DEF Chained

\* The queue and the two streams stay where they are; a cancellation only makes
\* fewer packets count.
LEMMA ChainFrame ==
    ASSUME Chained, UNCHANGED <<tx, rcvdTotal, sentTotal, devAckd, devRcvd>>, cancelled => cancelled'
    PROVE  Chained'
  <1>1. \A k : Live(k)' => Live(k) BY DEF Live
  <1> QED BY <1>1 DEF Chained

\* Taking a packet moves the end of the received stream only.
LEMMA ChainTaken ==
    ASSUME TypeOK, Chained, UNCHANGED <<tx, sentTotal, devAckd, devRcvd, cancelled>>,
           rcvdTotal <= rcvdTotal', rcvdTotal' \in Nat
    PROVE  Chained'
  <1> DEFINE rt == rcvdTotal'
  <1>1. \A k : Live(k)' <=> Live(k) BY DEF Live
  <1>2. devAckd \in Nat /\ rcvdTotal \in Nat /\ devAckd <= rcvdTotal BY DEF TypeOK, Chained
  <1>3. rt \in Nat /\ rcvdTotal <= rt OBVIOUS
  <1> HIDE DEF rt
  <1>4. devAckd <= rt BY <1>2, <1>3, SMT
  <1>5. devAckd' <= rcvdTotal' BY <1>4 DEF rt
  <1> QED BY <1>1, <1>5 DEF Chained

\* Queued packets stay well numbered when the received stream grows.
LEMMA NumberedKept ==
    ASSUME TypeOK, NEW p \in OutPacket, Numbered(p), rcvdTotal <= rcvdTotal', rcvdTotal' \in Nat
    PROVE  p.at <= rcvdTotal'
  <1> DEFINE rt == rcvdTotal'
  <1>1. rt \in Nat /\ rcvdTotal <= rt OBVIOUS
  <1>2. rcvdTotal \in Nat /\ p.at \in Nat /\ p.at <= rcvdTotal BY DEF TypeOK, OutPacket, Numbered
  <1> HIDE DEF rt
  <1>3. p.at <= rt BY <1>1, <1>2, SMT
  <1> QED BY <1>3 DEF rt

\* The connection's end of the numbering stays where it is.
LEMMA RxNumberedFrame ==
    ASSUME RxNumbered, UNCHANGED <<received_bytes, rcvdTotal>>, rx' = rx \/ rx' = <<>>
    PROVE  RxNumbered'
  <1>1. rx' = <<>> => Len(rx') = 0 OBVIOUS
  <1> QED BY <1>1, SMT DEF RxNumbered

\* update_states: received_bytes is the wrapped end of the packet.
LEMMA RxNumberedTake == FlowInv /\ RxNumbered /\ TakePacket => RxNumbered'
  <1> SUFFICES ASSUME FlowInv, RxNumbered, TakePacket PROVE RxNumbered' OBVIOUS
  <1>1. rx \in Seq(InPacket) /\ rx # <<>> BY DEF FlowInv, TypeOK, TakePacket
  <1>2. /\ Head(rx) = rx[1] /\ 1 \in 1..Len(rx)
        /\ \A i \in 1..Len(rx') : rx'[i] = rx[i+1] /\ i + 1 \in 1..Len(rx)
    BY <1>1, TailFacts DEF TakePacket
  <1>3. rx[1].pos \in Nat /\ rx[1].len \in Nat BY <1>1, <1>2, InFields
  <1>4. rx[1].seq = rx[1].pos % SeqMod BY <1>2 DEF RxNumbered
  <1>5. SeqMod \in Nat /\ SeqMod > 0 BY ConnAssumption, SMT
  <1>6. ((rx[1].pos % SeqMod) + rx[1].len) % SeqMod = (rx[1].pos + rx[1].len) % SeqMod
    BY <1>3, <1>5, ModAdd
  <1>7. received_bytes' = rcvdTotal' % SeqMod BY <1>2, <1>4, <1>6 DEF TakePacket
  <1> QED BY <1>2, <1>7 DEF RxNumbered

\* The device numbers what it sends.
LEMMA RxNumberedSend ==
    ASSUME FlowInv, RxNumbered, NEW len \in 0..MaxIn, NEW win \in 0..(DevBuf \div WinUnit),
           DeviceSend(len, win)
    PROVE  RxNumbered'
  <1> DEFINE p == [seq |-> devSent % SeqMod, ack |-> devRcvd % SeqMod, win |-> win,
                   len |-> len, pos |-> devSent, at |-> devRcvd]
  <1>1. len \in Nat /\ win \in Nat BY ConnAssumption, SMT
  <1>2. devSent \in Nat /\ devRcvd \in Nat /\ rx \in Seq(InPacket) /\ Len(rx) \in Nat
    BY DEF FlowInv, TypeOK
  <1>3. p \in InPacket
    <2>1. devSent % SeqMod \in 0..SeqMod-1 /\ devRcvd % SeqMod \in 0..SeqMod-1 BY <1>2, ModType
    <2> QED BY <1>1, <1>2, <2>1 DEF InPacket
  <1>4. p.seq = p.pos % SeqMod OBVIOUS
  <1>5. rx' = Append(rx, p) /\ UNCHANGED <<received_bytes, rcvdTotal>>
    BY DEF DeviceSend, daemonVars, connVars
  <1> HIDE DEF p
  <1>6. /\ Len(rx') = Len(rx) + 1 /\ \A i \in 1..Len(rx) : rx'[i] = rx[i]
        /\ rx'[Len(rx) + 1] = p
    BY <1>2, <1>3, <1>5, AppendFacts
  <1>7. \A i \in 1..Len(rx') : i \in 1..Len(rx) \/ i = Len(rx) + 1
    BY <1>2, <1>6, SMT
  <1> QED BY <1>4, <1>5, <1>6, <1>7 DEF RxNumbered

\* The queue stays, or is dropped; the received stream may have grown.
LEMMA TxNumberedFrame ==
    ASSUME TypeOK, TxNumbered, tx' = tx \/ tx' = <<>>, cancelled => cancelled',
           rcvdTotal <= rcvdTotal', rcvdTotal' \in Nat
    PROVE  TxNumbered'
  <1>1. tx' = <<>> => Len(tx') = 0 OBVIOUS
  <1>2. tx \in Seq(OutPacket) BY DEF TypeOK
  <1> SUFFICES ASSUME NEW i \in 1..Len(tx'), Live(tx[i])' PROVE Numbered(tx[i])'
    BY DEF TxNumbered
  <1>3. tx' = tx /\ i \in 1..Len(tx) BY <1>1, SMT
  <1>4. Live(tx[i]) BY <1>3 DEF Live
  <1>5. Numbered(tx[i]) BY <1>3, <1>4 DEF TxNumbered
  <1>6. tx[i] \in OutPacket BY <1>2, <1>3
  <1>7. tx[i].at <= rcvdTotal' BY <1>5, <1>6, NumberedKept
  <1> QED BY <1>3, <1>5, <1>7 DEF Numbered

\* A packet joins the queue.
LEMMA TxNumberedAppend ==
    ASSUME TypeOK, TxNumbered, NEW p \in OutPacket, tx' = Append(tx, p), cancelled' = cancelled,
           rcvdTotal <= rcvdTotal', rcvdTotal' \in Nat,
           Live(p) => p.seq = p.pos % SeqMod /\ p.ack = p.at % SeqMod /\ p.at <= rcvdTotal'
    PROVE  TxNumbered'
  <1>1. tx \in Seq(OutPacket) /\ Len(tx) \in Nat BY DEF TypeOK
  <1>2. /\ Len(tx') = Len(tx) + 1 /\ \A i \in 1..Len(tx) : tx'[i] = tx[i]
        /\ tx'[Len(tx) + 1] = p
    BY <1>1, AppendFacts
  <1> SUFFICES ASSUME NEW i \in 1..Len(tx'), Live(tx[i])' PROVE Numbered(tx[i])'
    BY DEF TxNumbered
  <1>3. CASE i \in 1..Len(tx)
    <2>1. tx'[i] = tx[i] BY <1>2, <1>3
    <2>2. Live(tx[i]) BY <2>1 DEF Live
    <2>3. Numbered(tx[i]) BY <1>3, <2>2 DEF TxNumbered
    <2>4. tx[i] \in OutPacket BY <1>1, <1>3
    <2>5. tx[i].at <= rcvdTotal' BY <2>3, <2>4, NumberedKept
    <2> QED BY <2>1, <2>3, <2>5 DEF Numbered
  <1>4. CASE i = Len(tx) + 1
    <2>1. tx'[i] = p BY <1>2, <1>4
    <2>2. Live(p) BY <2>1 DEF Live
    <2> QED BY <2>1, <2>2 DEF Numbered
  <1> QED BY <1>1, <1>2, <1>3, <1>4, SMT

\* The packet at the head leaves the queue.
LEMMA TxNumberedTail ==
    ASSUME TypeOK, TxNumbered, tx # <<>>, tx' = Tail(tx), UNCHANGED <<cancelled, rcvdTotal>>
    PROVE  TxNumbered'
  <1>1. tx \in Seq(OutPacket) BY DEF TypeOK
  <1>2. \A i \in 1..Len(tx') : tx'[i] = tx[i+1] /\ i + 1 \in 1..Len(tx)
    BY <1>1, TailFacts
  <1> SUFFICES ASSUME NEW i \in 1..Len(tx'), Live(tx[i])' PROVE Numbered(tx[i])'
    BY DEF TxNumbered
  <1>3. tx'[i] = tx[i+1] /\ i + 1 \in 1..Len(tx) BY <1>2
  <1>4. Live(tx[i+1]) BY <1>3, Zenon DEF Live
  <1>5. Numbered(tx[i+1]) BY <1>3, <1>4 DEF TxNumbered
  <1> QED BY <1>3, <1>5, Zenon DEF Numbered

\* A step that queues a packet with the headers of the moment, or one that no
\* longer counts.
LEMMA HeaderAppend ==
    ASSUME TypeOK, HeaderInv, RxNumbered', NEW p \in OutPacket, tx' = Append(tx, p),
           Live(p) => /\ p.pos = sentTotal /\ p.at = rcvdTotal'
                      /\ p.seq = sentTotal % SeqMod /\ p.ack = rcvdTotal' % SeqMod,
           rcvdTotal <= rcvdTotal', rcvdTotal' \in Nat, sentTotal' = sentTotal + p.len,
           writerOn, UNCHANGED <<devAckd, devRcvd, up, devOpen, writerOn, cancelled>>,
           closeAll' # "no" => closeAll # "no"
    PROVE  HeaderInv'
  <1>1. rcvdTotal' <= rcvdTotal'
    <2> DEFINE rt == rcvdTotal'
    <2>1. rt \in Nat OBVIOUS
    <2> HIDE DEF rt
    <2>2. rt <= rt BY <2>1, SMT
    <2> QED BY <2>2 DEF rt
  <1>2. TxNumbered' BY <1>1, TxNumberedAppend DEF HeaderInv
  <1>3. \A i \in 1..Len(tx) : Live(tx[i]) => tx[i].at <= rcvdTotal
    BY DEF HeaderInv, TxNumbered, Numbered
  <1>4. up /\ devOpen => Chained' BY <1>3, ChainAppend DEF HeaderInv
  <1>5. StopInv' BY DEF HeaderInv, StopInv
  <1> QED BY <1>2, <1>4, <1>5 DEF HeaderInv

\* A step that leaves the queue, the counters and the device alone.
LEMMA HeaderFrame ==
    ASSUME TypeOK, HeaderInv, UNCHANGED <<tx, received_bytes, rcvdTotal, sentTotal, devAckd, devRcvd>>,
           RxNumbered', (up /\ devOpen /\ writerOn)' => up /\ devOpen /\ writerOn,
           cancelled => cancelled', StopInv'
    PROVE  HeaderInv'
  <1>1. rcvdTotal <= rcvdTotal' /\ rcvdTotal' \in Nat
    <2>1. rcvdTotal \in Nat BY DEF TypeOK
    <2>2. rcvdTotal <= rcvdTotal BY <2>1, SMT
    <2> QED BY <2>1, <2>2
  <1>2. TxNumbered' BY <1>1, TxNumberedFrame DEF HeaderInv
  <1>3. (up /\ devOpen /\ writerOn)' => Chained' BY ChainFrame DEF HeaderInv
  <1> QED BY <1>2, <1>3 DEF HeaderInv

\* The headers of a packet built now.
LEMMA BuiltNow ==
    ASSUME FlowInv, NEW f \in Flags, NEW n \in Nat, NEW rt \in Nat,
           NEW rb \in 0..SeqMod-1, rb = rt % SeqMod
    PROVE  /\ Packet(f, n, rb, rt) \in OutPacket
           /\ Packet(f, n, rb, rt).pos = sentTotal /\ Packet(f, n, rb, rt).at = rt
           /\ Packet(f, n, rb, rt).seq = sentTotal % SeqMod
           /\ Packet(f, n, rb, rt).ack = rt % SeqMod /\ Packet(f, n, rb, rt).len = n
           /\ Packet(f, n, rb, rt).flag = f
  <1>1. Packet(f, n, rb, rt) \in OutPacket BY PacketType DEF FlowInv
  <1> QED BY <1>1 DEF Packet, FlowInv, CountersWrap

\* A step that queues a packet built from the counters as they are.
LEMMA HeaderEnqueue ==
    ASSUME FlowInv, HeaderInv, NEW f \in Flags, NEW n \in Nat,
           tx' = Append(tx, Packet(f, n, received_bytes, rcvdTotal)), sentTotal' = sentTotal + n,
           rx' = rx \/ rx' = <<>>, writerOn,
           UNCHANGED <<received_bytes, rcvdTotal, devAckd, devRcvd, up, devOpen, writerOn, cancelled,
                       closeAll>>
    PROVE  HeaderInv'
  <1>0. TypeOK /\ RxNumbered BY DEF FlowInv, HeaderInv
  <1>1. /\ rcvdTotal \in Nat /\ received_bytes \in 0..SeqMod-1
        /\ received_bytes = rcvdTotal % SeqMod
    BY <1>0 DEF TypeOK, RxNumbered
  <1> DEFINE p == Packet(f, n, received_bytes, rcvdTotal)
  <1>2. /\ p \in OutPacket /\ p.pos = sentTotal /\ p.at = rcvdTotal /\ p.seq = sentTotal % SeqMod
        /\ p.ack = rcvdTotal % SeqMod /\ p.len = n
    BY <1>1, BuiltNow
  <1>3. tx' = Append(tx, p) OBVIOUS
  <1>4. RxNumbered' BY <1>0, RxNumberedFrame
  <1>5. rcvdTotal <= rcvdTotal' /\ rcvdTotal' \in Nat
    <2>1. rcvdTotal <= rcvdTotal BY <1>1, SMT
    <2> QED BY <1>1, <2>1
  <1> HIDE DEF p
  <1> QED BY <1>0, <1>2, <1>3, <1>4, <1>5, HeaderAppend

\* The steps that leave the queue, the counters and the device's end alone.
LEMMA HeaderQuiet == FlowInv /\ HeaderInv /\ (QuietActions \/ DeviceReads \/ UNCHANGED vars) => HeaderInv'
  <1> SUFFICES ASSUME FlowInv, HeaderInv, QuietActions \/ DeviceReads \/ UNCHANGED vars
               PROVE HeaderInv'
    OBVIOUS
  <1> USE DEF connVars, clientVars, deviceVars, stopVars, daemonVars
  <1>0. TypeOK /\ RxNumbered /\ StopInv BY DEF FlowInv, HeaderInv
  <1>1. /\ UNCHANGED <<tx, received_bytes, rcvdTotal, sentTotal, devAckd, devRcvd, rx, writerOn>>
        /\ (up /\ devOpen /\ writerOn)' => up /\ devOpen /\ writerOn
        /\ cancelled => cancelled'
        /\ closeAll' = closeAll \/ cancelled' \/ closeAll # "no"
    <2>1. CASE RecvFails \/ ClientSend \/ ClientSendFails \/ ClientReadEof \/ ClientReadFails
               \/ SendFails \/ WaitShutdown \/ OthersEnqueue \/ OthersWritten \/ ClientWrites
               \/ ClientCloses
      BY <2>1 DEF RecvFails, ClientSend, ClientSendFails, ClientReadEof, ClientReadFails, SendFails,
         WaitShutdown, OthersEnqueue, OthersWritten, ClientWrites, ClientCloses
    <2>2. CASE DeviceRst \/ Unplug \/ ReaderIoError \/ DeviceReads \/ UNCHANGED vars
      BY <2>2 DEF DeviceRst, Unplug, ReaderIoError, DeviceReads, vars
    <2>3. CASE Shutdown \/ CloseAllTake \/ CloseAllBuild
      BY <2>3 DEF Shutdown, CloseAllTake, CloseAllBuild
    <2> QED BY <2>1, <2>2, <2>3 DEF QuietActions
  <1>2. RxNumbered' BY <1>0, <1>1, RxNumberedFrame
  <1>3. StopInv' BY <1>0, <1>1 DEF StopInv
  <1> QED BY <1>0, <1>1, <1>2, <1>3, HeaderFrame

\* rx.recv() with its ACK, or without one.
LEMMA HeaderRecv ==
    FlowInv /\ OrderInv /\ HeaderInv /\ (RecvAcked \/ RecvBlocked \/ RecvAckFails) => HeaderInv'
  <1> SUFFICES ASSUME FlowInv, OrderInv, HeaderInv, RecvAcked \/ RecvBlocked \/ RecvAckFails
               PROVE  HeaderInv'
    OBVIOUS
  <1> USE DEF clientVars, deviceVars, stopVars
  <1>0. TypeOK /\ RxNumbered BY DEF FlowInv, HeaderInv
  <1>1. /\ TakePacket
        /\ UNCHANGED <<clientEnd, devSent, devAckd, devRcvd, devRead, up, devOpen, writerOn, cancelled,
                       closeAll>>
    BY DEF RecvAcked, RecvBlocked, RecvAckFails
  <1>2. rcvdTotal <= rcvdTotal' /\ rcvdTotal' \in Nat BY <1>1, TakeOrder
  <1>3. RxNumbered' BY <1>0, <1>1, RxNumberedTake
  <1>4. sentTotal' = sentTotal BY <1>1 DEF TakePacket
  <1>5. CASE RecvAcked
    <2> DEFINE p == Packet("ACK", 0, received_bytes', rcvdTotal')
    <2>1. received_bytes' = rcvdTotal' % SeqMod BY <1>3 DEF RxNumbered
    <2>2. received_bytes' \in 0..SeqMod-1 BY <1>1, TakeFacts
    <2>3. /\ p \in OutPacket /\ p.pos = sentTotal /\ p.at = rcvdTotal' /\ p.seq = sentTotal % SeqMod
          /\ p.ack = rcvdTotal' % SeqMod /\ p.len = 0
      BY <1>2, <2>1, <2>2, BuiltNow, "ACK" \in Flags, 0 \in Nat DEF Flags
    <2>4. tx' = Append(tx, p) /\ writerOn BY <1>5 DEF RecvAcked, Enqueue
    <2> HIDE DEF p
    <2>5. sentTotal' = sentTotal + p.len
      <3>1. sentTotal = sentTotal + 0 BY <1>0, SMT DEF TypeOK
      <3> QED BY <1>4, <2>3, <3>1
    <2> QED BY <1>0, <1>1, <1>2, <1>3, <2>3, <2>4, <2>5, HeaderAppend
  <1>6. CASE RecvBlocked \/ RecvAckFails
    <2>1. tx' = tx BY <1>6 DEF RecvBlocked, RecvAckFails
    <2>2. TxNumbered' BY <1>0, <1>1, <1>2, <2>1, TxNumberedFrame DEF HeaderInv
    <2>3. up /\ devOpen /\ writerOn => Chained' BY <1>0, <1>1, <1>2, <1>4, <2>1, ChainTaken DEF HeaderInv
    <2>4. StopInv' BY <1>1, <2>1 DEF HeaderInv, StopInv
    <2> QED BY <1>1, <1>3, <2>2, <2>3, <2>4 DEF HeaderInv
  <1> QED BY <1>5, <1>6

\* The writer loop writes a packet, or fails to.
LEMMA HeaderWriter == FlowInv /\ HeaderInv /\ WriterStep => HeaderInv'
  <1> SUFFICES ASSUME FlowInv, HeaderInv, WriterStep PROVE HeaderInv' OBVIOUS
  <1> USE DEF connVars, stopVars
  <1>0. TypeOK /\ RxNumbered /\ TxNumbered /\ StopInv BY DEF FlowInv, HeaderInv
  <1>1. /\ writerOn /\ tx # <<>> /\ tx' = Tail(tx) /\ tx \in Seq(OutPacket)
        /\ UNCHANGED <<received_bytes, rcvdTotal, sentTotal, rx, writerOn, cancelled, closeAll>>
    BY <1>0 DEF WriterStep, TypeOK
  <1>2. Head(tx) = tx[1] /\ 1 \in 1..Len(tx) BY <1>1, TailFacts
  <1>3. RxNumbered' BY <1>0, <1>1, RxNumberedFrame
  <1>4. TxNumbered' BY <1>0, <1>1, TxNumberedTail
  <1>5. StopInv' BY <1>0, <1>1 DEF StopInv
  <1>6. CASE up /\ devOpen
    <2>1. DeviceTakes(tx[1]) BY <1>2, <1>6 DEF WriterStep
    <2>2. Chained BY <1>1, <1>6 DEF HeaderInv
    <2>3. CASE tx[1].flag = "RST"
      <3>1. ~devOpen' BY <2>1, <2>3, Zenon DEF DeviceTakes
      <3> QED BY <1>3, <1>4, <1>5, <3>1 DEF HeaderInv
    <2>4. CASE tx[1].flag # "RST"
      <3>1. tx[1].at <= rcvdTotal BY <1>0, <1>2, <2>4 DEF TxNumbered, Live, Numbered
      <3>2. devRcvd' = devRcvd + tx[1].len /\ devAckd' = tx[1].at BY <2>1 DEF DeviceTakes
      <3>3. Chained' BY <1>0, <1>1, <2>2, <2>4, <3>1, <3>2, ChainTail
      <3> QED BY <1>3, <1>4, <1>5, <3>3 DEF HeaderInv
    <2> QED BY <2>3, <2>4
  <1>7. CASE ~(up /\ devOpen)
    <2>1. ~(up /\ devOpen)' BY <1>7 DEF WriterStep, deviceVars
    <2> QED BY <1>3, <1>4, <1>5, <2>1 DEF HeaderInv
  <1> QED BY <1>6, <1>7

\* Every step keeps the headers right.
LEMMA HeaderStep == FlowInv /\ OrderInv /\ HeaderInv /\ [Next]_vars => HeaderInv'
  <1> SUFFICES ASSUME FlowInv, OrderInv, HeaderInv, [Next]_vars PROVE HeaderInv' OBVIOUS
  <1> USE DEF clientVars, deviceVars, stopVars, daemonVars
  <1>0. TypeOK /\ RxNumbered /\ TxNumbered /\ StopInv BY DEF FlowInv, HeaderInv
  <1>1. sentTotal = sentTotal + 0 /\ outLen \in Nat /\ "ACK" \in Flags /\ "RST" \in Flags /\ 0 \in Nat
    BY <1>0, SMT DEF TypeOK, Flags
  <1>2. CASE QuietActions \/ DeviceReads \/ UNCHANGED vars BY <1>2, HeaderQuiet
  <1>3. CASE RecvAcked \/ RecvBlocked \/ RecvAckFails BY <1>3, HeaderRecv
  <1>4. CASE WriterStep BY <1>4, HeaderWriter
  <1>5. CASE AckResumes
    <2>1. /\ tx' = Append(tx, Packet("ACK", 0, received_bytes, rcvdTotal)) /\ writerOn
          /\ rx' = rx /\ sentTotal' = sentTotal + 0
          /\ UNCHANGED <<received_bytes, rcvdTotal, devAckd, devRcvd, up, devOpen, writerOn, cancelled,
                         closeAll>>
      BY <1>1, <1>5 DEF AckResumes, Enqueue
    <2> QED BY <1>1, <2>1, HeaderEnqueue
  <1>6. CASE SendBytes
    <2>1. /\ tx' = Append(tx, Packet("ACK", outLen, received_bytes, rcvdTotal)) /\ writerOn
          /\ rx' = rx /\ sentTotal' = sentTotal + outLen
          /\ UNCHANGED <<received_bytes, rcvdTotal, devAckd, devRcvd, up, devOpen, writerOn, cancelled,
                         closeAll>>
      BY <1>6 DEF SendBytes, Enqueue
    <2> QED BY <1>1, <2>1, HeaderEnqueue
  <1>7. CASE Close
    <2>1. /\ tx' = Append(tx, Packet("RST", 0, received_bytes, rcvdTotal)) /\ writerOn
          /\ rx' = rx /\ sentTotal' = sentTotal + 0
          /\ UNCHANGED <<received_bytes, rcvdTotal, devAckd, devRcvd, up, devOpen, writerOn, cancelled,
                         closeAll>>
      BY <1>1, <1>7 DEF Close, Enqueue, connVars
    <2> QED BY <1>1, <2>1, HeaderEnqueue
  <1>8. CASE DropConn
    <2>0. /\ rx' = <<>> /\ sentTotal' = sentTotal
          /\ UNCHANGED <<received_bytes, rcvdTotal, devAckd, devRcvd, up, devOpen, writerOn, cancelled,
                         closeAll>>
      BY <1>8 DEF DropConn, connVars
    <2>1. CASE ~dropped /\ writerOn /\ ~Full
      <3>1. tx' = Append(tx, Packet("RST", 0, received_bytes, rcvdTotal)) /\ writerOn
        BY <1>8, <2>1 DEF DropConn, Enqueue
      <3>2. sentTotal' = sentTotal + 0 BY <1>1, <2>0
      <3> QED BY <1>1, <2>0, <3>1, <3>2, HeaderEnqueue
    <2>2. CASE ~(~dropped /\ writerOn /\ ~Full)
      <3>1. tx' = tx BY <1>8, <2>2 DEF DropConn
      <3>2. RxNumbered' BY <1>0, <2>0, RxNumberedFrame
      <3>3. StopInv' BY <1>0, <2>0, <3>1 DEF StopInv
      <3> QED BY <1>0, <2>0, <3>1, <3>2, <3>3, HeaderFrame
    <2> QED BY <2>1, <2>2
  <1>9. CASE CloseAllRst
    <2>0. /\ rx' = rx /\ sentTotal' = sentTotal /\ closeAll # "no" /\ cancelled
          /\ UNCHANGED <<received_bytes, rcvdTotal, devAckd, devRcvd, up, devOpen, writerOn, cancelled>>
      BY <1>0, <1>9 DEF CloseAllRst, connVars, StopInv
    <2>1. RxNumbered' BY <1>0, <2>0, RxNumberedFrame
    <2>2. CASE writerOn
      <3>1. tx' = Append(tx, rst) BY <1>9, <2>2 DEF CloseAllRst, Enqueue
      <3>2. rst \in RstPacket BY <1>0 DEF TypeOK
      <3>3. rst \in OutPacket /\ rst.flag = "RST" /\ rst.len = 0
        BY <3>2, SMT DEF RstPacket, OutPacket, Flags
      <3>4. ~Live(rst) BY <2>0, <3>3 DEF Live
      <3>5. rcvdTotal <= rcvdTotal' /\ rcvdTotal' \in Nat
        <4>1. rcvdTotal \in Nat BY <1>0 DEF TypeOK
        <4>2. rcvdTotal <= rcvdTotal BY <4>1, SMT
        <4> QED BY <2>0, <4>1, <4>2
      <3>6. sentTotal' = sentTotal + rst.len BY <1>1, <2>0, <3>3
      <3> QED BY <1>0, <2>0, <2>1, <2>2, <3>1, <3>3, <3>4, <3>5, <3>6, HeaderAppend
    <2>3. CASE ~writerOn
      <3>1. tx' = tx BY <1>9, <2>3 DEF CloseAllRst
      <3>2. StopInv' BY <1>0, <2>0, <3>1 DEF StopInv
      <3> QED BY <1>0, <2>0, <2>1, <3>1, <3>2, HeaderFrame
    <2> QED BY <2>2, <2>3
  <1>10. CASE ClientReadBuffered \/ ClientReadSocket
    <2>1. /\ UNCHANGED <<tx, received_bytes, rcvdTotal, sentTotal, devAckd, devRcvd, rx, writerOn, up,
                         devOpen, cancelled, closeAll>>
      BY <1>10 DEF ClientReadBuffered, ClientReadSocket, connVars
    <2>2. RxNumbered' BY <1>0, <2>1, RxNumberedFrame
    <2>3. StopInv' BY <1>0, <2>1 DEF StopInv
    <2> QED BY <1>0, <2>1, <2>2, <2>3, HeaderFrame
  <1>11. CASE WriterStops
    <2>1. /\ tx' = <<>> /\ ~writerOn' /\ UNCHANGED <<received_bytes, rcvdTotal, rx, cancelled, closeAll>>
      BY <1>11 DEF WriterStops, connVars
    <2>2. RxNumbered' BY <1>0, <2>1, RxNumberedFrame
    <2>3. TxNumbered'
      <3>1. Len(tx') = 0 BY <2>1
      <3> QED BY <3>1, SMT DEF TxNumbered
    <2>4. StopInv' BY <1>0, <2>1 DEF StopInv
    <2> QED BY <2>1, <2>2, <2>3, <2>4 DEF HeaderInv
  <1>12. CASE \E len \in 0..MaxIn, win \in 0..(DevBuf \div WinUnit) : DeviceSend(len, win)
    <2>1. PICK len \in 0..MaxIn, win \in 0..(DevBuf \div WinUnit) : DeviceSend(len, win) BY <1>12
    <2>2. RxNumbered' BY <1>0, <2>1, RxNumberedSend
    <2>3. /\ UNCHANGED <<tx, received_bytes, rcvdTotal, sentTotal, devAckd, devRcvd, writerOn, up,
                         devOpen, cancelled, closeAll>>
      BY <2>1 DEF DeviceSend, connVars
    <2>4. StopInv' BY <1>0, <2>3 DEF StopInv
    <2> QED BY <1>0, <2>2, <2>3, <2>4, HeaderFrame
  <1> QED BY <1>2, <1>3, <1>4, <1>5, <1>6, <1>7, <1>8, <1>9, <1>10, <1>11, <1>12
          DEF Next, TaskNext, DeviceNext, LoopNext, QuietActions

------------------------------------------------------------------------------
(* Dropped connections.                                                      *)

\* A reset is queued.
RstQueue == \E i \in 1..Len(tx) : tx[i].flag = "RST"

\* A packet joins the queue: a reset that was there stays there.
LEMMA ResetAppend ==
    ASSUME TypeOK, NEW p \in OutPacket, tx' = Append(tx, p), RstQueue \/ p.flag = "RST"
    PROVE  RstQueue'
  <1>1. tx \in Seq(OutPacket) /\ Len(tx) \in Nat BY DEF TypeOK
  <1>2. /\ Len(tx') = Len(tx) + 1 /\ \A i \in 1..Len(tx) : tx'[i] = tx[i]
        /\ tx'[Len(tx) + 1] = p
    BY <1>1, AppendFacts
  <1>3. /\ Len(tx) + 1 \in 1..Len(tx') /\ \A i \in 1..Len(tx) : i \in 1..Len(tx')
    BY <1>1, <1>2, SMT
  <1> QED BY <1>2, <1>3 DEF RstQueue

\* Another packet leaves the queue.
LEMMA ResetTail ==
    ASSUME TypeOK, tx # <<>>, tx' = Tail(tx), RstQueue, tx[1].flag # "RST"
    PROVE  RstQueue'
  <1>1. tx \in Seq(OutPacket) BY DEF TypeOK
  <1>2. /\ Len(tx') = Len(tx) - 1 /\ Len(tx) \in Nat \ {0}
        /\ \A i \in 1..Len(tx') : tx'[i] = tx[i+1]
    BY <1>1, TailFacts
  <1>3. PICK i \in 1..Len(tx) : tx[i].flag = "RST" BY DEF RstQueue
  <1> DEFINE n == Len(tx)
             m == Len(tx')
  <1>4. n \in Nat /\ m = n - 1 /\ i \in 1..n /\ i # 1 BY <1>2, <1>3
  <1> HIDE DEF n, m
  <1>5. i - 1 \in 1..m /\ (i - 1) + 1 = i BY <1>4, SMT
  <1>6. i - 1 \in 1..Len(tx') BY <1>5 DEF m
  <1>7. tx'[i-1] = tx[i] BY <1>2, <1>5, <1>6
  <1> QED BY <1>3, <1>6, <1>7 DEF RstQueue

\* Every step: dropped is set together with the RST.
LEMMA DropStep == FlowInv /\ HeaderInv /\ DroppedMeansReset /\ [Next]_vars => DroppedMeansReset'
  <1> SUFFICES ASSUME FlowInv, HeaderInv, DroppedMeansReset, [Next]_vars PROVE DroppedMeansReset'
    OBVIOUS
  <1> USE DEF clientVars, deviceVars, stopVars, daemonVars
  <1>0. TypeOK BY DEF FlowInv
  <1>1. dropped /\ up /\ writerOn => ~devOpen \/ RstQueue BY DEF DroppedMeansReset, RstQueue
  <1> SUFFICES (dropped /\ up /\ writerOn)' => ~devOpen' \/ RstQueue'
    BY DEF DroppedMeansReset, RstQueue
  <1>2. CASE \/ QuietActions \/ DeviceReads \/ RecvBlocked \/ RecvAckFails \/ ClientReadBuffered
             \/ ClientReadSocket \/ UNCHANGED vars
             \/ \E len \in 0..MaxIn, win \in 0..(DevBuf \div WinUnit) : DeviceSend(len, win)
    <2>1. UNCHANGED <<tx, dropped, writerOn>> /\ (up' => up) /\ (devOpen' => devOpen)
      <3>1. CASE RecvFails \/ ClientSend \/ ClientSendFails \/ ClientReadEof \/ ClientReadFails
                 \/ SendFails \/ WaitShutdown \/ OthersEnqueue \/ OthersWritten \/ ClientWrites
                 \/ ClientCloses \/ RecvBlocked \/ RecvAckFails \/ ClientReadBuffered
                 \/ ClientReadSocket
        BY <3>1 DEF RecvFails, ClientSend, ClientSendFails, ClientReadEof, ClientReadFails, SendFails,
           WaitShutdown, OthersEnqueue, OthersWritten, ClientWrites, ClientCloses, RecvBlocked,
           RecvAckFails, ClientReadBuffered, ClientReadSocket
      <3>2. CASE DeviceRst \/ Unplug \/ ReaderIoError \/ DeviceReads \/ UNCHANGED vars
                 \/ \E len \in 0..MaxIn, win \in 0..(DevBuf \div WinUnit) : DeviceSend(len, win)
        <4>1. CASE DeviceRst BY <4>1, Zenon DEF DeviceRst
        <4>2. CASE Unplug BY <4>2, Zenon DEF Unplug
        <4>3. CASE ReaderIoError \/ DeviceReads \/ UNCHANGED vars
          BY <4>3 DEF ReaderIoError, DeviceReads, vars
        <4>4. CASE \E len \in 0..MaxIn, win \in 0..(DevBuf \div WinUnit) : DeviceSend(len, win)
          BY <4>4, Zenon DEF DeviceSend
        <4> QED BY <3>2, <4>1, <4>2, <4>3, <4>4
      <3>3. CASE Shutdown \/ CloseAllTake \/ CloseAllBuild
        BY <3>3 DEF Shutdown, CloseAllTake, CloseAllBuild
      <3> QED BY <1>2, <3>1, <3>2, <3>3 DEF QuietActions
    <2> QED BY <1>1, <2>1 DEF RstQueue
  <1>3. CASE RecvAcked \/ AckResumes \/ SendBytes \/ Close \/ (DropConn /\ ~dropped /\ writerOn /\ ~Full)
             \/ (CloseAllRst /\ writerOn)
    <2>1. \E p \in OutPacket :
             /\ tx' = Append(tx, p)
             /\ dropped' => dropped \/ p.flag = "RST"
      <3>0. /\ 0 \in Nat /\ outLen \in Nat /\ received_bytes \in 0..SeqMod-1 /\ rcvdTotal \in Nat
            /\ "ACK" \in Flags /\ "RST" \in Flags
        BY <1>0, SMT DEF TypeOK, Flags
      <3>1. CASE RecvAcked
        <4>1. TakePacket /\ UNCHANGED <<devRcvd, devRead>> BY <3>1 DEF RecvAcked
        <4>2. received_bytes' \in 0..SeqMod-1 /\ rcvdTotal' \in Nat BY <4>1, TakeFacts
        <4>3. Packet("ACK", 0, received_bytes', rcvdTotal') \in OutPacket BY <1>0, <3>0, <4>2, PacketType
        <4> QED BY <3>1, <4>3 DEF RecvAcked, Enqueue
      <3>2. CASE AckResumes
        <4>1. Packet("ACK", 0, received_bytes, rcvdTotal) \in OutPacket BY <1>0, <3>0, PacketType
        <4> QED BY <3>2, <4>1 DEF AckResumes, Enqueue
      <3>3. CASE SendBytes
        <4>1. Packet("ACK", outLen, received_bytes, rcvdTotal) \in OutPacket BY <1>0, <3>0, PacketType
        <4> QED BY <3>3, <4>1 DEF SendBytes, Enqueue
      <3>4. CASE Close \/ (DropConn /\ ~dropped /\ writerOn /\ ~Full)
        <4> DEFINE p == Packet("RST", 0, received_bytes, rcvdTotal)
        <4>1. p \in OutPacket BY <1>0, <3>0, PacketType
        <4>2. p.flag = "RST" BY DEF Packet
        <4>3. tx' = Append(tx, p) BY <3>4 DEF Close, DropConn, Enqueue
        <4> HIDE DEF p
        <4> QED BY <4>1, <4>2, <4>3
      <3>5. CASE CloseAllRst /\ writerOn
        <4>1. rst \in OutPacket /\ rst.flag = "RST"
          <5>1. rst \in RstPacket BY <1>0 DEF TypeOK
          <5> QED BY <5>1, SMT DEF RstPacket, OutPacket, Flags
        <4> QED BY <3>5, <4>1 DEF CloseAllRst, Enqueue
      <3> QED BY <1>3, <3>1, <3>2, <3>3, <3>4, <3>5
    <2>2. UNCHANGED <<up, devOpen, writerOn>>
      BY <1>3 DEF RecvAcked, AckResumes, SendBytes, Close, DropConn, CloseAllRst
    <2>3. PICK p \in OutPacket : tx' = Append(tx, p) /\ (dropped' => dropped \/ p.flag = "RST")
      BY <2>1
    <2>4. RstQueue \/ p.flag = "RST" => RstQueue' BY <1>0, <2>3, ResetAppend
    <2> QED BY <1>1, <2>2, <2>3, <2>4
  <1>4. CASE (DropConn /\ ~(~dropped /\ writerOn /\ ~Full)) \/ (CloseAllRst /\ ~writerOn)
    <2>1. UNCHANGED <<tx, dropped, up, devOpen, writerOn>>
      BY <1>4 DEF DropConn, CloseAllRst
    <2> QED BY <1>1, <2>1 DEF RstQueue
  <1>5. CASE WriterStep
    <2>1. /\ tx # <<>> /\ tx' = Tail(tx) /\ UNCHANGED <<dropped, writerOn>> /\ tx \in Seq(OutPacket)
      BY <1>0, <1>5 DEF WriterStep, TypeOK
    <2>2. Head(tx) = tx[1] BY <2>1, TailFacts
    <2>3. CASE up /\ devOpen
      <3>1. DeviceTakes(tx[1]) BY <1>5, <2>2, <2>3 DEF WriterStep
      <3>2. CASE tx[1].flag = "RST"
        <4>1. ~devOpen' BY <3>1, <3>2, Zenon DEF DeviceTakes
        <4> QED BY <4>1
      <3>3. CASE tx[1].flag # "RST" BY <1>0, <1>1, <2>1, <2>3, <3>3, ResetTail
      <3> QED BY <3>2, <3>3
    <2>4. CASE ~(up /\ devOpen)
      BY <1>5, <2>4 DEF WriterStep
    <2> QED BY <2>3, <2>4
  <1>6. CASE WriterStops BY <1>6 DEF WriterStops
  <1> QED BY <1>2, <1>3, <1>4, <1>5, <1>6
          DEF Next, TaskNext, DeviceNext, LoopNext, QuietActions

------------------------------------------------------------------------------
(* The theorems.                                                             *)

\* The handshake leaves a state in which the invariant holds.
LEMMA StreamsInit == Init => StreamsInv
  <1> SUFFICES ASSUME Init PROVE StreamsInv OBVIOUS
  <1>1. FlowInv BY FlowInit
  <1>2. Len(rx) = 0 /\ Len(tx) = 0 BY DEF Init
  <1>3. BytesInv BY SMT DEF Init, BytesInv, ClientBytesAccounted
  <1>4. OrderInv BY <1>2, SMT DEF Init, OrderInv, RxOrdered, HeldOrdered
  <1>5. HeaderInv BY <1>2, SMT DEF Init, HeaderInv, StopInv, RxNumbered, TxNumbered, Chained
  <1>6. DroppedMeansReset BY DEF Init, DroppedMeansReset
  <1> QED BY <1>1, <1>3, <1>4, <1>5, <1>6 DEF StreamsInv

\* The inductive invariant holds in every reachable state.
THEOREM StreamsInvariant == Spec => []StreamsInv
  <1>1. StreamsInv /\ [Next]_vars => StreamsInv'
    BY FlowStep, BytesStep, OrderStep, HeaderStep, DropStep DEF StreamsInv
  <1> QED BY <1>1, StreamsInit, PTL DEF Spec

\* client_read and send_bytes lose and invent no byte of the client: what the task
\* read is sent, being sent or in read_buf, whatever window cuts a read short.
THEOREM BytesAccounted == Spec => []ClientBytesAccounted
  <1>1. StreamsInv => ClientBytesAccounted BY DEF StreamsInv, BytesInv
  <1> QED BY <1>1, StreamsInvariant, PTL

\* Whatever receives are cancelled, the client is never handed a byte of the device
\* twice or out of order.
THEOREM StreamOrdered == Spec => []ClientStreamOrdered
  <1>1. StreamsInv => ClientStreamOrdered
    <2> SUFFICES ASSUME StreamsInv, pc \in {"ack", "forward"}, held.len > 0
                 PROVE  held.pos >= clientEnd
      BY DEF ClientStreamOrdered
    <2>1. clientEnd <= held.pos BY DEF StreamsInv, OrderInv, HeldOrdered
    <2>2. clientEnd \in Nat /\ held.pos \in Nat BY DEF StreamsInv, FlowInv, TypeOK
    <2> QED BY <2>1, <2>2, SMT
  <1> QED BY <1>1, StreamsInvariant, PTL

\* Every packet that reaches the device continues the stream where the device is
\* and acknowledges what it has sent, however the u32 counters wrap.
THEOREM HeadersMatch == Spec => []HeadersMatchStreams
  <1>1. StreamsInv => HeadersMatchStreams
    <2> SUFFICES ASSUME StreamsInv, tx # <<>>, up, devOpen, Head(tx).flag = "RST" => ~cancelled
                 PROVE  /\ Head(tx).pos = devRcvd /\ Head(tx).seq = devRcvd % SeqMod
                        /\ Head(tx).ack = Head(tx).at % SeqMod
                        /\ devAckd <= Head(tx).at /\ Head(tx).at <= devSent
      BY DEF HeadersMatchStreams
    <2>1. tx \in Seq(OutPacket) /\ rcvdTotal \in Nat /\ devSent \in Nat
      BY DEF StreamsInv, FlowInv, TypeOK
    <2>2. Head(tx) = tx[1] /\ 1 \in 1..Len(tx) BY <2>1, TailFacts
    <2>3. Live(tx[1]) BY <2>2 DEF Live
    <2>4. writerOn BY DEF StreamsInv, HeaderInv, StopInv
    <2>5. Chained BY <2>4 DEF StreamsInv, HeaderInv
    <2>6. tx[1].pos = devRcvd /\ devAckd <= tx[1].at BY <2>2, <2>3, <2>5 DEF Chained
    <2>7. Numbered(tx[1]) BY <2>2, <2>3 DEF StreamsInv, HeaderInv, TxNumbered
    <2>8. tx[1].at <= devSent
      <3>1. tx[1].at <= rcvdTotal BY <2>7 DEF Numbered
      <3>2. rcvdTotal <= devSent BY DEF StreamsInv, OrderInv, RxOrdered
      <3>3. tx[1].at \in Nat BY <2>1, <2>2, OutFields
      <3> QED BY <2>1, <3>1, <3>2, <3>3, SMT
    <2> QED BY <2>2, <2>6, <2>7, <2>8 DEF Numbered
  <1> QED BY <1>1, StreamsInvariant, PTL

\* set_dropped is only called once the device is, or is about to be, reset: Drop
\* never keeps quiet about a connection the device still believes in.
THEOREM DroppedIsReset == Spec => []DroppedMeansReset
  <1>1. StreamsInv => DroppedMeansReset BY DEF StreamsInv
  <1> QED BY <1>1, StreamsInvariant, PTL
=============================================================================
