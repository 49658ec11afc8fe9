--------------------------- MODULE UsbDevice_proofs ---------------------------
(***************************************************************************)
(* The router, the handshakes and the shutdown, proved for any number of    *)
(* connections, ports and channel slots: a connect keeps its device, routes *)
(* are taken by nobody but the device, and no connection is half open.      *)
(***************************************************************************)
EXTENDS UsbDevice, FiniteSetTheorems, TLAPS

\* The inductive invariant: connects hold guards only on a device in the table, and
\* a device in the table is shut down only when the daemon is stopped.
PinInv ==
    /\ pc \in [Conns -> Pcs]
    /\ Guards # {} => table
    /\ table /\ cancelled => Exits

\* A step that adds no guard and leaves the table and the token alone.
LEMMA NoNewGuard ==
    ASSUME PinInv, pc' \in [Conns -> Pcs], Guards' \subseteq Guards,
           UNCHANGED <<table, cancelled>>
    PROVE  PinInv'
  BY DEF PinInv

\* A step of one connection that does not start a connect.
LEMMA OneConnStep ==
    ASSUME PinInv, NEW c \in Conns, NEW to \in Pcs, pc' = [pc EXCEPT ![c] = to],
           to \in HandshakePcs \cup {"reg", "probe", "unreg"} =>
               c \notin Daemon \/ pc[c] \in HandshakePcs \cup {"reg", "probe", "unreg"},
           UNCHANGED <<table, cancelled>>
    PROVE  PinInv'
  <1>1. pc \in [Conns -> Pcs] BY DEF PinInv
  <1>2. pc' \in [Conns -> Pcs] BY <1>1
  <1>3. Daemon \subseteq Conns BY DEF Conns
  <1>4. Guards' \subseteq Guards BY <1>1, <1>3 DEF Guards
  <1> QED BY <1>2, <1>4, NoNewGuard

\* Connections: only ConnectStart adds a guard, and it needs the table entry.
LEMMA ConnStepPins == ASSUME PinInv, NEW c \in Conns, ConnNext(c) PROVE PinInv'
  <1> USE DEF stopVars, Pcs, HandshakePcs
  <1>1. pc \in [Conns -> Pcs] BY DEF PinInv
  <1>2. CASE ConnectStart(c)
    <2>1. pc' \in [Conns -> Pcs] BY <1>1, <1>2 DEF ConnectStart
    <2>2. UNCHANGED <<table, cancelled>> BY <1>2 DEF ConnectStart
    <2>3. CASE c \in Daemon
      <3>1. table BY <1>2, <2>3 DEF ConnectStart
      <3> QED BY <2>1, <2>2, <3>1 DEF PinInv
    <2>4. CASE c \notin Daemon
      BY <1>2, <2>2, <2>4, OneConnStep DEF ConnectStart
    <2> QED BY <2>3, <2>4
  <1>3. CASE Probe(c)
    <2>1. UNCHANGED <<table, cancelled>> BY <1>3 DEF Probe
    <2>2. pc' = pc \/ pc' = [pc EXCEPT ![c] = "syn"] BY <1>3 DEF Probe
    <2>3. pc' = pc => PinInv' BY <1>1, <2>1, NoNewGuard DEF Guards
    <2>4. pc[c] = "probe" BY <1>3 DEF Probe
    <2> QED BY <2>1, <2>2, <2>3, <2>4, OneConnStep
  <1>4. CASE ProbeFails(c) BY <1>4, OneConnStep DEF ProbeFails
  <1>5. CASE SendSyn(c) BY <1>5, OneConnStep DEF SendSyn
  <1>6. CASE RecvSynAck(c) BY <1>6, OneConnStep DEF RecvSynAck
  <1>7. CASE SendAck(c) BY <1>7, OneConnStep DEF SendAck
  <1>8. CASE Attach(c) BY <1>8, OneConnStep DEF Attach
  <1>9. CASE HandshakeFails(c)
    <2>1. pc[c] \in {"wait", "syn", "ack"} BY <1>9 DEF HandshakeFails
    <2>2. /\ UNCHANGED <<table, cancelled>>
          /\ pc' = [pc EXCEPT ![c] = "unreg"] \/ pc' = [pc EXCEPT ![c] = "end"]
      BY <1>9 DEF HandshakeFails
    <2> QED BY <2>1, <2>2, OneConnStep
  <1>10. CASE Unregister(c) BY <1>10, OneConnStep DEF Unregister
  <1>11. CASE EndOpen(c) BY <1>11, OneConnStep DEF EndOpen
  <1>12. CASE DropConn(c) BY <1>12, OneConnStep DEF DropConn
  <1>13. CASE Close(c) BY <1>13, OneConnStep DEF Close
  <1>14. CASE Abandon(c) BY <1>14, OneConnStep DEF Abandon
  <1>15. CASE Send(c)
    <2>1. UNCHANGED <<pc, table, cancelled>> BY <1>15 DEF Send, connVars
    <2> QED BY <1>1, <2>1, NoNewGuard DEF Guards
  <1>16. CASE CleanupDead(c) BY <1>16, OneConnStep DEF CleanupDead
  <1>17. CASE Recv(c)
    <2>1. /\ UNCHANGED <<table, cancelled>>
          /\ pc' = [pc EXCEPT ![c] = "write"] \/ pc' = [pc EXCEPT ![c] = "open"]
      BY <1>17 DEF Recv
    <2> QED BY <2>1, OneConnStep
  <1>18. CASE ClientReads(c) BY <1>18, OneConnStep DEF ClientReads
  <1> QED
    BY <1>2, <1>3, <1>4, <1>5, <1>6, <1>7, <1>8, <1>9, <1>10, <1>11, <1>12, <1>13, <1>14, <1>15,
       <1>16, <1>17, <1>18
    DEF ConnNext, TaskStep

\* Steps of the loops, of the device and of a shutdown under way.
LEMMA LoopStepPins ==
    ASSUME PinInv,
           \/ ReaderStep \/ WriterStep \/ WriterStops \/ Hotplug \/ Unplug \/ PreflightDone
           \/ RemoveUnknown \/ CloseAllTake \/ (\E c \in Conns : CloseAllRst(c))
           \/ ShutdownReturns \/ DropDevice
           \/ (\E p \in Ports : DeviceData(p) \/ DeviceResets(p))
           \/ UNCHANGED vars
    PROVE  PinInv'
  <1>1. UNCHANGED <<pc, table, cancelled>>
    BY DEF ReaderStep, ReaderRst, ReaderRoute, ReaderSends, ReaderSendFails, ReaderUnregisters,
           ReaderReports, ReaderClears, ReaderStops, WriterStep,
           WriterStops, Hotplug, Unplug, PreflightDone, RemoveUnknown, CloseAllTake, CloseAllRst,
           ShutdownReturns, DropDevice, DeviceData, DeviceResets, connVars, stopVars, vars
  <1>2. pc \in [Conns -> Pcs] BY DEF PinInv
  <1> QED BY <1>1, <1>2, NoNewGuard DEF Guards

\* The preflight task owns no guard.
LEMMA PreflightPins == PinInv /\ PreflightCancelled => PinInv'
  <1> SUFFICES ASSUME PinInv, PreflightCancelled PROVE PinInv' OBVIOUS
  <1>1. pc \in [Conns -> Pcs] BY DEF PinInv
  <1>2. UNCHANGED <<table, cancelled>> BY DEF PreflightCancelled
  <1>3. pc' \in [Conns -> Pcs] BY <1>1 DEF PreflightCancelled, Pcs
  <1>4. \A c \in Daemon : c \in Conns /\ c \notin Provider
    BY DeviceAssumption DEF Conns
  <1>5. Guards' \subseteq Guards BY <1>1, <1>4 DEF PreflightCancelled, Guards
  <1> QED BY <1>2, <1>3, <1>5, NoNewGuard

\* remove_device takes the device when nobody holds a guard; cleanup needs Exits.
LEMMA StopPins == PinInv /\ (RemoveDevice \/ Cleanup) => PinInv'
  <1> SUFFICES ASSUME PinInv, RemoveDevice \/ Cleanup PROVE PinInv' OBVIOUS
  <1>1. CASE RemoveDevice
    <2>1. pc' = pc /\ Guards = {} /\ table' = FALSE BY <1>1 DEF RemoveDevice, connVars
    <2>2. Guards' = {} BY <2>1 DEF Guards
    <2> QED BY <2>1, <2>2 DEF PinInv
  <1>2. CASE Cleanup
    <2>1. pc' = pc /\ Exits /\ table' = table /\ table BY <1>2 DEF Cleanup, connVars
    <2> QED BY <2>1 DEF PinInv, Guards
  <1> QED BY <1>1, <1>2

\* A daemon connect, wherever it waits, has its device in the table and not shut
\* down unless the daemon is being stopped: the guard of handler::connect pins it.
THEOREM PinsDevice == Spec => []ConnectPinsDevice
  <1>1. Init => PinInv
    <2> SUFFICES ASSUME Init PROVE PinInv OBVIOUS
    <2>1. pc \in [Conns -> Pcs] BY DEF Init, Pcs
    <2>2. Guards = {} BY DEF Init, Guards, HandshakePcs, Conns
    <2> QED BY <2>1, <2>2 DEF Init, PinInv
  <1>2. PinInv /\ [Next]_vars => PinInv'
    <2> SUFFICES ASSUME PinInv, [Next]_vars PROVE PinInv' OBVIOUS
    <2>1. CASE \E c \in Conns : ConnNext(c) BY <2>1, ConnStepPins
    <2>2. CASE PreflightCancelled BY <2>2, PreflightPins
    <2>3. CASE RemoveDevice \/ Cleanup BY <2>3, StopPins
    <2> QED BY <2>1, <2>2, <2>3, LoopStepPins DEF Next, StopStep
  <1>3. PinInv => ConnectPinsDevice BY DEF PinInv, ConnectPinsDevice
  <1> QED BY <1>1, <1>2, <1>3, PTL DEF Spec

------------------------------------------------------------------------------
(* Types.                                                                    *)

TxPackets   == Packets({"SYN", "ACK", "RST"})
WirePackets == Packets({"SYNACK", "DATA", "RST"})

\* A connection past register has a port, also while close_all holds it.
PortInv ==
    \A c \in Conns : pc[c] \notin {"idle", "reg", "probe", "end"} \/ c \in toReset => port[c] \in Ports

\* The packet that route() handles is in hand, and it is no RST.
HandInv == InRoute => wire # <<>> /\ Incoming.flag # "RST"

TypeInv == TypeOK /\ PortInv

\* A packet of a connection that has a port, in a writer channel that has room.
LEMMA EnqueueTypes ==
    ASSUME TypeOK, NEW c \in Conns, NEW flag \in {"SYN", "ACK", "RST"}, port[c] \in Ports, ~Full,
           Enqueue(c, flag)
    PROVE  tx' \in Seq(TxPackets) /\ Len(tx') <= TxCap
  <1> DEFINE k == [port |-> port[c], flag |-> flag, own |-> c]
  <1>1. k \in TxPackets BY DEF TxPackets, Packets
  <1>2. tx \in Seq(TxPackets) /\ TxCap \in Nat BY DeviceAssumption DEF TypeOK, TxPackets
  <1>3. tx' = Append(tx, k) /\ Len(tx) < TxCap BY <1>2 DEF Enqueue, Full
  <1> HIDE DEF k
  <1>4. Append(tx, k) \in Seq(TxPackets) /\ Len(Append(tx, k)) = Len(tx) + 1 BY <1>1, <1>2
  <1>5. Len(tx) + 1 <= TxCap BY <1>2, <1>3
  <1> QED BY <1>3, <1>4, <1>5

\* A packet of the device, when it has room for one more.
LEMMA ReplyTypes ==
    ASSUME TypeOK, NEW p \in Ports, NEW flag \in {"SYNACK", "DATA", "RST"}, NEW c \in Conns,
           DeviceReplies(p, flag, c)
    PROVE  wire' \in Seq(WirePackets) /\ Len(wire') <= WireCap
  <1> DEFINE k == [port |-> p, flag |-> flag, own |-> c]
  <1>1. k \in WirePackets BY DEF WirePackets, Packets
  <1>2. wire \in Seq(WirePackets) /\ WireCap \in Nat BY DeviceAssumption DEF TypeOK, WirePackets
  <1>3. wire' = Append(wire, k) /\ Len(wire) < WireCap BY DEF DeviceReplies
  <1> HIDE DEF k
  <1>4. Append(wire, k) \in Seq(WirePackets) /\ Len(Append(wire, k)) = Len(wire) + 1 BY <1>1, <1>2
  <1>5. Len(wire) + 1 <= WireCap BY <1>2, <1>3
  <1> QED BY <1>3, <1>4, <1>5

\* Entries removed from the router.
LEMMA RemoveTypes ==
    ASSUME TypeOK, NEW S, RemoveRoutes(S)
    PROVE  /\ routes' \in [Ports -> Conns \cup {NoConn}] /\ attached' \in [Ports -> Conns \cup {NoConn}]
           /\ next_source_port' \in 0..PortMod-1
  <1>1. /\ routes \in [Ports -> Conns \cup {NoConn}] /\ attached \in [Ports -> Conns \cup {NoConn}]
        /\ next_source_port \in 0..PortMod-1
    BY DEF TypeOK
  <1>2. next_source_port' = next_source_port BY DEF RemoveRoutes
  <1>3. /\ routes' \in [Ports -> Conns \cup {NoConn}] /\ attached' \in [Ports -> Conns \cup {NoConn}]
    BY <1>1 DEF RemoveRoutes
  <1> QED BY <1>1, <1>2, <1>3

\* A prefix, which is what an unplug leaves of the packets on their way.
LEMMA PrefixOf ==
    ASSUME NEW S, NEW q \in Seq(S), NEW n \in 0..Len(q)
    PROVE  /\ SubSeq(q, 1, n) \in Seq(S) /\ Len(SubSeq(q, 1, n)) = n
           /\ \A i \in 1..n : SubSeq(q, 1, n)[i] = q[i] /\ i \in 1..Len(q)
           /\ n > 0 => SubSeq(q, 1, n) # <<>> /\ Head(SubSeq(q, 1, n)) = Head(q)
  <1> DEFINE r == SubSeq(q, 1, n)
  <1>1. Len(q) \in Nat /\ n \in Nat /\ n <= Len(q) OBVIOUS
  <1>2. r \in Seq(S) /\ Len(r) = n /\ \A i \in 1..n : r[i] = q[i] BY <1>1
  <1>3. \A i \in 1..n : i \in 1..Len(q) BY <1>1
  <1> HIDE DEF r
  <1>4. ASSUME n > 0 PROVE r # <<>> /\ Head(r) = Head(q)
    <2>1. 1 \in 1..n /\ r[1] = q[1] BY <1>1, <1>2, <1>4
    <2>2. r # <<>> BY <1>1, <1>2, <1>4
    <2>3. q # <<>> BY <1>1, <1>4
    <2>4. Head(r) = r[1] /\ Head(q) = q[1] BY <1>2, <2>2, <2>3
    <2> QED BY <2>1, <2>2, <2>4
  <1> QED BY <1>2, <1>3, <1>4 DEF r

\* What the reader loop and the writer loop take.
LEMMA TakenTypes ==
    ASSUME TypeOK
    PROVE  /\ wire # <<>> => /\ Incoming \in WirePackets /\ Incoming.port \in Ports /\ Incoming.own \in Conns
                             /\ Tail(wire) \in Seq(WirePackets) /\ Len(Tail(wire)) <= WireCap
           /\ tx # <<>> => /\ Head(tx) \in TxPackets /\ Head(tx).port \in Ports /\ Head(tx).own \in Conns
                           /\ Tail(tx) \in Seq(TxPackets) /\ Len(Tail(tx)) <= TxCap
  <1>1. /\ tx \in Seq(TxPackets) /\ Len(tx) <= TxCap /\ TxCap \in Nat
        /\ wire \in Seq(WirePackets) /\ Len(wire) <= WireCap /\ WireCap \in Nat
    BY DeviceAssumption DEF TypeOK, TxPackets, WirePackets
  <1>2. ASSUME wire # <<>>
        PROVE  Head(wire) \in WirePackets /\ Tail(wire) \in Seq(WirePackets) /\ Len(Tail(wire)) <= WireCap
    BY <1>1, <1>2
  <1>3. ASSUME tx # <<>>
        PROVE  Head(tx) \in TxPackets /\ Tail(tx) \in Seq(TxPackets) /\ Len(Tail(tx)) <= TxCap
    BY <1>1, <1>3
  <1>4. /\ \A k \in WirePackets : k.port \in Ports /\ k.own \in Conns
        /\ \A k \in TxPackets : k.port \in Ports /\ k.own \in Conns
    BY DEF WirePackets, TxPackets, Packets
  <1> QED BY <1>2, <1>3, <1>4 DEF Incoming

\* The port a probe tries, and the counter after it.
LEMMA ProbeTypes ==
    ASSUME TypeOK
    PROVE  /\ (IF next_source_port = 0 THEN 1 ELSE next_source_port) \in Ports
           /\ (next_source_port + 1) % PortMod \in 0..PortMod-1
  BY DeviceAssumption DEF TypeOK, Ports

\* A step of one connection.
LEMMA ConnTypes == ASSUME TypeInv, NEW c \in Conns, ConnNext(c) PROVE TypeInv'
  <1> USE DEF stopVars, devVars, routerVars, connVars
  <1>1. TypeOK /\ PortInv BY DEF TypeInv
  <1>2. pc \in [Conns -> Pcs] /\ chan \in [Conns -> Seq({"SYNACK", "DATA"})] BY <1>1 DEF TypeOK
  <1>3. ASSUME NEW to \in Pcs, pc' = [pc EXCEPT ![c] = to] \/ pc' = pc, port' = port, UNCHANGED stopVars,
               to \notin {"idle", "reg", "probe", "end"} => port[c] \in Ports
        PROVE  pc' \in [Conns -> Pcs] /\ PortInv'
    BY <1>1, <1>2, <1>3 DEF PortInv
  <1>4. CASE ConnectStart(c)
    <2>1. pc' \in [Conns -> Pcs] /\ PortInv' BY <1>3, <1>4 DEF ConnectStart, Pcs
    <2> QED BY <1>1, <1>4, <2>1 DEF ConnectStart, TypeOK, TypeInv
  <1>17. CASE CleanupDead(c)
    <2>1. pc' \in [Conns -> Pcs] /\ PortInv' BY <1>3, <1>17 DEF CleanupDead, Pcs
    <2> QED BY <1>1, <1>17, <2>1, RemoveTypes DEF CleanupDead, TypeOK, TypeInv
  <1>5. CASE Probe(c)
    <2> DEFINE sp == IF next_source_port = 0 THEN 1 ELSE next_source_port
    <2>1. sp \in Ports /\ next_source_port' \in 0..PortMod-1 BY <1>1, <1>5, ProbeTypes DEF Probe
    <2>2. /\ UNCHANGED <<attached, chan, tx, wire, reader, writer, devVars, stopVars>>
          /\ pc[c] = "probe" /\ probes[c] < MAX_SOURCE_PORT_PROBES
      BY <1>5 DEF Probe
    <2>3. CASE /\ routes' = [routes EXCEPT ![sp] = c] /\ port' = [port EXCEPT ![c] = sp]
               /\ pc' = [pc EXCEPT ![c] = "syn"] /\ UNCHANGED probes
      <3> HIDE DEF sp
      <3>1. routes' \in [Ports -> Conns \cup {NoConn}] BY <1>1, <2>1, <2>3 DEF TypeOK
      <3>2. port' \in [Conns -> 0..PortMod-1] BY <1>1, <2>1, <2>3 DEF TypeOK, Ports
      <3>3. pc' \in [Conns -> Pcs] BY <1>2, <2>3 DEF Pcs
      <3>4. PortInv' BY <1>1, <1>2, <2>1, <2>2, <2>3 DEF PortInv, TypeOK
      <3> QED BY <1>1, <2>1, <2>2, <2>3, <3>1, <3>2, <3>3, <3>4 DEF TypeInv, TypeOK
    <2>4. CASE probes' = [probes EXCEPT ![c] = @ + 1] /\ UNCHANGED <<routes, port, pc>>
      <3>1. probes' \in [Conns -> 0..MAX_SOURCE_PORT_PROBES]
        BY <1>1, <2>2, <2>4, DeviceAssumption DEF TypeOK
      <3>2. PortInv' BY <1>1, <2>2, <2>4 DEF PortInv
      <3> QED BY <1>1, <2>1, <2>2, <2>4, <3>1, <3>2 DEF TypeInv, TypeOK
    <2> QED BY <1>5, <2>3, <2>4 DEF Probe
  <1>6. CASE ProbeFails(c)
    <2>1. pc' \in [Conns -> Pcs] /\ PortInv' BY <1>3, <1>6 DEF ProbeFails, Pcs
    <2> QED BY <1>1, <1>6, <2>1 DEF ProbeFails, TypeOK, TypeInv
  <1>7. CASE SendSyn(c)
    <2>1. port[c] \in Ports BY <1>1, <1>7 DEF SendSyn, PortInv
    <2>2. pc' \in [Conns -> Pcs] /\ PortInv' BY <1>3, <1>7, <2>1 DEF SendSyn, Pcs
    <2>3. tx' \in Seq(TxPackets) /\ Len(tx') <= TxCap BY <1>1, <1>7, <2>1, EnqueueTypes DEF SendSyn
    <2> QED BY <1>1, <1>7, <2>2, <2>3 DEF SendSyn, TypeOK, TypeInv, TxPackets
  <1>8. CASE RecvSynAck(c)
    <2>1. port[c] \in Ports BY <1>1, <1>8 DEF RecvSynAck, PortInv
    <2>2. pc' \in [Conns -> Pcs] /\ PortInv' BY <1>3, <1>8, <2>1 DEF RecvSynAck, Pcs
    <2>3. chan' \in [Conns -> Seq({"SYNACK", "DATA"})] BY <1>2, <1>8 DEF RecvSynAck
    <2> QED BY <1>1, <1>8, <2>2, <2>3 DEF RecvSynAck, TypeOK, TypeInv
  <1>9. CASE SendAck(c)
    <2>1. port[c] \in Ports BY <1>1, <1>9 DEF SendAck, PortInv
    <2>2. pc' \in [Conns -> Pcs] /\ PortInv' BY <1>3, <1>9, <2>1 DEF SendAck, Pcs
    <2>3. tx' \in Seq(TxPackets) /\ Len(tx') <= TxCap BY <1>1, <1>9, <2>1, EnqueueTypes DEF SendAck
    <2> QED BY <1>1, <1>9, <2>2, <2>3 DEF SendAck, TypeOK, TypeInv, TxPackets
  <1>10. CASE Attach(c)
    <2>1. port[c] \in Ports BY <1>1, <1>10 DEF Attach, PortInv
    <2>2. pc' \in [Conns -> Pcs] /\ PortInv' BY <1>3, <1>10, <2>1 DEF Attach, Pcs
    <2>3. attached' \in [Ports -> Conns \cup {NoConn}] BY <1>1, <1>10, <2>1 DEF Attach, TypeOK
    <2> QED BY <1>1, <1>10, <2>2, <2>3 DEF Attach, TypeOK, TypeInv
  <1>11. CASE HandshakeFails(c)
    <2>1. port[c] \in Ports BY <1>1, <1>11 DEF HandshakeFails, PortInv
    <2>2. pc' \in [Conns -> Pcs] /\ PortInv' BY <1>3, <1>11, <2>1 DEF HandshakeFails, Pcs
    <2>3. chan' \in [Conns -> Seq({"SYNACK", "DATA"})] BY <1>2, <1>11 DEF HandshakeFails
    <2> QED BY <1>1, <1>11, <2>2, <2>3 DEF HandshakeFails, TypeOK, TypeInv
  <1>12. CASE Unregister(c)
    <2>1. pc' \in [Conns -> Pcs] /\ PortInv' BY <1>3, <1>12 DEF Unregister, Pcs
    <2> QED BY <1>1, <1>12, <2>1, RemoveTypes DEF Unregister, TypeOK, TypeInv
  <1>13. CASE EndOpen(c) \/ Abandon(c) \/ ClientReads(c)
    <2>1. port[c] \in Ports BY <1>1, <1>13 DEF EndOpen, Abandon, ClientReads, Opened, PortInv
    <2>2. pc' \in [Conns -> Pcs] /\ PortInv' BY <1>3, <1>13, <2>1 DEF EndOpen, Abandon, ClientReads, Pcs
    <2> QED BY <1>1, <1>13, <2>2 DEF EndOpen, Abandon, ClientReads, TypeOK, TypeInv
  <1>14. CASE DropConn(c)
    <2>1. port[c] \in Ports BY <1>1, <1>14 DEF DropConn, PortInv
    <2>2. pc' \in [Conns -> Pcs] /\ PortInv' BY <1>3, <1>14 DEF DropConn, Pcs
    <2>3. tx' \in Seq(TxPackets) /\ Len(tx') <= TxCap
      <3>1. CASE writer /\ ~Full BY <1>1, <1>14, <2>1, <3>1, EnqueueTypes DEF DropConn
      <3>2. CASE ~(writer /\ ~Full) BY <1>1, <1>14, <3>2 DEF DropConn, TypeOK, TxPackets
      <3> QED BY <3>1, <3>2
    <2>4. chan' \in [Conns -> Seq({"SYNACK", "DATA"})] BY <1>2, <1>14 DEF DropConn
    <2> QED BY <1>1, <1>14, <2>2, <2>3, <2>4 DEF DropConn, TypeOK, TypeInv, TxPackets
  <1>15. CASE Close(c)
    <2>1. port[c] \in Ports BY <1>1, <1>15 DEF Close, PortInv
    <2>2. pc' \in [Conns -> Pcs] /\ PortInv' BY <1>3, <1>15 DEF Close, Pcs
    <2>3. tx' \in Seq(TxPackets) /\ Len(tx') <= TxCap BY <1>1, <1>15, <2>1, EnqueueTypes DEF Close
    <2>4. chan' \in [Conns -> Seq({"SYNACK", "DATA"})] BY <1>2, <1>15 DEF Close
    <2> QED BY <1>1, <1>15, <2>2, <2>3, <2>4 DEF Close, TypeOK, TypeInv, TxPackets
  <1>16. CASE Recv(c) \/ Send(c)
    <2>1. port[c] \in Ports BY <1>1, <1>16 DEF Recv, Send, PortInv
    <2>2. tx' \in Seq(TxPackets) /\ Len(tx') <= TxCap BY <1>1, <1>16, <2>1, EnqueueTypes DEF Recv, Send
    <2>3. chan' \in [Conns -> Seq({"SYNACK", "DATA"})]
      <3>1. chan' = chan \/ (chan[c] # <<>> /\ chan' = [chan EXCEPT ![c] = Tail(@)])
        BY <1>16 DEF Recv, Send
      <3>2. chan[c] # <<>> => Tail(chan[c]) \in Seq({"SYNACK", "DATA"}) BY <1>2
      <3> QED BY <1>2, <3>1, <3>2
    <2>4. pc' \in [Conns -> Pcs] /\ PortInv' BY <1>3, <1>2, <1>16, <2>1 DEF Recv, Send, Pcs
    <2> QED BY <1>1, <1>16, <2>2, <2>3, <2>4 DEF Recv, Send, TypeOK, TypeInv, TxPackets
  <1> QED
    BY <1>4, <1>5, <1>6, <1>7, <1>8, <1>9, <1>10, <1>11, <1>12, <1>13, <1>14, <1>15, <1>16,
       <1>17
    DEF ConnNext, TaskStep

\* The reader loop.
LEMMA ReaderTypes == TypeInv /\ HandInv /\ ReaderStep => TypeInv'
  <1> SUFFICES ASSUME TypeInv, HandInv, ReaderStep PROVE TypeInv' OBVIOUS
  <1> USE DEF stopVars, devVars, routerVars, connVars
  <1>1. TypeOK /\ PortInv BY DEF TypeInv
  <1>2. UNCHANGED <<pc, port, toReset>>
    BY DEF ReaderStep, ReaderRst, ReaderRoute, ReaderSends, ReaderSendFails, ReaderUnregisters,
           ReaderReports, ReaderClears, ReaderStops
  <1>3. PortInv' BY <1>1, <1>2 DEF PortInv
  <1>4. CASE ReaderRst
    <2>1. wire' \in Seq(WirePackets) /\ Len(wire') <= WireCap
      BY <1>1, <1>4, TakenTypes DEF ReaderRst, ReaderTakes
    <2>2. RemoveRoutes({Incoming.port}) BY <1>4 DEF ReaderRst
    <2> QED BY <1>1, <1>3, <1>4, <2>1, <2>2, RemoveTypes DEF ReaderRst, TypeOK, TypeInv, WirePackets
  <1>5. CASE ReaderRoute
    <2>1. wire # <<>> /\ wire' \in {wire, Tail(wire)} BY <1>5 DEF ReaderRoute, ReaderTakes
    <2>2. wire' \in Seq(WirePackets) /\ Len(wire') <= WireCap
      BY <1>1, <2>1, TakenTypes DEF TypeOK, WirePackets
    <2> QED BY <1>1, <1>3, <1>5, <2>2 DEF ReaderRoute, ReaderTakes, TypeOK, TypeInv, WirePackets
  <1>9. CASE ReaderSends
    <2>1. wire # <<>> /\ wire' = Tail(wire) /\ Incoming.flag # "RST"
      BY <1>9 DEF ReaderSends, HandInv, InRoute
    <2>2. wire' \in Seq(WirePackets) /\ Len(wire') <= WireCap BY <1>1, <2>1, TakenTypes
    <2>3. Incoming.flag \in {"SYNACK", "DATA"} BY <1>1, <2>1, TakenTypes DEF WirePackets, Packets
    <2> DEFINE c == routes[Incoming.port]
    <2>4. chan' = [chan EXCEPT ![c] = Append(@, Incoming.flag)] BY <1>9 DEF ReaderSends
    <2> HIDE DEF c
    <2>5. chan' \in [Conns -> Seq({"SYNACK", "DATA"})]
      <3>1. chan \in [Conns -> Seq({"SYNACK", "DATA"})] BY <1>1 DEF TypeOK
      <3>2. \A d \in Conns : Append(chan[d], Incoming.flag) \in Seq({"SYNACK", "DATA"}) BY <2>3, <3>1
      <3> QED BY <2>4, <3>1, <3>2
    <2> QED BY <1>1, <1>3, <1>9, <2>2, <2>5 DEF ReaderSends, TypeOK, TypeInv, WirePackets
  <1>10. CASE ReaderSendFails BY <1>1, <1>3, <1>10 DEF ReaderSendFails, TypeOK, TypeInv
  <1>11. CASE ReaderUnregisters
    <2>1. wire' \in Seq(WirePackets) /\ Len(wire') <= WireCap
      BY <1>1, <1>11, TakenTypes DEF ReaderUnregisters, HandInv, InRoute
    <2> QED BY <1>1, <1>3, <1>11, <2>1, RemoveTypes DEF ReaderUnregisters, TypeOK, TypeInv, WirePackets
  <1>6. CASE ReaderReports
    <2>1. event' \in BOOLEAN BY <1>6, Zenon DEF ReaderReports
    <2> QED BY <1>1, <1>3, <1>6, <2>1 DEF ReaderReports, TypeOK, TypeInv
  <1>7. CASE ReaderClears BY <1>1, <1>3, <1>7, RemoveTypes DEF ReaderClears, TypeOK, TypeInv
  <1>8. CASE ReaderStops BY <1>1, <1>3, <1>8 DEF ReaderStops, TypeOK, TypeInv
  <1> QED BY <1>4, <1>5, <1>6, <1>7, <1>8, <1>9, <1>10, <1>11 DEF ReaderStep

\* The writer loop and the device.
LEMMA WriterTypes ==
    ASSUME TypeInv,
           \/ WriterStep \/ WriterStops \/ Unplug
           \/ \E p \in Ports : DeviceData(p) \/ DeviceResets(p)
    PROVE  TypeInv'
  <1> USE DEF stopVars, devVars, routerVars, connVars
  <1>1. TypeOK /\ PortInv BY DEF TypeInv
  <1>2. UNCHANGED <<pc, port, toReset>> BY DEF WriterStep, WriterStops, Unplug, DeviceData, DeviceResets
  <1>3. PortInv' BY <1>1, <1>2 DEF PortInv
  <1>4. CASE WriterStep
    <2>1. tx # <<>> /\ tx' = Tail(tx) BY <1>4 DEF WriterStep
    <2>2. tx' \in Seq(TxPackets) /\ Len(tx') <= TxCap BY <1>1, <2>1, TakenTypes
    <2> DEFINE k == Head(tx)
    <2>3. k.port \in Ports /\ k.own \in Conns BY <1>1, <2>1, TakenTypes
    <2> HIDE DEF k
    <2>4. /\ dev' \in {dev, [dev EXCEPT ![k.port] = k.own], [dev EXCEPT ![k.port] = NoConn]}
          /\ wire' = wire \/ \E f \in {"SYNACK", "RST"} : DeviceReplies(k.port, f, k.own)
      <3>1. CASE up
        <4>1. DeviceTakes(k) BY <1>4, <3>1 DEF WriterStep, k
        <4> QED BY <4>1 DEF DeviceTakes
      <3>2. CASE ~up BY <1>4, <3>2 DEF WriterStep
      <3> QED BY <3>1, <3>2
    <2>5. dev' \in [Ports -> Conns \cup {NoConn}] BY <1>1, <2>3, <2>4 DEF TypeOK
    <2>6. wire' \in Seq(WirePackets) /\ Len(wire') <= WireCap
      <3>1. CASE wire' = wire BY <1>1, <3>1 DEF TypeOK, WirePackets
      <3> QED BY <1>1, <2>3, <2>4, <3>1, ReplyTypes
    <2> QED BY <1>1, <1>3, <1>4, <2>2, <2>5, <2>6 DEF WriterStep, TypeOK, TypeInv, TxPackets, WirePackets
  <1>5. CASE WriterStops
    <2>1. writer' \in BOOLEAN BY <1>5, Zenon DEF WriterStops
    <2>2. tx' \in Seq(TxPackets) /\ Len(tx') <= TxCap BY <1>5, DeviceAssumption DEF WriterStops
    <2> QED BY <1>1, <1>3, <1>5, <2>1, <2>2 DEF WriterStops, TypeOK, TypeInv, TxPackets
  <1>6. CASE Unplug
    <2>1. up' \in BOOLEAN BY <1>6, Zenon DEF Unplug
    <2>2. wire' \in Seq(WirePackets) /\ Len(wire') <= WireCap
      <3>1. wire \in Seq(WirePackets) /\ Len(wire) <= WireCap BY <1>1 DEF TypeOK, WirePackets
      <3>2. PICK n \in 0..Len(wire) : wire' = SubSeq(wire, 1, n) BY <1>6 DEF Unplug
      <3>3. wire' \in Seq(WirePackets) /\ Len(wire') = n BY <3>1, <3>2, PrefixOf
      <3> QED BY <3>1, <3>2, <3>3, DeviceAssumption
    <2>3. dev' \in [Ports -> Conns \cup {NoConn}] BY <1>6 DEF Unplug
    <2> QED BY <1>1, <1>3, <1>6, <2>1, <2>2, <2>3 DEF Unplug, TypeOK, TypeInv, WirePackets
  <1>7. ASSUME NEW p \in Ports, DeviceData(p) \/ DeviceResets(p) PROVE TypeInv'
    <2>1. dev[p] \in Conns BY <1>1, <1>7 DEF DeviceData, DeviceResets, TypeOK
    <2>2. wire' \in Seq(WirePackets) /\ Len(wire') <= WireCap
      BY <1>1, <1>7, <2>1, ReplyTypes DEF DeviceData, DeviceResets
    <2>3. dev' \in [Ports -> Conns \cup {NoConn}] BY <1>1, <1>7 DEF DeviceData, DeviceResets, TypeOK
    <2> QED BY <1>1, <1>3, <1>7, <2>2, <2>3 DEF DeviceData, DeviceResets, TypeOK, TypeInv, WirePackets
  <1> QED BY <1>4, <1>5, <1>6, <1>7

\* Removal and shutdown.
LEMMA StopTypes ==
    ASSUME TypeInv, StopStep \/ Cleanup \/ Hotplug \/ PreflightCancelled \/ PreflightDone \/ UNCHANGED vars
    PROVE  TypeInv'
  <1> USE DEF stopVars, devVars, routerVars, connVars
  <1>1. TypeOK /\ PortInv BY DEF TypeInv
  <1>2. CASE RemoveDevice \/ RemoveUnknown \/ Cleanup \/ Hotplug \/ PreflightDone
    <2>1. /\ table' \in BOOLEAN /\ event' \in BOOLEAN /\ cancelled' \in BOOLEAN /\ provider' \in BOOLEAN
      BY <1>1, <1>2, Zenon DEF RemoveDevice, RemoveUnknown, Cleanup, Hotplug, PreflightDone, TypeOK
    <2>2. sd' \in {sd, "take"} BY <1>2 DEF RemoveDevice, RemoveUnknown, Cleanup, Hotplug, PreflightDone
    <2>3. UNCHANGED <<routerVars, chan, connVars, tx, wire, reader, writer, devVars, toReset, sdErr>>
      BY <1>2 DEF RemoveDevice, RemoveUnknown, Cleanup, Hotplug, PreflightDone
    <2>4. PortInv' BY <1>1, <2>3 DEF PortInv
    <2> QED BY <1>1, <2>1, <2>2, <2>3, <2>4 DEF TypeOK, TypeInv
  <1>3. CASE CloseAllTake
    <2>1. toReset' \subseteq Conns BY <1>3 DEF CloseAllTake, Upgradable
    <2>2. PortInv' BY <1>1, <1>3 DEF CloseAllTake, Upgradable, PortInv
    <2> QED BY <1>1, <1>3, <2>1, <2>2, RemoveTypes DEF CloseAllTake, TypeOK, TypeInv
  <1>4. ASSUME NEW c \in Conns, CloseAllRst(c) PROVE TypeInv'
    <2>1. port[c] \in Ports BY <1>1, <1>4 DEF CloseAllRst, PortInv
    <2>2. PortInv' BY <1>1, <1>4 DEF CloseAllRst, PortInv
    <2>3. tx' \in Seq(TxPackets) /\ Len(tx') <= TxCap
      <3>1. CASE writer BY <1>1, <1>4, <2>1, <3>1, EnqueueTypes DEF CloseAllRst
      <3>2. CASE ~writer BY <1>1, <1>4, <3>2 DEF CloseAllRst, TypeOK, TxPackets
      <3> QED BY <3>1, <3>2
    <2>4. sdErr' \in BOOLEAN BY <1>1, <1>4, Zenon DEF CloseAllRst, TypeOK
    <2>5. toReset' \subseteq Conns BY <1>1, <1>4 DEF CloseAllRst, TypeOK
    <2> QED BY <1>1, <1>4, <2>2, <2>3, <2>4, <2>5 DEF CloseAllRst, TypeOK, TypeInv, TxPackets
  <1>5. CASE ShutdownReturns
    <2>1. PortInv' BY <1>1, <1>5 DEF ShutdownReturns, PortInv
    <2> QED BY <1>1, <1>5, <2>1 DEF ShutdownReturns, TypeOK, TypeInv
  <1>6. CASE DropDevice
    <2>1. PortInv' BY <1>1, <1>6 DEF DropDevice, PortInv
    <2> QED BY <1>1, <1>6, <2>1, RemoveTypes DEF DropDevice, TypeOK, TypeInv
  <1>7. CASE PreflightCancelled
    <2>1. provider' \in BOOLEAN BY <1>7, Zenon DEF PreflightCancelled
    <2>2. pc' \in [Conns -> Pcs] BY <1>1, <1>7 DEF PreflightCancelled, TypeOK, Pcs
    <2>3. chan' \in [Conns -> Seq({"SYNACK", "DATA"})] BY <1>1, <1>7 DEF PreflightCancelled, TypeOK
    <2>4. PortInv' BY <1>1, <1>7 DEF PreflightCancelled, PortInv
    <2> QED BY <1>1, <1>7, <2>1, <2>2, <2>3, <2>4 DEF PreflightCancelled, TypeOK, TypeInv
  <1>8. CASE UNCHANGED vars BY <1>1, <1>8 DEF vars, TypeOK, PortInv, TypeInv
  <1> QED BY <1>2, <1>3, <1>4, <1>5, <1>6, <1>7, <1>8 DEF StopStep

\* The types hold at the start.
LEMMA TypeInit == Init => TypeInv /\ HandInv
  <1> SUFFICES ASSUME Init PROVE TypeInv /\ HandInv OBVIOUS
  <1>1. /\ writer \in BOOLEAN /\ up \in BOOLEAN /\ table \in BOOLEAN /\ event \in BOOLEAN
        /\ cancelled \in BOOLEAN /\ sdErr \in BOOLEAN /\ provider \in BOOLEAN
    BY Zenon DEF Init
  <1>2. /\ next_source_port \in 0..PortMod-1 /\ port \in [Conns -> 0..PortMod-1]
        /\ probes \in [Conns -> 0..MAX_SOURCE_PORT_PROBES]
    BY DeviceAssumption DEF Init
  <1>3. tx \in Seq(TxPackets) /\ Len(tx) <= TxCap /\ wire \in Seq(WirePackets) /\ Len(wire) <= WireCap
    BY DeviceAssumption DEF Init
  <1>4. pc \in [Conns -> Pcs] /\ PortInv BY DEF Init, Pcs, PortInv
  <1> QED BY <1>1, <1>2, <1>3, <1>4 DEF Init, TypeInv, TypeOK, TxPackets, WirePackets, HandInv, InRoute

\* New packets come behind the one that the reader loop has in hand, and an unplug
\* leaves it.
LEMMA HeadStays ==
    ASSUME TypeInv, HandInv, InRoute,
           WriterStep \/ Unplug \/ \E p \in Ports : DeviceData(p) \/ DeviceResets(p)
    PROVE  wire' # <<>> /\ Incoming' = Incoming
  <1>1. wire \in Seq(WirePackets) /\ wire # <<>> BY DEF TypeInv, TypeOK, WirePackets, HandInv
  <1>2. ASSUME NEW p \in Ports, NEW flag \in {"SYNACK", "DATA", "RST"}, NEW c \in Conns,
               DeviceReplies(p, flag, c)
        PROVE  wire' # <<>> /\ Head(wire') = Head(wire)
    <2> DEFINE e == [port |-> p, flag |-> flag, own |-> c]
    <2>1. e \in WirePackets /\ wire' = Append(wire, e) BY <1>2 DEF WirePackets, Packets, DeviceReplies
    <2> HIDE DEF e
    <2> QED BY <1>1, <2>1
  <1>3. CASE WriterStep
    <2> DEFINE k == Head(tx)
    <2>1. k.port \in Ports /\ k.own \in Conns BY <1>3, TakenTypes DEF WriterStep, TypeInv
    <2>2. DeviceTakes(k) \/ wire' = wire BY <1>3 DEF WriterStep
    <2> HIDE DEF k
    <2>3. wire' = wire \/ \E f \in {"SYNACK", "RST"} : DeviceReplies(k.port, f, k.own)
      BY <2>2 DEF DeviceTakes
    <2> QED BY <1>1, <1>2, <2>1, <2>3 DEF Incoming
  <1>4. CASE Unplug
    <2>1. PICK n \in 0..Len(wire) : n > 0 /\ wire' = SubSeq(wire, 1, n) BY <1>4 DEF Unplug
    <2> QED BY <1>1, <2>1, PrefixOf DEF Incoming
  <1>5. ASSUME NEW p \in Ports, DeviceData(p) \/ DeviceResets(p)
        PROVE  wire' # <<>> /\ Incoming' = Incoming
    <2>1. dev[p] \in Conns BY <1>5 DEF DeviceData, DeviceResets, TypeInv, TypeOK
    <2> QED BY <1>2, <1>5, <2>1 DEF DeviceData, DeviceResets, Incoming
  <1> QED BY <1>3, <1>4, <1>5

\* Nobody takes the packet in hand away.
LEMMA HandStep == TypeInv /\ HandInv /\ [Next]_vars => HandInv'
  <1> SUFFICES ASSUME TypeInv, HandInv, [Next]_vars PROVE HandInv' OBVIOUS
  <1> USE DEF stopVars, devVars, connVars
  <1>1. ASSUME UNCHANGED <<reader, wire>> PROVE HandInv' BY <1>1 DEF HandInv, InRoute, Incoming
  <1>2. CASE \E c \in Conns : ConnNext(c)
    <2>1. UNCHANGED <<reader, wire>>
      BY <1>2 DEF ConnNext, TaskStep, ConnectStart, CleanupDead, Probe, ProbeFails, SendSyn, RecvSynAck,
             SendAck, Attach, HandshakeFails, Unregister, EndOpen, DropConn, Recv, ClientReads, Send,
             Close, Abandon
    <2> QED BY <1>1, <2>1
  <1>3. CASE ReaderStep
    <2>1. CASE ReaderRoute \/ ReaderSendFails
      BY <2>1 DEF ReaderRoute, ReaderTakes, ReaderSendFails, HandInv, InRoute, Incoming
    <2>2. CASE ~(ReaderRoute \/ ReaderSendFails)
      <3>1. reader' \notin {"send", "unreg"}
        BY <1>3, <2>2 DEF ReaderStep, ReaderRst, ReaderTakes, ReaderSends, ReaderUnregisters,
           ReaderReports, ReaderClears, ReaderStops
      <3> QED BY <3>1 DEF HandInv, InRoute
    <2> QED BY <2>1, <2>2
  <1>4. CASE WriterStep \/ Unplug \/ \E p \in Ports : DeviceData(p) \/ DeviceResets(p)
    <2>1. reader' = reader BY <1>4 DEF WriterStep, Unplug, DeviceData, DeviceResets
    <2>2. InRoute => wire' # <<>> /\ Incoming' = Incoming BY <1>4, HeadStays
    <2> QED BY <2>1, <2>2 DEF HandInv, InRoute
  <1>5. CASE \/ WriterStops \/ StopStep \/ Cleanup \/ Hotplug \/ PreflightCancelled \/ PreflightDone
             \/ UNCHANGED vars
    <2>1. UNCHANGED <<reader, wire>>
      BY <1>5 DEF WriterStops, StopStep, RemoveDevice, RemoveUnknown, CloseAllTake, CloseAllRst,
           ShutdownReturns, DropDevice, Cleanup, Hotplug, PreflightCancelled, PreflightDone, vars
    <2> QED BY <1>1, <2>1
  <1> QED BY <1>2, <1>3, <1>4, <1>5 DEF Next

\* The types are kept.
LEMMA TypeStep == TypeInv /\ HandInv /\ [Next]_vars => TypeInv' /\ HandInv'
  BY HandStep, ConnTypes, ReaderTypes, WriterTypes, StopTypes DEF Next

\* Router, connections, channels, loops and shutdown keep their types: the writer channel
\* and the bus never hold more than their capacity, every packet carries a port that
\* register has given out, and the u16 counter wraps within its width.
THEOREM TypeCorrect == Spec => []TypeOK
  <1>1. TypeInv => TypeOK BY DEF TypeInv
  <1>2. TypeInv /\ HandInv /\ [Next]_vars => (TypeInv /\ HandInv)' BY TypeStep
  <1> QED BY <1>1, <1>2, TypeInit, PTL DEF Spec

------------------------------------------------------------------------------
(* Who may take a route.                                                     *)

\* The loop reports after the device is gone, a shutdown starts with the token, and only
\* the daemon's connects unregister.
StopInv ==
    /\ reader = "reported" => ~up
    /\ sd # "no" => cancelled
    /\ \A c \in Conns : pc[c] = "unreg" => c \in Daemon

\* The device does not come back, the token is never reset.
LEMMA StopStepInv == TypeInv /\ StopInv /\ [Next]_vars => StopInv'
  <1> SUFFICES ASSUME TypeInv, StopInv, [Next]_vars PROVE StopInv' OBVIOUS
  <1> USE DEF stopVars, devVars, connVars
  <1>1. pc \in [Conns -> Pcs] BY DEF TypeInv, TypeOK
  <1>2. ASSUME UNCHANGED <<reader, up, sd, cancelled>>, NEW c \in Conns, NEW to, pc' = [pc EXCEPT ![c] = to] \/ pc' = pc,
               to = "unreg" => c \in Daemon
        PROVE  StopInv'
    BY <1>1, <1>2 DEF StopInv
  <1>3. ASSUME NEW c \in Conns, ConnNext(c) PROVE StopInv'
    <2>1. UNCHANGED <<reader, up, sd, cancelled>>
      BY <1>3 DEF ConnNext, TaskStep, ConnectStart, CleanupDead, Probe, ProbeFails, SendSyn, RecvSynAck, SendAck,
           Attach, HandshakeFails, Unregister, EndOpen, DropConn, Recv, ClientReads, Send, Close, Abandon
    <2>2. \/ pc' = pc \/ (\E to \in Pcs \ {"unreg"} : pc' = [pc EXCEPT ![c] = to])
          \/ c \in Daemon /\ pc' = [pc EXCEPT ![c] = "unreg"]
      BY <1>3 DEF ConnNext, TaskStep, ConnectStart, CleanupDead, Probe, ProbeFails, SendSyn, RecvSynAck, SendAck,
           Attach, HandshakeFails, Unregister, EndOpen, DropConn, Recv, ClientReads, Send, Close, Abandon, Pcs
    <2> QED BY <1>2, <2>1, <2>2
  <1>4. CASE ReaderStep \/ WriterStep \/ WriterStops \/ Unplug \/ UNCHANGED vars
             \/ \E p \in Ports : DeviceData(p) \/ DeviceResets(p)
    <2>1. UNCHANGED <<pc, sd, cancelled>> /\ (up' => up) /\ (reader' = "reported" => ~up')
      BY <1>4 DEF ReaderStep, ReaderRst, ReaderRoute, ReaderSends, ReaderSendFails, ReaderUnregisters,
           ReaderReports, ReaderClears, ReaderStops, WriterStep,
           WriterStops, Unplug, DeviceData, DeviceResets, vars, StopInv
    <2> QED BY <2>1 DEF StopInv
  <1>5. CASE StopStep \/ Cleanup \/ Hotplug \/ PreflightDone
    <2>1. UNCHANGED <<pc, reader, up>> /\ (sd' # "no" => cancelled')
      BY <1>5 DEF StopStep, RemoveDevice, RemoveUnknown, CloseAllTake, CloseAllRst, ShutdownReturns,
           DropDevice, Cleanup, Hotplug, PreflightDone, StopInv
    <2> QED BY <2>1 DEF StopInv
  <1>6. CASE PreflightCancelled
    <2>1. UNCHANGED <<reader, up, sd, cancelled>> BY <1>6 DEF PreflightCancelled
    <2>2. \A c \in Conns : pc'[c] = "unreg" => pc[c] = "unreg" BY <1>6 DEF PreflightCancelled
    <2> QED BY <2>1, <2>2 DEF StopInv
  <1> QED BY <1>3, <1>4, <1>5, <1>6 DEF Next

\* A step that takes the route of a live connection: who it was.
LEMMA RouteTaken ==
    ASSUME TypeInv, StopInv, [Next]_vars, NEW c \in Conns, LostRoute(c)
    PROVE  \/ cancelled \/ ~up
           \/ wire # <<>> /\ Incoming.flag = "RST" /\ Incoming.port = port[c]
           \/ \E d \in Daemon : pc[d] = "unreg" /\ port[d] = port[c]
           \/ reader = "unreg" /\ Incoming.port = port[c]
  <1> USE DEF stopVars, devVars, connVars, routerVars
  <1>1. /\ routes \in [Ports -> Conns \cup {NoConn}] /\ port[c] \in 0..PortMod-1
        /\ PortMod \in Nat /\ NoConn \notin Conns
    BY DeviceAssumption DEF TypeInv, TypeOK
  <1>2. /\ port[c] \in Ports /\ routes[port[c]] = c /\ RxAlive(c) /\ routes'[port[c]] # c
    BY <1>1 DEF LostRoute, Routed, Ports
  <1>3. routes' # routes BY <1>2
  <1>4. ASSUME NEW S, RemoveRoutes(S) PROVE port[c] \in S BY <1>2, <1>4 DEF RemoveRoutes
  <1>5. ASSUME NEW d \in Conns, ConnNext(d)
        PROVE  \E e \in Daemon : pc[e] = "unreg" /\ port[e] = port[c]
    <2>1. CASE CleanupDead(d)
      <3>1. port[c] \in DeadPorts BY <1>4, <2>1 DEF CleanupDead
      <3> QED BY <1>2, <3>1 DEF DeadPorts
    <2>2. CASE Probe(d)
      <3> DEFINE sp == IF next_source_port = 0 THEN 1 ELSE next_source_port
      <3>1. routes[sp] = NoConn /\ routes' = [routes EXCEPT ![sp] = d] BY <1>3, <2>2 DEF Probe
      <3>2. sp \in Ports BY ProbeTypes DEF TypeInv
      <3> HIDE DEF sp
      <3>3. port[c] # sp BY <1>1, <1>2, <3>1
      <3> QED BY <1>1, <1>2, <3>1, <3>2, <3>3
    <2>3. CASE Unregister(d)
      <3>1. port[c] = port[d] /\ pc[d] = "unreg" BY <1>4, <2>3 DEF Unregister
      <3>2. d \in Daemon BY <3>1 DEF StopInv
      <3> QED BY <3>1, <3>2
    <2>4. Unregister(d) \/ Probe(d) \/ CleanupDead(d) \/ routes' = routes
      BY <1>5 DEF ConnNext, TaskStep, ConnectStart, ProbeFails, SendSyn, RecvSynAck, SendAck, Attach,
           HandshakeFails, EndOpen, DropConn, Recv, ClientReads, Send, Close, Abandon
    <2> QED BY <1>3, <2>1, <2>2, <2>3, <2>4
  <1>6. CASE ReaderRst
    <2>1. RemoveRoutes({Incoming.port}) /\ wire # <<>> /\ Incoming.flag = "RST"
      BY <1>6 DEF ReaderRst, ReaderTakes
    <2> QED BY <1>4, <2>1
  <1>7. CASE ReaderUnregisters
    <2>1. RemoveRoutes({Incoming.port}) /\ reader = "unreg" BY <1>7 DEF ReaderUnregisters
    <2> QED BY <1>4, <2>1
  <1>8. CASE ReaderClears BY <1>8 DEF ReaderClears, StopInv
  <1>9. CASE CloseAllTake \/ DropDevice BY <1>9 DEF CloseAllTake, DropDevice, StopInv
  <1>10. \/ \E d \in Conns : ConnNext(d)
         \/ ReaderRst \/ ReaderUnregisters \/ ReaderClears \/ CloseAllTake \/ DropDevice
         \/ routes' = routes
    BY DEF Next, ReaderStep, ReaderRoute, ReaderSends, ReaderSendFails, ReaderReports,
           ReaderStops, WriterStep, WriterStops, StopStep, RemoveDevice, RemoveUnknown,
           CloseAllRst, ShutdownReturns, Cleanup, Hotplug, Unplug, PreflightCancelled,
           PreflightDone, DeviceData, DeviceResets, vars
  <1> QED BY <1>3, <1>5, <1>6, <1>7, <1>8, <1>9, <1>10

\* However often ports are reused, a live connection never loses its route to a newcomer
\* or to cleanup_dead: only to the device, to a shutdown, or by number, to the unregister
\* of a failed handshake or to the late one of route(), which no longer holds the entry.
THEOREM RoutesLostByPort == Spec => RouteOnlyLostByPort
  <1> DEFINE I == TypeInv /\ HandInv /\ StopInv
  <1>1. Init => I
    <2>1. Init => StopInv BY DEF Init, StopInv
    <2> QED BY <2>1, TypeInit
  <1>2. I /\ [Next]_vars => I' BY TypeStep, StopStepInv
  <1>3. I /\ [Next]_vars =>
          [\A c \in Conns : LostRoute(c) =>
              \/ cancelled \/ ~up
              \/ wire # <<>> /\ Incoming.flag = "RST" /\ Incoming.port = port[c]
              \/ \E d \in Daemon : pc[d] = "unreg" /\ port[d] = port[c]
              \/ reader = "unreg" /\ Incoming.port = port[c]]_vars
    BY RouteTaken
  <1> QED BY <1>1, <1>2, <1>3, PTL DEF Spec, RouteOnlyLostByPort

------------------------------------------------------------------------------
(* Fewer connections than ports: no port is used twice.                      *)

Enough == IsFiniteSet(Conns) /\ Cardinality(Conns) < PortMod

UsedConns == {c \in Conns : port[c] # 0}

\* What is in a channel.
In(q) == {q[i] : i \in 1..Len(q)}

\* Every port in use names one connection.
PortsApart ==
    /\ \A c \in Conns : pc[c] \in {"idle", "reg", "probe"} => port[c] = 0
    /\ \A c, d \in UsedConns : port[c] = port[d] => c = d
    /\ IF next_source_port = 0 THEN UsedConns = Conns
       ELSE /\ Cardinality(UsedConns) = next_source_port - 1
            /\ \A c \in UsedConns : port[c] < next_source_port
    /\ \A p \in Ports : routes[p] # NoConn => port[routes[p]] = p
    /\ \A p \in Ports : dev[p] # NoConn => port[dev[p]] = p
    /\ \A k \in In(tx) \cup In(wire) : port[k.own] = k.port

Early == {"idle", "reg", "probe", "syn"}

\* A connection that has sent nothing has nothing under way.
Unsent ==
    /\ \A c \in Conns : pc[c] \in Early => chan[c] = <<>> /\ \A p \in Ports : dev[p] # c
    /\ \A k \in In(tx) \cup In(wire) : pc[k.own] \notin Early

\* c has a packet with this flag in q.
Has(q, c, flag) == \E k \in In(q) : k.own = c /\ k.flag = flag

\* The device has accepted the connection, as far as we can tell.
Established(c) ==
    \/ pc[c] \in {"ack", "attach", "open", "write"}
    \/ pc[c] = "wait" /\ (Has(wire, c, "SYNACK") \/ "SYNACK" \in In(chan[c]))

\* A connection that we have reset is over or has no route, and one that the device has
\* given up is going to be told.
Told(c) ==
    /\ c \in toReset => ~Routed(c) /\ pc[c] \notin Early
    /\ Has(tx, c, "RST") => pc[c] = "end" \/ ~Routed(c)
    /\ Established(c) /\ up /\ Reading /\ writer /\ Routed(c) =>
           dev[port[c]] = c \/ Has(wire, c, "RST")

\* The entry that route() waits for is still there; the one whose send has failed was of
\* a connection that is over.
GoneInv ==
    /\ reader = "send" => routes[Incoming.port] # NoConn
    /\ reader = "unreg" => pc[Incoming.own] \in {"unreg", "end"}

TalkInv ==
    /\ TypeInv /\ HandInv /\ StopInv /\ PortsApart /\ Unsent /\ GoneInv
    /\ \A c \in Conns : Told(c)

\* Appending to a channel, and taking from it.
LEMMA InQueue ==
    ASSUME NEW S, NEW q \in Seq(S)
    PROVE  /\ In(q) \subseteq S
           /\ \A k \in S : In(Append(q, k)) = In(q) \cup {k}
           /\ q # <<>> => Head(q) \in In(q) /\ In(q) = {Head(q)} \cup In(Tail(q))
           /\ In(<<>>) = {}
  <1>1. In(q) \subseteq S BY DEF In
  <1>2. ASSUME NEW k \in S PROVE In(Append(q, k)) = In(q) \cup {k}
    <2>1. /\ Len(Append(q, k)) = Len(q) + 1 /\ Len(q) \in Nat /\ Append(q, k)[Len(q) + 1] = k
          /\ \A i \in 1..Len(q) : Append(q, k)[i] = q[i]
      OBVIOUS
    <2>2. /\ \A i \in 1..(Len(q) + 1) : i \in 1..Len(q) \/ i = Len(q) + 1
          /\ \A i \in 1..Len(q) : i \in 1..(Len(q) + 1)
          /\ Len(q) + 1 \in 1..(Len(q) + 1)
      BY <2>1
    <2> QED BY <2>1, <2>2 DEF In
  <1>3. ASSUME q # <<>> PROVE Head(q) \in In(q) /\ In(q) = {Head(q)} \cup In(Tail(q))
    <2> DEFINE r == Tail(q)
    <2>1. /\ Len(q) \in Nat \ {0} /\ Len(r) = Len(q) - 1 /\ Head(q) = q[1]
          /\ \A i \in 1..Len(r) : r[i] = q[i + 1]
      BY <1>3
    <2> HIDE DEF r
    <2>2. /\ 1 \in 1..Len(q) /\ \A i \in 1..Len(r) : i + 1 \in 1..Len(q)
          /\ \A i \in 1..Len(q) : i = 1 \/ (i - 1 \in 1..Len(r) /\ (i - 1) + 1 = i)
      BY <2>1
    <2>3. \A i \in 1..Len(q) : i = 1 \/ q[i] = r[i - 1] BY <2>1, <2>2
    <2>4. In(r) \subseteq In(q) BY <2>1, <2>2 DEF In
    <2>5. In(q) \subseteq {Head(q)} \cup In(r) BY <2>1, <2>2, <2>3 DEF In
    <2>6. Head(q) \in In(q) BY <2>1, <2>2 DEF In
    <2>7. In(q) = {Head(q)} \cup In(r) BY <2>4, <2>5, <2>6
    <2> QED BY <2>6, <2>7 DEF r
  <1>4. In(<<>>) = {} BY DEF In
  <1> QED BY <1>1, <1>2, <1>3, <1>4

\* A step that gives out no port, and uses the ports of the packets it adds.
LEMMA ApartFrame ==
    ASSUME TypeInv, PortsApart, UNCHANGED <<port, next_source_port>>,
           \A c \in Conns : pc'[c] \in {"idle", "reg", "probe"} => pc[c] \in {"idle", "reg", "probe"},
           \A p \in Ports : routes'[p] \in {routes[p], NoConn},
           \A p \in Ports : dev'[p] \in {dev[p], NoConn} \/ port[dev'[p]] = p,
           \A k \in In(tx') \cup In(wire') : k \in In(tx) \cup In(wire) \/ port[k.own] = k.port
    PROVE  PortsApart'
  <1>1. UsedConns' = UsedConns BY DEF UsedConns
  <1> QED BY <1>1 DEF PortsApart

\* A connection that has a port is named by it.
LEMMA OwnerOfPort ==
    ASSUME TypeInv, PortsApart, NEW c \in Conns, NEW d \in Conns, port[c] = port[d], port[c] \in Ports
    PROVE  c = d
  <1>1. port[c] # 0 BY DeviceAssumption DEF Ports
  <1> QED BY <1>1 DEF PortsApart, UsedConns

\* register takes the next number: while there are more ports than connections it is
\* vacant and was never used.
LEMMA ProbeApart ==
    ASSUME Enough, TypeInv, PortsApart, NEW c \in Conns, Probe(c)
    PROVE  /\ PortsApart'
           /\ port[c] = 0 /\ port'[c] \in Ports /\ port' = [port EXCEPT ![c] = port'[c]]
           /\ pc' = [pc EXCEPT ![c] = "syn"]
           /\ routes' = [routes EXCEPT ![port'[c]] = c] /\ \A d \in UsedConns : port[d] # port'[c]
  <1> USE DEF devVars, stopVars
  <1>1. /\ pc[c] = "probe" /\ next_source_port' = (next_source_port + 1) % PortMod
        /\ UNCHANGED <<dev, tx, wire>>
    BY DEF Probe
  <1>2. port[c] = 0 /\ c \notin UsedConns BY <1>1 DEF PortsApart, UsedConns
  <1>3. next_source_port # 0 BY <1>2 DEF PortsApart
  <1> DEFINE n == next_source_port
             m == next_source_port'
  <1>4. /\ n \in 1..PortMod-1 /\ PortMod \in Nat
    BY <1>3, DeviceAssumption DEF TypeInv, TypeOK
  <1>5. n \in Ports BY <1>4 DEF Ports
  <1>6. /\ Cardinality(UsedConns) = n - 1 /\ \A d \in UsedConns : port[d] < n
    BY <1>3 DEF PortsApart
  <1>7. \A d \in UsedConns : port[d] \in Nat /\ d \in Conns BY DeviceAssumption DEF UsedConns, TypeInv, TypeOK
  <1>8. \A d \in UsedConns : port[d] # n BY <1>4, <1>6, <1>7
  <1>9. routes[n] = NoConn
    <2> SUFFICES ASSUME routes[n] # NoConn PROVE FALSE OBVIOUS
    <2>1. routes[n] \in Conns /\ port[routes[n]] = n BY <1>5 DEF PortsApart, TypeInv, TypeOK
    <2>2. routes[n] \in UsedConns BY <1>4, <2>1 DEF UsedConns
    <2> QED BY <1>8, <2>1, <2>2
  <1>10. /\ routes' = [routes EXCEPT ![n] = c] /\ port' = [port EXCEPT ![c] = n]
         /\ pc' = [pc EXCEPT ![c] = "syn"]
    BY <1>3, <1>9 DEF Probe
  <1>11. /\ port \in [Conns -> 0..PortMod-1] /\ pc \in [Conns -> Pcs] /\ routes \in [Ports -> Conns \cup {NoConn}]
    BY DEF TypeInv, TypeOK
  <1>12. port'[c] = n /\ \A d \in Conns : d # c => port'[d] = port[d] BY <1>10, <1>11
  <1>13. UsedConns' = UsedConns \cup {c} BY <1>4, <1>12 DEF UsedConns
  <1>14. IsFiniteSet(UsedConns) /\ UsedConns \subseteq Conns
    BY FS_Subset DEF Enough, UsedConns
  <1>15. Cardinality(UsedConns') = n
    <2>1. Cardinality(UsedConns \cup {c}) = Cardinality(UsedConns) + 1 BY <1>2, <1>14, FS_AddElement
    <2> QED BY <1>4, <1>6, <1>13, <2>1
  <1> HIDE DEF m
  <1>16. IF m = 0 THEN UsedConns' = Conns
         ELSE Cardinality(UsedConns') = m - 1 /\ \A d \in UsedConns' : port'[d] < m
    <2>1. CASE n = PortMod - 1
      <3>1. m = 0 BY <1>1, <1>4, <2>1 DEF m
      <3>2. UsedConns' \subseteq Conns BY <1>13, <1>14
      <3>3. Cardinality(Conns) \in Nat BY FS_CardinalityType DEF Enough
      <3>4. Cardinality(UsedConns') <= Cardinality(Conns) BY <3>2, FS_Subset DEF Enough
      <3>5. Cardinality(UsedConns') = Cardinality(Conns) BY <1>4, <1>15, <2>1, <3>3, <3>4 DEF Enough
      <3>6. UsedConns' = Conns BY <3>2, <3>5, FS_Subset DEF Enough
      <3> QED BY <3>1, <3>6
    <2>2. CASE n # PortMod - 1
      <3>1. m = n + 1 BY <1>1, <1>4, <2>2 DEF m
      <3>2. \A d \in UsedConns : port'[d] < m
        <4> SUFFICES ASSUME NEW d \in UsedConns PROVE port'[d] < m OBVIOUS
        <4>1. port'[d] = port[d] /\ port[d] \in Nat /\ port[d] < n BY <1>2, <1>6, <1>7, <1>12
        <4> QED BY <1>4, <3>1, <4>1
      <3>3. port'[c] < m BY <1>4, <1>12, <3>1
      <3>4. \A d \in UsedConns' : port'[d] < m BY <1>13, <3>2, <3>3
      <3>5. m - 1 = n /\ m # 0 BY <1>4, <3>1
      <3> QED BY <1>15, <3>4, <3>5
    <2> QED BY <2>1, <2>2
  <1>17. \A d \in Conns : pc'[d] \in {"idle", "reg", "probe"} => port'[d] = 0
    BY <1>10, <1>11, <1>12 DEF PortsApart
  <1>18. \A d, e \in UsedConns' : port'[d] = port'[e] => d = e
    <2> SUFFICES ASSUME NEW d \in UsedConns', NEW e \in UsedConns', port'[d] = port'[e] PROVE d = e OBVIOUS
    <2>1. \A x \in UsedConns : port'[x] = port[x] BY <1>2, <1>7, <1>12
    <2>2. CASE d = c \/ e = c BY <1>8, <1>12, <1>13, <2>1, <2>2
    <2>3. CASE d # c /\ e # c
      <3>1. d \in UsedConns /\ e \in UsedConns BY <1>13, <2>3
      <3>2. port[d] = port[e] BY <2>1, <3>1
      <3> QED BY <3>1, <3>2 DEF PortsApart
    <2> QED BY <2>2, <2>3
  <1>19. \A p \in Ports : routes'[p] # NoConn => port'[routes'[p]] = p
    <2> SUFFICES ASSUME NEW p \in Ports, routes'[p] # NoConn PROVE port'[routes'[p]] = p OBVIOUS
    <2>1. CASE p = n BY <1>5, <1>10, <1>11, <1>12, <2>1
    <2>2. CASE p # n
      <3>1. routes'[p] = routes[p] /\ routes[p] \in Conns BY <1>10, <1>11, <2>2
      <3>2. port[routes[p]] = p /\ p # 0 BY <3>1, DeviceAssumption DEF PortsApart, Ports
      <3>3. routes[p] # c BY <1>2, <3>2
      <3> QED BY <1>12, <3>1, <3>2, <3>3
    <2> QED BY <2>1, <2>2
  <1>20. \A p \in Ports : dev'[p] # NoConn => port'[dev'[p]] = p
    <2> SUFFICES ASSUME NEW p \in Ports, dev[p] # NoConn PROVE port'[dev[p]] = p BY <1>1
    <2>1. dev[p] \in Conns BY DEF TypeInv, TypeOK
    <2>2. port[dev[p]] = p BY DEF PortsApart
    <2>3. p # 0 BY DeviceAssumption DEF Ports
    <2> QED BY <1>2, <1>12, <2>1, <2>2, <2>3
  <1>21. \A k \in In(tx') \cup In(wire') : port'[k.own] = k.port
    <2> SUFFICES ASSUME NEW k \in In(tx) \cup In(wire) PROVE port'[k.own] = k.port BY <1>1
    <2>1. k \in TxPackets \cup WirePackets BY InQueue DEF TypeInv, TypeOK, TxPackets, WirePackets
    <2>2. k.own \in Conns /\ k.port \in Ports BY <2>1 DEF TxPackets, WirePackets, Packets
    <2>3. port[k.own] = k.port /\ k.port # 0 BY <2>2, DeviceAssumption DEF PortsApart, Ports
    <2> QED BY <1>2, <1>12, <2>2, <2>3
  <1>22. PortsApart' BY <1>16, <1>17, <1>18, <1>19, <1>20, <1>21 DEF PortsApart, m
  <1> QED BY <1>2, <1>5, <1>8, <1>10, <1>12, <1>22

\* What a connection queues.
LEMMA EnqueueIn ==
    ASSUME TypeInv, NEW c \in Conns, NEW flag \in {"SYN", "ACK", "RST"}, port[c] \in Ports,
           Enqueue(c, flag)
    PROVE  \A k \in In(tx') : k \in In(tx) \/ (k.own = c /\ k.flag = flag /\ k.port = port[c])
  <1> DEFINE e == [port |-> port[c], flag |-> flag, own |-> c]
  <1>1. tx \in Seq(TxPackets) /\ e \in TxPackets BY DEF TypeInv, TypeOK, TxPackets, Packets
  <1>2. tx' = Append(tx, e) BY DEF Enqueue
  <1>3. e.own = c /\ e.flag = flag /\ e.port = port[c] OBVIOUS
  <1> HIDE DEF e
  <1>4. In(tx') = In(tx) \cup {e} BY <1>1, <1>2, InQueue
  <1> QED BY <1>3, <1>4

\* What the device sends.
LEMMA ReplyIn ==
    ASSUME TypeInv, NEW p \in Ports, NEW flag \in {"SYNACK", "DATA", "RST"}, NEW c \in Conns,
           DeviceReplies(p, flag, c)
    PROVE  /\ \A k \in In(wire') : k \in In(wire) \/ (k.own = c /\ k.flag = flag /\ k.port = p)
           /\ In(wire) \subseteq In(wire') /\ Has(wire', c, flag)
  <1> DEFINE e == [port |-> p, flag |-> flag, own |-> c]
  <1>1. wire \in Seq(WirePackets) /\ e \in WirePackets BY DEF TypeInv, TypeOK, WirePackets, Packets
  <1>2. wire' = Append(wire, e) BY DEF DeviceReplies
  <1>3. e.own = c /\ e.flag = flag /\ e.port = p OBVIOUS
  <1> HIDE DEF e
  <1>4. In(wire') = In(wire) \cup {e} BY <1>1, <1>2, InQueue
  <1> QED BY <1>3, <1>4 DEF Has

\* What the loops take.
LEMMA TakeIn ==
    ASSUME TypeInv
    PROVE  /\ wire # <<>> => Incoming \in In(wire) /\ In(wire) = {Incoming} \cup In(Tail(wire))
           /\ tx # <<>> => Head(tx) \in In(tx) /\ In(tx) = {Head(tx)} \cup In(Tail(tx))
           /\ \A k \in In(tx) \cup In(wire) : k.own \in Conns /\ k.port \in Ports
  <1>1. tx \in Seq(TxPackets) /\ wire \in Seq(WirePackets) BY DEF TypeInv, TypeOK, TxPackets, WirePackets
  <1>2. \A k \in TxPackets \cup WirePackets : k.own \in Conns /\ k.port \in Ports
    BY DEF TxPackets, WirePackets, Packets
  <1> QED BY <1>1, <1>2, InQueue DEF Incoming

\* A step that starts no connection and sends for none that has not started.
LEMMA UnsentFrame ==
    ASSUME Unsent,
           \A c \in Conns : pc'[c] \in Early => pc[c] \in Early /\ chan'[c] = chan[c],
           \A p \in Ports : dev'[p] \in {dev[p], NoConn} \/ pc'[dev'[p]] \notin Early,
           \A k \in In(tx') \cup In(wire') :
               (k \in In(tx) \cup In(wire) /\ k.own \in Conns) \/ pc'[k.own] \notin Early
    PROVE  Unsent'
  <1>1. NoConn \notin Conns BY DeviceAssumption
  <1> QED BY <1>1 DEF Unsent

\* A step that resets no connection with a route, and after which a connection that the
\* device gives up is told.
LEMMA ToldFrame ==
    ASSUME NEW c, Told(c), port'[c] = port[c], Routed(c)' => Routed(c), pc[c] = "end" => pc'[c] = "end",
           c \in toReset' => (c \in toReset \/ ~Routed(c)'),
           c \in toReset' => pc'[c] \notin Early,
           Has(tx', c, "RST") => Has(tx, c, "RST") \/ pc'[c] = "end" \/ ~Routed(c)',
           Established(c)' /\ up' /\ Reading' /\ writer' /\ Routed(c)' =>
               \/ dev'[port[c]] = c \/ Has(wire', c, "RST")
               \/ /\ Established(c) /\ up /\ Reading /\ writer
                  /\ dev[port[c]] = c => dev'[port[c]] = c \/ Has(wire', c, "RST")
                  /\ Has(wire, c, "RST") => Has(wire', c, "RST")
    PROVE  Told(c)'
  BY DEF Told

\* A connection that loses no route keeps it, and nobody gets one back.
LEMMA RoutedFrame ==
    ASSUME TypeInv, \A p \in Ports : routes'[p] \in {routes[p], NoConn}, port' = port
    PROVE  \A c \in Conns : Routed(c)' => Routed(c) /\ port[c] \in Ports
  <1>1. \A c \in Conns : port[c] # 0 => port[c] \in Ports BY DeviceAssumption DEF TypeInv, TypeOK, Ports
  <1>2. NoConn \notin Conns BY DeviceAssumption
  <1> QED BY <1>1, <1>2 DEF Routed

\* The steps of a connection other than a probe.
LEMMA ConnTraffic ==
    ASSUME TypeInv, NEW c \in Conns, ConnNext(c), ~Probe(c)
    PROVE  /\ UNCHANGED <<port, next_source_port, dev, wire, up, reader, writer, toReset>>
           /\ \A p \in Ports : routes'[p] \in {routes[p], NoConn}
           /\ \A d \in Conns : d # c => pc'[d] = pc[d] /\ chan'[d] = chan[d]
           /\ \A k \in In(tx') : \/ k \in In(tx)
                                 \/ /\ k.own = c /\ k.port = port[c] /\ pc'[c] \notin Early
                                    /\ k.flag = "RST" => pc'[c] = "end"
           /\ pc[c] # "end"
           /\ pc'[c] \in Early => pc[c] \in Early /\ chan'[c] = chan[c]
           /\ pc'[c] \in {"idle", "reg", "probe"} => pc[c] \in {"idle", "reg", "probe"}
           /\ pc'[c] = "wait" => pc[c] = "syn" /\ chan'[c] = chan[c]
           /\ pc'[c] = "ack" => pc[c] = "wait" /\ "SYNACK" \in In(chan[c])
           /\ pc'[c] \in {"attach", "open", "write"} => pc[c] \in {"ack", "attach", "open", "write"}
  <1> USE DEF stopVars, devVars, connVars, routerVars
  <1>1. /\ pc \in [Conns -> Pcs] /\ chan \in [Conns -> Seq({"SYNACK", "DATA"})]
        /\ routes \in [Ports -> Conns \cup {NoConn}]
    BY DEF TypeInv, TypeOK
  <1>2. UNCHANGED <<port, dev, wire, up, reader, writer, toReset>>
    BY DEF ConnNext, TaskStep, ConnectStart, CleanupDead, ProbeFails, SendSyn, RecvSynAck, SendAck,
           Attach, HandshakeFails, Unregister, EndOpen, DropConn, Recv, ClientReads, Send, Close, Abandon
  <1>3. next_source_port' = next_source_port
    BY DEF ConnNext, TaskStep, ConnectStart, CleanupDead, ProbeFails, SendSyn, RecvSynAck, SendAck,
           Attach, HandshakeFails, Unregister, EndOpen, DropConn, Recv, ClientReads, Send, Close, Abandon, RemoveRoutes
  <1>4. \A p \in Ports : routes'[p] \in {routes[p], NoConn}
    <2>1. routes' = routes \/ \E S : RemoveRoutes(S)
      BY DEF ConnNext, TaskStep, ConnectStart, CleanupDead, ProbeFails, SendSyn, RecvSynAck, SendAck,
             Attach, HandshakeFails, Unregister, EndOpen, DropConn, Recv, ClientReads, Send, Close, Abandon
    <2> QED BY <2>1 DEF RemoveRoutes
  <1>5. pc[c] \notin {"idle", "reg", "probe", "end"} => port[c] \in Ports BY DEF TypeInv, PortInv
  <1> DEFINE Goal == /\ \A d \in Conns : d # c => pc'[d] = pc[d] /\ chan'[d] = chan[d]
                     /\ \A k \in In(tx') : \/ k \in In(tx)
                                           \/ /\ k.own = c /\ k.port = port[c] /\ pc'[c] \notin Early
                                              /\ k.flag = "RST" => pc'[c] = "end"
                     /\ pc[c] # "end"
                     /\ pc'[c] \in Early => pc[c] \in Early /\ chan'[c] = chan[c]
                     /\ pc'[c] \in {"idle", "reg", "probe"} => pc[c] \in {"idle", "reg", "probe"}
                     /\ pc'[c] = "wait" => pc[c] = "syn" /\ chan'[c] = chan[c]
                     /\ pc'[c] = "ack" => pc[c] = "wait" /\ "SYNACK" \in In(chan[c])
                     /\ pc'[c] \in {"attach", "open", "write"} => pc[c] \in {"ack", "attach", "open", "write"}
  <1> SUFFICES Goal BY <1>2, <1>3, <1>4
  <1>6. CASE ConnectStart(c) \/ CleanupDead(c) BY <1>1, <1>6 DEF ConnectStart, CleanupDead, Early
  <1>7. CASE ProbeFails(c) BY <1>1, <1>7 DEF ProbeFails, Early
  <1>8. CASE SendSyn(c)
    <2>1. \A k \in In(tx') : k \in In(tx) \/ (k.own = c /\ k.flag = "SYN" /\ k.port = port[c])
      BY <1>5, <1>8, EnqueueIn DEF SendSyn
    <2> QED BY <1>1, <1>8, <2>1 DEF SendSyn, Early
  <1>9. CASE RecvSynAck(c)
    <2>1. "SYNACK" \in In(chan[c]) BY <1>1, <1>9, InQueue DEF RecvSynAck
    <2> QED BY <1>1, <1>9, <2>1 DEF RecvSynAck, Early
  <1>10. CASE SendAck(c)
    <2>1. \A k \in In(tx') : k \in In(tx) \/ (k.own = c /\ k.flag = "ACK" /\ k.port = port[c])
      BY <1>5, <1>10, EnqueueIn DEF SendAck
    <2> QED BY <1>1, <1>10, <2>1 DEF SendAck, Early
  <1>11. CASE Attach(c) \/ EndOpen(c) \/ Abandon(c) \/ ClientReads(c)
    BY <1>1, <1>11 DEF Attach, EndOpen, Abandon, ClientReads, Opened, Early
  <1>12. CASE HandshakeFails(c)
    <2>1. /\ pc' = [pc EXCEPT ![c] = "unreg"] \/ pc' = [pc EXCEPT ![c] = "end"]
          /\ pc[c] \in {"wait", "syn", "ack"} /\ chan' = [chan EXCEPT ![c] = <<>>] /\ tx' = tx
      BY <1>12 DEF HandshakeFails
    <2> QED BY <1>1, <2>1 DEF Early
  <1>13. CASE Unregister(c) BY <1>1, <1>13 DEF Unregister, Early
  <1>14. CASE DropConn(c)
    <2>1. \A k \in In(tx') : k \in In(tx) \/ (k.own = c /\ k.flag = "RST" /\ k.port = port[c])
      BY <1>5, <1>14, EnqueueIn DEF DropConn
    <2> QED BY <1>1, <1>14, <2>1 DEF DropConn, Early
  <1>15. CASE Close(c)
    <2>1. \A k \in In(tx') : k \in In(tx) \/ (k.own = c /\ k.flag = "RST" /\ k.port = port[c])
      BY <1>5, <1>15, EnqueueIn DEF Close
    <2> QED BY <1>1, <1>15, <2>1 DEF Close, Early
  <1>16. CASE Recv(c) \/ Send(c)
    <2>1. \A k \in In(tx') : k \in In(tx) \/ (k.own = c /\ k.flag = "ACK" /\ k.port = port[c])
      BY <1>5, <1>16, EnqueueIn DEF Recv, Send
    <2> QED BY <1>1, <1>16, <2>1 DEF Recv, Send, Early
  <1> QED
    BY <1>6, <1>7, <1>8, <1>9, <1>10, <1>11, <1>12, <1>13, <1>14, <1>15, <1>16 DEF ConnNext, TaskStep

\* A step of a connection.
LEMMA ConnTalks ==
    ASSUME Enough, TalkInv, NEW c \in Conns, ConnNext(c)
    PROVE  PortsApart' /\ Unsent' /\ \A d \in Conns : Told(d)'
  <1> USE DEF TalkInv
  <1>1. \A k \in In(tx) \cup In(wire) : k.own \in Conns /\ k.port \in Ports BY TakeIn
  <1>2. CASE ~Probe(c)
    <2>1. /\ UNCHANGED <<port, next_source_port, dev, wire, up, reader, writer, toReset>>
          /\ \A p \in Ports : routes'[p] \in {routes[p], NoConn}
          /\ \A d \in Conns : d # c => pc'[d] = pc[d] /\ chan'[d] = chan[d]
          /\ \A k \in In(tx') : \/ k \in In(tx)
                                \/ /\ k.own = c /\ k.port = port[c] /\ pc'[c] \notin Early
                                   /\ k.flag = "RST" => pc'[c] = "end"
          /\ pc[c] # "end"
          /\ pc'[c] \in Early => pc[c] \in Early /\ chan'[c] = chan[c]
          /\ pc'[c] \in {"idle", "reg", "probe"} => pc[c] \in {"idle", "reg", "probe"}
          /\ pc'[c] = "wait" => pc[c] = "syn" /\ chan'[c] = chan[c]
          /\ pc'[c] = "ack" => pc[c] = "wait" /\ "SYNACK" \in In(chan[c])
          /\ pc'[c] \in {"attach", "open", "write"} => pc[c] \in {"ack", "attach", "open", "write"}
      BY <1>2, ConnTraffic
    <2>2. PortsApart' BY <2>1, ApartFrame
    <2>3. Unsent' BY <1>1, <2>1, UnsentFrame
    <2>4. ASSUME NEW d \in Conns PROVE Told(d)'
      <3>1. Told(d) /\ (Routed(d)' => Routed(d)) BY <2>1, RoutedFrame
      <3>2. Has(tx', d, "RST") => Has(tx, d, "RST") \/ pc'[d] = "end" BY <2>1 DEF Has
      <3>3. Established(d)' => Established(d)
        <4>1. CASE d # c BY <2>1, <4>1 DEF Established
        <4>2. CASE d = c
          <5>1. pc[c] = "syn" => chan[c] = <<>> /\ \A k \in In(wire) : k.own # c BY DEF Unsent, Early
          <5>2. In(<<>>) = {} BY DEF In
          <5>3. pc'[c] = "wait" => ~Established(c)' BY <2>1, <5>1, <5>2 DEF Established, Has
          <5> QED BY <2>1, <4>2, <5>3 DEF Established
        <4> QED BY <4>1, <4>2
      <3>4. d \in toReset => pc'[d] \notin Early BY <2>1, <3>1 DEF Told
      <3> QED BY <2>1, <3>1, <3>2, <3>3, <3>4, ToldFrame DEF Reading
    <2> QED BY <2>2, <2>3, <2>4
  <1>3. CASE Probe(c)
    <2>1. /\ PortsApart'
          /\ port[c] = 0 /\ port'[c] \in Ports /\ port' = [port EXCEPT ![c] = port'[c]]
          /\ pc' = [pc EXCEPT ![c] = "syn"]
          /\ routes' = [routes EXCEPT ![port'[c]] = c] /\ \A d \in UsedConns : port[d] # port'[c]
      BY <1>3, ProbeApart
    <2>2. UNCHANGED <<chan, tx, wire, reader, writer, up, dev, toReset>> /\ pc[c] = "probe"
      BY <1>3 DEF Probe, devVars, stopVars
    <2>3. pc \in [Conns -> Pcs] /\ port \in [Conns -> 0..PortMod-1] BY DEF TypeInv, TypeOK
    <2>4. \A d \in Conns : pc'[d] \in Early => pc[d] \in Early BY <2>1, <2>2, <2>3 DEF Early
    <2>5. \A d \in Conns : d # c => pc'[d] = pc[d] /\ port'[d] = port[d] BY <2>1, <2>3
    <2>6. Unsent' BY <1>1, <2>2, <2>4, UnsentFrame
    <2>7. ASSUME NEW d \in Conns PROVE Told(d)'
      <3>1. CASE d = c
        <4>1. pc'[c] = "syn" BY <2>1, <2>3
        <4>2. \A k \in In(tx) : k.own # c BY <2>2 DEF Unsent, Early
        <4>3. c \notin toReset BY <2>2 DEF Told, Early
        <4> QED BY <2>2, <3>1, <4>1, <4>2, <4>3 DEF Told, Has, Established
      <3>2. CASE d # c
        <4>1. Told(d) /\ pc'[d] = pc[d] /\ port'[d] = port[d] BY <2>5, <3>2
        <4>2. port[d] # 0 => port[d] \in Ports /\ port[d] # port'[c]
          BY <2>1, <2>3, DeviceAssumption DEF UsedConns, Ports
        <4>3. Routed(d)' => Routed(d)
          BY <2>1, <4>1, <4>2 DEF Routed, TypeInv, TypeOK
        <4>4. Established(d)' => Established(d) BY <2>2, <4>1 DEF Established
        <4>5. d \in toReset => pc'[d] \notin Early BY <4>1 DEF Told
        <4> QED BY <2>2, <4>1, <4>3, <4>4, <4>5, ToldFrame DEF Reading
      <3> QED BY <3>1, <3>2
    <2> QED BY <2>1, <2>6, <2>7
  <1> QED BY <1>2, <1>3

\* The reader loop.
LEMMA ReaderTalks ==
    ASSUME TalkInv, ReaderStep
    PROVE  PortsApart' /\ Unsent' /\ \A d \in Conns : Told(d)'
  <1> USE DEF TalkInv, stopVars, devVars, connVars, routerVars
  <1>1. /\ \A k \in In(tx) \cup In(wire) : k.own \in Conns /\ k.port \in Ports
        /\ \A k \in In(tx) \cup In(wire) : port[k.own] = k.port
    BY TakeIn DEF PortsApart
  <1>2. UNCHANGED <<pc, port, dev, tx, up, writer, toReset>>
    BY DEF ReaderStep, ReaderRst, ReaderRoute, ReaderSends, ReaderSendFails, ReaderUnregisters,
           ReaderReports, ReaderClears, ReaderStops
  <1>3. /\ next_source_port' = next_source_port
        /\ \A p \in Ports : routes'[p] \in {routes[p], NoConn}
    <2>1. UNCHANGED <<routes, next_source_port>> \/ \E S : RemoveRoutes(S)
      BY DEF ReaderStep, ReaderRst, ReaderRoute, ReaderSends, ReaderSendFails, ReaderUnregisters,
           ReaderReports, ReaderClears, ReaderStops
    <2> QED BY <2>1 DEF RemoveRoutes
  <1>4. CASE ReaderRst \/ (ReaderRoute /\ reader' = reader) \/ ReaderSends \/ ReaderUnregisters
    <2> DEFINE h == Incoming
    <2>1. wire # <<>> /\ wire' = Tail(wire)
      BY <1>4 DEF ReaderRst, ReaderRoute, ReaderTakes, ReaderSends, ReaderUnregisters, HandInv, InRoute
    <2>2. h \in In(wire) /\ In(wire) = {h} \cup In(wire') BY <2>1, TakeIn
    <2>3. h.own \in Conns /\ h.port \in Ports /\ port[h.own] = h.port BY <1>1, <2>2
    <2> HIDE DEF h
    <2>4. PortsApart' BY <1>2, <1>3, <2>2, ApartFrame
    <2>5. ASSUME NEW d \in Conns, chan'[d] # chan[d]
          PROVE  /\ d = h.own /\ pc[d] \notin Early
                 /\ chan[d] \in Seq({"SYNACK", "DATA"}) /\ h.flag \in {"SYNACK", "DATA"}
                 /\ chan'[d] = Append(chan[d], h.flag)
      <3>1. chan' # chan BY <2>5
      <3>2. /\ routes[h.port] # NoConn /\ h.flag # "RST"
            /\ chan' = [chan EXCEPT ![routes[h.port]] = Append(@, h.flag)]
        BY <1>4, <3>1 DEF ReaderRst, ReaderRoute, ReaderSends, ReaderUnregisters, h, HandInv, InRoute,
           GoneInv
      <3>3. chan \in [Conns -> Seq({"SYNACK", "DATA"})] /\ routes[h.port] \in Conns
        BY <2>3, <3>2 DEF TypeInv, TypeOK
      <3>4. d = routes[h.port] /\ chan'[d] = Append(chan[d], h.flag) BY <2>5, <3>2, <3>3
      <3>5. port[d] = h.port BY <2>3, <3>2, <3>4 DEF PortsApart
      <3>6. d = h.own BY <2>3, <3>3, <3>4, <3>5, OwnerOfPort
      <3>7. pc[d] \notin Early BY <2>2, <3>6 DEF Unsent
      <3>8. h.flag \in {"SYNACK", "DATA"}
        <4>1. wire \in Seq(WirePackets) BY DEF TypeInv, TypeOK, WirePackets
        <4>2. h \in WirePackets BY <2>2, <4>1, InQueue
        <4> QED BY <3>2, <4>2 DEF WirePackets, Packets
      <3> QED BY <3>3, <3>4, <3>6, <3>7, <3>8
    <2>6. Unsent' BY <1>1, <1>2, <2>2, <2>5, UnsentFrame
    <2>7. ASSUME NEW d \in Conns PROVE Told(d)'
      <3>1. Told(d) /\ (Routed(d)' => Routed(d) /\ port[d] \in Ports) BY <1>2, <1>3, RoutedFrame
      <3>2. Established(d)' => Established(d)
        <4>1. Has(wire', d, "SYNACK") => Has(wire, d, "SYNACK") BY <2>2 DEF Has
        <4>2. "SYNACK" \in In(chan'[d]) => "SYNACK" \in In(chan[d]) \/ Has(wire, d, "SYNACK")
          <5>1. CASE chan'[d] = chan[d] BY <5>1
          <5>2. CASE chan'[d] # chan[d]
            <6>1. /\ d = h.own /\ chan[d] \in Seq({"SYNACK", "DATA"}) /\ h.flag \in {"SYNACK", "DATA"}
                  /\ chan'[d] = Append(chan[d], h.flag)
              BY <2>5, <5>2
            <6>2. In(Append(chan[d], h.flag)) = In(chan[d]) \cup {h.flag} BY <6>1, InQueue
            <6>3. In(chan'[d]) = In(chan[d]) \cup {h.flag} BY <6>1, <6>2
            <6> QED BY <2>2, <6>1, <6>3 DEF Has
          <5> QED BY <5>1, <5>2
        <4> QED BY <1>2, <4>1, <4>2 DEF Established
      <3>3. Has(wire, d, "RST") /\ Routed(d)' => Has(wire', d, "RST")
        <4> SUFFICES ASSUME Has(wire, d, "RST"), Routed(d)', ~Has(wire', d, "RST") PROVE FALSE OBVIOUS
        <4>1. h.own = d /\ h.flag = "RST" BY <2>2 DEF Has
        <4>2. RemoveRoutes({h.port})
          BY <1>4, <4>1 DEF ReaderRst, ReaderRoute, ReaderSends, ReaderUnregisters, h, HandInv, InRoute
        <4>3. routes'[h.port] = NoConn /\ port[d] = h.port BY <2>3, <4>1, <4>2 DEF RemoveRoutes
        <4>4. NoConn \notin Conns BY DeviceAssumption
        <4> QED BY <1>2, <4>3, <4>4 DEF Routed
      <3>4. Reading BY <1>4 DEF ReaderRst, ReaderTakes, ReaderRoute, ReaderSends, ReaderUnregisters, Reading
      <3>5. d \in toReset => pc'[d] \notin Early BY <1>2, <3>1 DEF Told
      <3> QED BY <1>2, <3>1, <3>2, <3>3, <3>4, <3>5, ToldFrame
    <2> QED BY <2>4, <2>6, <2>7
  <1>5. CASE \/ ReaderReports \/ ReaderClears \/ ReaderStops
             \/ (ReaderRoute /\ reader' # reader) \/ ReaderSendFails
    <2>1. UNCHANGED <<chan, wire>> /\ (~Reading' \/ Reading)
      BY <1>5 DEF ReaderReports, ReaderClears, ReaderStops, ReaderRoute, ReaderTakes, ReaderSendFails,
         Reading
    <2>2. PortsApart' BY <1>2, <1>3, <2>1, ApartFrame
    <2>3. Unsent' BY <1>1, <1>2, <2>1, UnsentFrame
    <2>4. ASSUME NEW d \in Conns PROVE Told(d)'
      <3>1. Told(d) /\ (Routed(d)' => Routed(d)) BY <1>2, <1>3, RoutedFrame
      <3>2. d \in toReset => pc'[d] \notin Early BY <1>2, <3>1 DEF Told
      <3>3. Established(d)' => Established(d) BY <1>2, <2>1 DEF Established
      <3> QED BY <1>2, <2>1, <3>1, <3>2, <3>3, ToldFrame
    <2> QED BY <2>2, <2>3, <2>4
  <1> QED BY <1>4, <1>5 DEF ReaderStep

\* The writer loop and the device.
LEMMA WriterTalks ==
    ASSUME TalkInv,
           \/ WriterStep \/ WriterStops \/ Unplug
           \/ \E p \in Ports : DeviceData(p) \/ DeviceResets(p)
    PROVE  PortsApart' /\ Unsent' /\ \A d \in Conns : Told(d)'
  <1> USE DEF TalkInv, stopVars, devVars, connVars, routerVars
  <1>1. /\ \A k \in In(tx) \cup In(wire) : k.own \in Conns /\ k.port \in Ports
        /\ \A k \in In(tx) \cup In(wire) : port[k.own] = k.port /\ pc[k.own] \notin Early
        /\ dev \in [Ports -> Conns \cup {NoConn}] /\ NoConn \notin Conns
    BY TakeIn, DeviceAssumption DEF PortsApart, Unsent, TypeInv, TypeOK
  <1>2. UNCHANGED <<routes, next_source_port, chan, pc, port, reader, toReset>>
    BY DEF WriterStep, WriterStops, Unplug, DeviceData, DeviceResets
  <1>3. \A d \in Conns : Told(d) /\ (Routed(d)' => Routed(d) /\ port[d] \in Ports)
    BY <1>2, RoutedFrame
  <1>4. \A d \in Conns : d \in toReset => pc'[d] \notin Early BY <1>2, <1>3 DEF Told
  <1>5. CASE WriterStep
    <2> DEFINE k == Head(tx)
               p == k.port
               o == k.own
    <2>1. tx # <<>> /\ tx' = Tail(tx) /\ UNCHANGED <<up, writer>> BY <1>5 DEF WriterStep
    <2>2. k \in In(tx) /\ In(tx) = {k} \cup In(tx') BY <2>1, TakeIn
    <2>3. o \in Conns /\ p \in Ports /\ port[o] = p /\ pc[o] \notin Early BY <1>1, <2>2
    <2>4. (up /\ DeviceTakes(k)) \/ (~up /\ UNCHANGED <<dev, wire>>) BY <1>5 DEF WriterStep
    <2> HIDE DEF k
    <2>5. ASSUME NEW d \in Conns, port[d] = p PROVE d = o BY <2>3, <2>5, OwnerOfPort
    <2>6. /\ dev' \in {dev, [dev EXCEPT ![p] = o], [dev EXCEPT ![p] = NoConn]}
          /\ wire' = wire \/ \E f \in {"SYNACK", "RST"} : DeviceReplies(p, f, o)
      BY <2>4 DEF DeviceTakes
    <2> HIDE DEF p, o
    <2>7. /\ \A e \in In(wire') : e \in In(wire) \/ (e.own = o /\ e.port = p)
          /\ In(wire) \subseteq In(wire')
      <3>1. CASE wire' = wire BY <3>1
      <3>2. CASE \E f \in {"SYNACK", "RST"} : DeviceReplies(p, f, o) BY <2>3, <3>2, ReplyIn
      <3> QED BY <2>6, <3>1, <3>2
    <2>8. \A q \in Ports : dev'[q] \in {dev[q], NoConn} \/ (dev'[q] = o /\ q = p) BY <1>1, <2>3, <2>6
    <2>9. PortsApart' BY <1>2, <2>2, <2>3, <2>7, <2>8, ApartFrame
    <2>10. Unsent' BY <1>1, <1>2, <2>2, <2>3, <2>7, <2>8, UnsentFrame
    <2>11. ASSUME NEW d \in Conns PROVE Told(d)'
      <3>1. Has(tx', d, "RST") => Has(tx, d, "RST") BY <2>2 DEF Has
      <3>2. Has(wire, d, "RST") => Has(wire', d, "RST") BY <2>7 DEF Has
      <3>3. CASE d # o
        <4>1. Established(d)' => Established(d) BY <1>2, <2>7, <3>3 DEF Established, Has
        <4>2. port[d] \in Ports => dev'[port[d]] = dev[port[d]] BY <1>1, <2>3, <2>5, <2>6, <3>3
        <4> QED BY <1>2, <1>3, <1>4, <2>1, <3>1, <3>2, <4>1, <4>2, ToldFrame DEF Reading
      <3>4. CASE d = o
        <4>1. CASE ~up
          <5>1. UNCHANGED <<dev, wire>> BY <2>4, <4>1
          <5> QED BY <1>2, <1>3, <1>4, <2>1, <3>1, <4>1, <5>1, ToldFrame
        <4>2. CASE up /\ k.flag = "RST"
          <5>1. Has(tx, d, "RST") BY <2>2, <3>4, <4>2 DEF Has, o
          <5>2. pc'[d] = "end" \/ ~Routed(d)' BY <1>2, <1>3, <5>1 DEF Told
          <5>3. ~(Established(d)' /\ Routed(d)') BY <5>2 DEF Established
          <5> QED BY <1>2, <1>3, <1>4, <3>1, <5>3, ToldFrame
        <4>3. CASE up /\ k.flag = "SYN"
          <5>1. \/ DeviceReplies(p, "SYNACK", o) /\ dev' = [dev EXCEPT ![p] = o]
                \/ DeviceReplies(p, "RST", o)
            BY <2>4, <4>3 DEF DeviceTakes, p, o
          <5>2. dev'[port[d]] = d \/ Has(wire', d, "RST") BY <1>1, <2>3, <3>4, <5>1, ReplyIn
          <5> QED BY <1>2, <1>3, <1>4, <3>1, <5>2, ToldFrame
        <4>4. CASE up /\ k.flag \notin {"SYN", "RST"}
          <5>1. dev' = dev /\ (wire' = wire \/ DeviceReplies(p, "RST", o))
            BY <2>4, <4>4 DEF DeviceTakes, p, o
          <5>2. CASE wire' = wire
            <6>1. Established(d)' => Established(d) BY <1>2, <5>2 DEF Established
            <6> QED BY <1>2, <1>3, <1>4, <2>1, <3>1, <3>2, <5>1, <6>1, ToldFrame DEF Reading
          <5>3. CASE DeviceReplies(p, "RST", o)
            <6>1. Has(wire', d, "RST") BY <2>3, <3>4, <5>3, ReplyIn
            <6> QED BY <1>2, <1>3, <1>4, <3>1, <6>1, ToldFrame
          <5> QED BY <5>1, <5>2, <5>3
        <4> QED BY <2>4, <4>1, <4>2, <4>3, <4>4
      <3> QED BY <3>3, <3>4
    <2> QED BY <2>9, <2>10, <2>11
  <1>6. CASE WriterStops \/ Unplug
    <2>1. /\ In(tx') \subseteq In(tx) /\ In(wire') \subseteq In(wire)
          /\ \A p \in Ports : dev'[p] \in {dev[p], NoConn}
          /\ ~writer' \/ ~up'
      <3>1. CASE WriterStops BY <3>1 DEF WriterStops, In
      <3>2. CASE Unplug
        <4>1. wire \in Seq(WirePackets) BY DEF TypeInv, TypeOK, WirePackets
        <4>2. PICK n \in 0..Len(wire) : wire' = SubSeq(wire, 1, n) BY <3>2 DEF Unplug
        <4>3. In(wire') \subseteq In(wire) BY <4>1, <4>2, PrefixOf DEF In
        <4> QED BY <3>2, <4>3 DEF Unplug
      <3> QED BY <1>6, <3>1, <3>2
    <2>2. PortsApart' BY <1>2, <2>1, ApartFrame
    <2>3. Unsent' BY <1>1, <1>2, <2>1, UnsentFrame
    <2>4. ASSUME NEW d \in Conns PROVE Told(d)'
      <3>1. Has(tx', d, "RST") => Has(tx, d, "RST") BY <2>1 DEF Has
      <3> QED BY <1>2, <1>3, <1>4, <2>1, <3>1, ToldFrame
    <2> QED BY <2>2, <2>3, <2>4
  <1>7. ASSUME NEW p \in Ports, DeviceData(p) \/ DeviceResets(p)
        PROVE  PortsApart' /\ Unsent' /\ \A d \in Conns : Told(d)'
    <2> DEFINE o == dev[p]
    <2>1. /\ o \in Conns /\ UNCHANGED <<tx, up, writer>>
          /\ \/ dev' = dev /\ DeviceReplies(p, "DATA", o)
             \/ dev' = [dev EXCEPT ![p] = NoConn] /\ DeviceReplies(p, "RST", o)
      BY <1>1, <1>7 DEF DeviceData, DeviceResets
    <2>2. port[o] = p /\ pc[o] \notin Early BY <1>1, <2>1 DEF PortsApart, Unsent
    <2> HIDE DEF o
    <2>3. /\ \A e \in In(wire') : e \in In(wire) \/ (e.own = o /\ e.port = p /\ e.flag # "SYNACK")
          /\ In(wire) \subseteq In(wire')
      BY <2>1, ReplyIn
    <2>4. \A q \in Ports : dev'[q] \in {dev[q], NoConn} BY <1>1, <2>1
    <2>5. PortsApart' BY <1>2, <2>1, <2>2, <2>3, <2>4, ApartFrame
    <2>6. Unsent' BY <1>1, <1>2, <2>1, <2>2, <2>3, <2>4, UnsentFrame
    <2>7. ASSUME NEW d \in Conns PROVE Told(d)'
      <3>1. Established(d)' => Established(d) BY <1>2, <2>3 DEF Established, Has
      <3>2. Has(wire, d, "RST") => Has(wire', d, "RST") BY <2>3 DEF Has
      <3>3. port[d] \in Ports /\ dev[port[d]] = d => dev'[port[d]] = d \/ Has(wire', d, "RST")
        <4>1. CASE dev' = dev BY <4>1
        <4>2. CASE dev' = [dev EXCEPT ![p] = NoConn] /\ DeviceReplies(p, "RST", o)
          <5>1. Has(wire', o, "RST") BY <2>1, <4>2, ReplyIn
          <5> QED BY <1>1, <4>2, <5>1 DEF o
        <4> QED BY <2>1, <4>1, <4>2
      <3> QED BY <1>2, <1>3, <1>4, <2>1, <3>1, <3>2, <3>3, ToldFrame DEF Reading
    <2> QED BY <2>5, <2>6, <2>7
  <1> QED BY <1>5, <1>6, <1>7

\* Removal and shutdown.
LEMMA StopTalks ==
    ASSUME TalkInv, StopStep \/ Cleanup \/ Hotplug \/ PreflightCancelled \/ PreflightDone \/ UNCHANGED vars
    PROVE  PortsApart' /\ Unsent' /\ \A d \in Conns : Told(d)'
  <1> USE DEF TalkInv, stopVars, devVars, connVars, routerVars
  <1>1. /\ \A k \in In(tx) \cup In(wire) : k.own \in Conns /\ k.port \in Ports
        /\ \A d \in Conns : Told(d) /\ (d \in toReset => pc[d] \notin Early)
        /\ pc \in [Conns -> Pcs]
    BY TakeIn DEF Told, TypeInv, TypeOK
  <1>2. UNCHANGED <<next_source_port, port, dev, wire, up, reader, writer>>
    BY DEF StopStep, RemoveDevice, RemoveUnknown, CloseAllTake, CloseAllRst, ShutdownReturns,
           DropDevice, Cleanup, Hotplug, PreflightDone, PreflightCancelled, vars, RemoveRoutes
  <1>3. \A p \in Ports : routes'[p] \in {routes[p], NoConn}
    <2>1. routes' = routes \/ \E S : RemoveRoutes(S)
      BY DEF StopStep, RemoveDevice, RemoveUnknown, CloseAllTake, CloseAllRst, ShutdownReturns,
             DropDevice, Cleanup, Hotplug, PreflightDone, PreflightCancelled, vars
    <2> QED BY <2>1 DEF RemoveRoutes
  <1>4. \A d \in Conns : Routed(d)' => Routed(d) /\ port[d] \in Ports BY <1>2, <1>3, RoutedFrame
  <1>5. CASE CloseAllTake
    <2>1. UNCHANGED <<chan, pc, tx>> /\ RemoveRoutes(Ports) BY <1>5 DEF CloseAllTake
    <2>2. PortsApart' /\ Unsent' BY <1>1, <1>2, <1>3, <2>1, ApartFrame, UnsentFrame
    <2>3. ASSUME NEW d \in Conns PROVE Told(d)'
      <3>1. ~Routed(d)'
        <4>1. port[d] \in Ports => routes'[port[d]] = NoConn BY <2>1 DEF RemoveRoutes
        <4>2. NoConn \notin Conns BY DeviceAssumption
        <4> QED BY <1>2, <1>4, <4>1, <4>2 DEF Routed
      <3>2. d \in toReset' => pc'[d] \notin Early BY <1>5, <2>1 DEF CloseAllTake, Upgradable, Early
      <3> QED BY <3>1, <3>2 DEF Told
    <2> QED BY <2>2, <2>3
  <1>6. ASSUME NEW c \in Conns, CloseAllRst(c)
        PROVE  PortsApart' /\ Unsent' /\ \A d \in Conns : Told(d)'
    <2>1. UNCHANGED <<chan, pc>> /\ c \in toReset /\ toReset' \subseteq toReset BY <1>6 DEF CloseAllRst
    <2>2. port[c] \in Ports /\ pc[c] \notin Early BY <1>1, <2>1 DEF TypeInv, PortInv
    <2>3. \A k \in In(tx') : k \in In(tx) \/ (k.own = c /\ k.port = port[c])
      BY <1>6, <2>2, EnqueueIn DEF CloseAllRst
    <2>4. PortsApart' BY <1>2, <1>3, <2>1, <2>3, ApartFrame
    <2>5. Unsent' BY <1>1, <1>2, <2>1, <2>2, <2>3, UnsentFrame
    <2>6. ASSUME NEW d \in Conns PROVE Told(d)'
      <3>1. Has(tx', d, "RST") => Has(tx, d, "RST") \/ ~Routed(d)'
        <4>1. CASE d = c BY <1>1, <1>4, <2>1, <4>1 DEF Told
        <4>2. CASE d # c BY <2>3, <4>2 DEF Has
        <4> QED BY <4>1, <4>2
      <3>2. Established(d)' => Established(d) BY <1>2, <2>1 DEF Established
      <3> QED BY <1>1, <1>2, <1>4, <2>1, <3>1, <3>2, ToldFrame DEF Reading
    <2> QED BY <2>4, <2>5, <2>6
  <1>7. CASE PreflightCancelled
    <2>1. /\ UNCHANGED <<tx, toReset>>
          /\ \A d \in Conns : \/ pc'[d] = pc[d] /\ chan'[d] = chan[d]
                              \/ pc'[d] = "end" \/ (pc[d] \in {"open", "drop"} /\ pc'[d] = "drop")
      BY <1>1, <1>7 DEF PreflightCancelled
    <2>2. \A d \in Conns : /\ pc'[d] \in Early => pc[d] \in Early /\ chan'[d] = chan[d]
                           /\ pc'[d] \in {"idle", "reg", "probe"} => pc[d] \in {"idle", "reg", "probe"}
                           /\ pc[d] = "end" => pc'[d] = "end"
      BY <2>1 DEF Early
    <2>3. PortsApart' BY <1>2, <1>3, <2>1, <2>2, ApartFrame
    <2>4. Unsent' BY <1>1, <1>2, <2>1, <2>2, UnsentFrame
    <2>5. ASSUME NEW d \in Conns PROVE Told(d)'
      <3>1. Established(d)' => Established(d) BY <1>2, <2>1 DEF Established
      <3> QED BY <1>1, <1>2, <1>4, <2>1, <2>2, <3>1, ToldFrame DEF Reading
    <2> QED BY <2>3, <2>4, <2>5
  <1>8. CASE UNCHANGED <<chan, pc, tx, toReset>>
    <2>1. PortsApart' /\ Unsent' BY <1>1, <1>2, <1>3, <1>8, ApartFrame, UnsentFrame
    <2>2. ASSUME NEW d \in Conns PROVE Told(d)'
      <3>1. Established(d)' => Established(d) BY <1>2, <1>8 DEF Established
      <3> QED BY <1>1, <1>2, <1>4, <1>8, <3>1, ToldFrame DEF Reading
    <2> QED BY <2>1, <2>2
  <1>9. \/ CloseAllTake \/ (\E c \in Conns : CloseAllRst(c)) \/ PreflightCancelled
        \/ UNCHANGED <<chan, pc, tx, toReset>>
    BY DEF StopStep, RemoveDevice, RemoveUnknown, ShutdownReturns, DropDevice, Cleanup, Hotplug,
           PreflightDone, vars
  <1> QED BY <1>5, <1>6, <1>7, <1>8, <1>9

\* Nothing has been said at the start.
LEMMA TalkInit == Enough /\ Init => TalkInv
  <1> SUFFICES ASSUME Enough, Init PROVE TalkInv OBVIOUS
  <1>1. TypeInv /\ HandInv /\ StopInv /\ GoneInv BY TypeInit DEF Init, StopInv, GoneInv
  <1>2. In(tx) = {} /\ In(wire) = {} BY DEF Init, In
  <1>3. UsedConns = {} BY DEF Init, UsedConns
  <1>4. Cardinality({}) = 0 BY FS_EmptySet
  <1>5. PortsApart BY <1>2, <1>3, <1>4 DEF Init, PortsApart
  <1>6. Unsent BY <1>2, DeviceAssumption DEF Init, Unsent
  <1>7. \A c \in Conns : Told(c) BY <1>2 DEF Init, Told, Has, Established
  <1> QED BY <1>1, <1>5, <1>6, <1>7 DEF TalkInv

\* While route() waits for room nobody removes its entry, which is locked; and a
\* connection that is over stays so.
LEMMA GoneStep ==
    ASSUME Enough, TalkInv, [Next]_vars
    PROVE  GoneInv'
  <1> USE DEF TalkInv, stopVars, devVars, connVars, routerVars
  <1>1. wire # <<>> => Incoming \in In(wire) /\ Incoming.own \in Conns /\ Incoming.port \in Ports
    BY TakeIn
  <1>2. /\ InRoute => wire # <<>> /\ Incoming.flag # "RST"
        /\ routes \in [Ports -> Conns \cup {NoConn}] /\ NoConn \notin Conns /\ pc \in [Conns -> Pcs]
    BY DeviceAssumption DEF HandInv, TypeInv, TypeOK
  <1>3. ASSUME reader' = reader, InRoute => Incoming' = Incoming,
               InRoute /\ routes[Incoming.port] # NoConn /\ reader = "send" =>
                   routes'[Incoming.port] # NoConn,
               \A c \in Conns : pc[c] \in {"unreg", "end"} => pc'[c] \in {"unreg", "end"}
        PROVE  GoneInv'
    BY <1>1, <1>2, <1>3 DEF GoneInv, InRoute
  <1>4. ASSUME NEW c \in Conns, ConnNext(c) PROVE GoneInv'
    <2>1. UNCHANGED <<reader, wire>>
      BY <1>4 DEF ConnNext, TaskStep, ConnectStart, CleanupDead, Probe, ProbeFails, SendSyn, RecvSynAck,
             SendAck, Attach, HandshakeFails, Unregister, EndOpen, DropConn, Recv, ClientReads, Send,
             Close, Abandon
    <2>2. \A d \in Conns : pc[d] \in {"unreg", "end"} => pc'[d] \in {"unreg", "end"}
      <3>1. \/ pc' = pc
            \/ pc[c] \notin {"unreg", "end"} /\ \E to \in Pcs : pc' = [pc EXCEPT ![c] = to]
            \/ pc' = [pc EXCEPT ![c] = "end"]
        BY <1>4 DEF ConnNext, TaskStep, ConnectStart, CleanupDead, Probe, ProbeFails, SendSyn, RecvSynAck,
             SendAck, Attach, HandshakeFails, Unregister, EndOpen, DropConn, Recv, ClientReads, Send,
             Close, Abandon, Opened, Pcs
      <3> QED BY <1>2, <3>1
    <2>3. ASSUME reader = "send", routes[Incoming.port] # NoConn PROVE routes'[Incoming.port] # NoConn
      <3>1. wire # <<>> /\ Incoming.port \in Ports BY <1>1, <1>2, <2>3 DEF InRoute
      <3>2. CASE Unregister(c)
        <4>1. RemoveRoutes({port[c]}) /\ ~Locked(port[c]) BY <3>2 DEF Unregister
        <4>2. port[c] # Incoming.port BY <2>3, <4>1 DEF Locked
        <4> QED BY <2>3, <3>1, <4>1, <4>2 DEF RemoveRoutes
      <3>3. CASE Probe(c)
        <4> DEFINE sp == IF next_source_port = 0 THEN 1 ELSE next_source_port
        <4>1. routes' = routes \/ routes' = [routes EXCEPT ![sp] = c] BY <3>3 DEF Probe
        <4> HIDE DEF sp
        <4> QED BY <1>2, <2>3, <3>1, <4>1
      <3>4. Unregister(c) \/ Probe(c) \/ routes' = routes
        BY <1>4, <2>3 DEF ConnNext, TaskStep, ConnectStart, CleanupDead, ProbeFails, SendSyn, RecvSynAck,
             SendAck, Attach, HandshakeFails, EndOpen, DropConn, Recv, ClientReads, Send, Close, Abandon
      <3> QED BY <2>3, <3>2, <3>3, <3>4
    <2> QED BY <1>3, <2>1, <2>2, <2>3 DEF Incoming
  <1>5. CASE ReaderStep
    <2>1. CASE ReaderRoute BY <2>1 DEF ReaderRoute, ReaderTakes, GoneInv, Incoming
    <2>2. CASE ReaderSendFails
      <3> DEFINE c == routes[Incoming.port]
      <3>1. /\ reader = "send" /\ reader' = "unreg" /\ UNCHANGED <<pc, wire>> /\ ~RxAlive(c)
        BY <2>2 DEF ReaderSendFails
      <3>2. c # NoConn /\ wire # <<>> BY <1>2, <3>1 DEF GoneInv, InRoute
      <3>3. /\ Incoming \in In(wire) /\ Incoming.own \in Conns /\ Incoming.port \in Ports
            /\ c \in Conns
        BY <1>1, <1>2, <3>2
      <3>4. port[c] = Incoming.port /\ port[Incoming.own] = Incoming.port
        BY <3>2, <3>3 DEF PortsApart
      <3>5. c = Incoming.own BY <3>3, <3>4, OwnerOfPort
      <3>6. pc[Incoming.own] \notin Early BY <3>3 DEF Unsent
      <3>7. ~RxAlive(Incoming.own) BY <3>1, <3>5
      <3>8. pc[Incoming.own] \in {"unreg", "end"}
        BY <1>2, <3>3, <3>6, <3>7 DEF RxAlive, HandshakePcs, Early, Pcs
      <3> QED BY <3>1, <3>8 DEF GoneInv, Incoming
    <2>3. CASE ~(ReaderRoute \/ ReaderSendFails)
      <3>1. reader' \notin {"send", "unreg"}
        BY <1>5, <2>3 DEF ReaderStep, ReaderRst, ReaderTakes, ReaderSends, ReaderUnregisters,
           ReaderReports, ReaderClears, ReaderStops
      <3> QED BY <3>1 DEF GoneInv
    <2> QED BY <2>1, <2>2, <2>3
  <1>6. CASE WriterStep \/ Unplug \/ \E p \in Ports : DeviceData(p) \/ DeviceResets(p)
    <2>1. UNCHANGED <<reader, routes, pc>> BY <1>6 DEF WriterStep, Unplug, DeviceData, DeviceResets
    <2>2. InRoute => Incoming' = Incoming BY <1>6, HeadStays
    <2> QED BY <1>3, <2>1, <2>2
  <1>7. CASE \/ WriterStops \/ StopStep \/ Cleanup \/ Hotplug \/ PreflightCancelled \/ PreflightDone
             \/ UNCHANGED vars
    <2>1. UNCHANGED <<reader, wire>>
      BY <1>7 DEF WriterStops, StopStep, RemoveDevice, RemoveUnknown, CloseAllTake, CloseAllRst,
           ShutdownReturns, DropDevice, Cleanup, Hotplug, PreflightCancelled, PreflightDone, vars
    <2>2. \A c \in Conns : pc[c] \in {"unreg", "end"} => pc'[c] \in {"unreg", "end"}
      BY <1>7 DEF WriterStops, StopStep, RemoveDevice, RemoveUnknown, CloseAllTake, CloseAllRst,
           ShutdownReturns, DropDevice, Cleanup, Hotplug, PreflightCancelled, PreflightDone, vars
    <2>3. reader = "send" => routes' = routes
      BY <1>7 DEF WriterStops, StopStep, RemoveDevice, RemoveUnknown, CloseAllTake, CloseAllRst,
           ShutdownReturns, DropDevice, Cleanup, Hotplug, PreflightCancelled, PreflightDone, vars
    <2> QED BY <1>3, <2>1, <2>2, <2>3 DEF Incoming
  <1> QED BY <1>4, <1>5, <1>6, <1>7 DEF Next

\* Every step keeps ports apart and connections informed.
LEMMA TalkStep == Enough /\ TalkInv /\ [Next]_vars => TalkInv'
  <1> SUFFICES ASSUME Enough, TalkInv, [Next]_vars PROVE TalkInv' OBVIOUS
  <1>1. TypeInv' /\ HandInv' /\ StopInv' BY TypeStep, StopStepInv DEF TalkInv
  <1>2. PortsApart' /\ Unsent' /\ \A d \in Conns : Told(d)'
    BY ConnTalks, ReaderTalks, WriterTalks, StopTalks DEF Next
  <1>3. GoneInv' BY GoneStep
  <1> QED BY <1>1, <1>2, <1>3 DEF TalkInv

\* While there have been fewer connections than ports, no connection stays open on our
\* side only: if the device no longer has it, a reset is on its way, or the connection
\* has lost its route and will see the end of its channel.
THEOREM NoneHalfOpen == ASSUME Enough PROVE Spec => []NoHalfOpen
  <1>1. Init => TalkInv BY TalkInit
  <1>2. TalkInv /\ [Next]_vars => TalkInv' BY TalkStep
  <1>3. TalkInv => NoHalfOpen
    <2> SUFFICES ASSUME TalkInv, NEW c \in Conns, Opened(c), up, Reading, writer,
                        dev[port[c]] # c, Routed(c)
                 PROVE  RstComing(c)
      BY DEF NoHalfOpen
    <2>1. Has(wire, c, "RST") BY DEF TalkInv, Told, Established, Opened
    <2>2. PICK k \in In(wire) : k.own = c /\ k.flag = "RST" BY <2>1 DEF Has
    <2>3. k.port = port[c] BY <2>2 DEF TalkInv, PortsApart
    <2>4. \E i \in 1..Len(wire) : wire[i] = k BY DEF In
    <2> QED BY <2>2, <2>3, <2>4 DEF RstComing
  <1> QED BY <1>1, <1>2, <1>3, PTL DEF Spec

\* While there have been fewer connections than ports, a live connection loses its route
\* only to an RST that the device sent for this very connection, to an I/O error or to a
\* shutdown.
THEOREM RoutesLostToDevice == ASSUME Enough PROVE Spec => RouteOnlyLostToDevice
  <1>1. Init => TalkInv BY TalkInit
  <1>2. TalkInv /\ [Next]_vars => TalkInv' BY TalkStep
  <1>3. TalkInv /\ [Next]_vars =>
          [\A c \in Conns : LostRoute(c) =>
              \/ cancelled \/ ~up
              \/ wire # <<>> /\ Incoming.flag = "RST" /\ Incoming.own = c]_vars
    <2> SUFFICES ASSUME TalkInv, [Next]_vars, NEW c \in Conns, LostRoute(c), ~cancelled, up
                 PROVE  wire # <<>> /\ Incoming.flag = "RST" /\ Incoming.own = c
      OBVIOUS
    <2>1. TypeInv /\ StopInv /\ PortsApart BY DEF TalkInv
    <2>2. port[c] \in Ports /\ RxAlive(c)
      <3>1. port[c] \in 0..PortMod-1 /\ port[c] # 0 /\ PortMod \in Nat
        BY <2>1, DeviceAssumption DEF LostRoute, Routed, TypeInv, TypeOK
      <3> QED BY <3>1 DEF LostRoute, Ports
    <2>3. \/ wire # <<>> /\ Incoming.flag = "RST" /\ Incoming.port = port[c]
          \/ \E d \in Daemon : pc[d] = "unreg" /\ port[d] = port[c]
          \/ reader = "unreg" /\ Incoming.port = port[c]
      BY <2>1, RouteTaken
    <2>4. ~ \E d \in Daemon : pc[d] = "unreg" /\ port[d] = port[c]
      <3> SUFFICES ASSUME NEW d \in Daemon, pc[d] = "unreg", port[d] = port[c] PROVE FALSE OBVIOUS
      <3>1. d \in Conns BY DEF Conns
      <3>2. d = c BY <2>1, <2>2, <3>1, OwnerOfPort
      <3> QED BY <2>2, <3>2 DEF RxAlive, HandshakePcs
    <2>5. wire # <<>> /\ Incoming.port = port[c]
      BY <2>3, <2>4 DEF TalkInv, HandInv, InRoute
    <2>6. Incoming \in In(wire) /\ Incoming.own \in Conns /\ Incoming.port = port[Incoming.own]
      BY <2>1, <2>5, TakeIn DEF PortsApart
    <2>7. Incoming.own = c BY <2>1, <2>2, <2>5, <2>6, OwnerOfPort
    <2>8. reader # "unreg" BY <2>2, <2>7 DEF TalkInv, GoneInv, RxAlive, HandshakePcs
    <2> QED BY <2>3, <2>4, <2>5, <2>7, <2>8
  <1> QED BY <1>1, <1>2, <1>3, PTL DEF Spec, RouteOnlyLostToDevice
=============================================================================
