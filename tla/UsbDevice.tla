------------------------------ MODULE UsbDevice ------------------------------
(***************************************************************************)
(* One USB device as the daemon sees it: the packet router, the reader and  *)
(* writer loops, the connections from connect to drop, and the way the      *)
(* device is shut down or removed after it was unplugged.                   *)
(*                                                                          *)
(* A connection c is used once.  Connections in Daemon are opened by        *)
(* handler::connect, which keeps a CONNECTED_DEVICES guard during the       *)
(* handshake; those in Provider are opened by the RusbmuxProvider of the    *)
(* preflight task.  Byte counts and windows are in UsbConn: here a packet   *)
(* is a flag and a port.  The field own names the connection a packet was   *)
(* sent for; only properties read it.                                       *)
(***************************************************************************)
EXTENDS Integers, Sequences, FiniteSets

CONSTANTS
    Daemon, Provider,       \* the connections, by the code that opens them
    NoConn,                 \* a vacant route
    PortMod,                \* 2^16: source ports are u16
    Shards,                 \* shards of the routes map, each with a lock of its own
    MAX_SOURCE_PORT_PROBES, \* 64 in the code
    ChanCap,                \* capacity of a route's channel, 256 in the code
    TxCap,                  \* capacity of the writer channel, 256 in the code
    WireCap,                \* bound: packets the device has in flight
    Exits                   \* bound: the daemon may be stopped while a device is attached

Conns == Daemon \cup Provider

ASSUME DeviceAssumption ==
    /\ Daemon \cap Provider = {} /\ NoConn \notin Conns
    /\ PortMod \in Nat /\ PortMod > 1 /\ Shards \in Nat \ {0}
    /\ MAX_SOURCE_PORT_PROBES \in Nat
    /\ ChanCap \in Nat \ {0} /\ TxCap \in Nat \ {0} /\ WireCap \in Nat \ {0}
    /\ Exits \in BOOLEAN

VARIABLES
    \* PacketRouter
    routes,            \* port -> connection whose channel the entry holds
    attached,          \* port -> the conn field of its entry
    next_source_port,
    chan,              \* packets in the channel of a connection
    \* connections
    pc, port, probes,
    \* writer channel, and the packets on their way from the device
    tx, wire,
    \* the loops
    reader,            \* "run", in route(): "send" (holds the entry, waits for room in its
                       \* channel) and "unreg" (the send failed, the entry is let go);
                       \* "reported" (IODisconnected sent), "stopped"
    writer,            \* the writer loop still runs
    \* the device
    up, dev,
    \* watcher and shutdown
    table,             \* the device is in CONNECTED_DEVICES
    event,             \* a Disconnected event waits for the watcher
    cancelled,         \* the device's CancellationToken
    sd,                \* progress of shutdown
    toReset,           \* connections close_all has taken and not yet reset
    sdErr,             \* close_all saw an error
    provider           \* the preflight task still owns a UsbDeviceShared

routerVars == <<routes, attached, next_source_port>>
connVars   == <<pc, port, probes>>
devVars    == <<up, dev>>
stopVars   == <<table, event, cancelled, sd, toReset, sdErr, provider>>
vars == <<routerVars, chan, connVars, tx, wire, reader, writer, devVars, stopVars>>

Ports == 1..PortMod-1

Pcs == {"idle",
        "reg",     \* in register, cleanup_dead is next
        "probe",   \* in register's loop
        "syn",     \* SYN waits for a slot of the writer channel
        "wait",    \* waits for the SYN-ACK
        "ack",     \* ACK waits for a slot
        "attach",  \* handshake complete, attach_conn is next
        "open",    \* handed to the client
        "write",   \* handle_usb_device_connect writes to the client
        "drop",    \* about to be dropped without a close
        "unreg",   \* handshake failed, unregister is next
        "end"}

Packets(flags) == [port : Ports, flag : flags, own : Conns]

TypeOK ==
    /\ routes \in [Ports -> Conns \cup {NoConn}]
    /\ attached \in [Ports -> Conns \cup {NoConn}]
    /\ next_source_port \in 0..PortMod-1
    /\ chan \in [Conns -> Seq({"SYNACK", "DATA"})]
    /\ pc \in [Conns -> Pcs]
    /\ port \in [Conns -> 0..PortMod-1]
    /\ probes \in [Conns -> 0..MAX_SOURCE_PORT_PROBES]
    /\ tx \in Seq(Packets({"SYN", "ACK", "RST"})) /\ Len(tx) <= TxCap
    /\ wire \in Seq(Packets({"SYNACK", "DATA", "RST"})) /\ Len(wire) <= WireCap
    /\ reader \in {"run", "send", "unreg", "reported", "stopped"}
    /\ writer \in BOOLEAN /\ up \in BOOLEAN
    /\ dev \in [Ports -> Conns \cup {NoConn}]
    /\ table \in BOOLEAN /\ event \in BOOLEAN /\ cancelled \in BOOLEAN
    /\ sd \in {"no", "take", "rst", "drop", "done"}
    /\ toReset \subseteq Conns /\ sdErr \in BOOLEAN /\ provider \in BOOLEAN

------------------------------------------------------------------------------
(* PacketRouter.                                                             *)

HandshakePcs == {"syn", "wait", "ack", "attach"}

\* The connection is in the hands of a client or of the preflight.
Opened(c) == pc[c] \in {"open", "write"}

\* The connection, or its handshake, still owns the receiving half.
RxAlive(c) == pc[c] \in HandshakePcs \cup {"open", "write", "drop"}

\* The sending half is in the map.
Routed(c) == port[c] # 0 /\ routes[port[c]] = c

\* removing entries drops their senders and their conn field
RemoveRoutes(S) ==
    /\ routes' = [p \in Ports |-> IF p \in S THEN NoConn ELSE routes[p]]
    /\ attached' = [p \in Ports |-> IF p \in S THEN NoConn ELSE attached[p]]
    /\ UNCHANGED next_source_port

\* Entries without a connection attached taken for dead.
DeadUnattached == {p \in Ports : routes[p] # NoConn /\ attached[p] = NoConn}

DeadPorts == {p \in Ports : routes[p] # NoConn /\ ~RxAlive(routes[p])}

\* The packet the reader loop is about to handle, or has in hand.
Incoming == Head(wire)

InRoute == reader \in {"send", "unreg"}

\* DashMap's hash.
ShardOf(p) == p % Shards

\* route() keeps its guard on the map while it waits for room in a channel: nobody
\* can change an entry of that shard.
Locked(p) == reader = "send" /\ ShardOf(p) = ShardOf(Incoming.port)

\* connect: daemon connections need the device in the table and keep it there.
ConnectStart(c) ==
    /\ pc[c] = "idle"
    /\ c \in Daemon => table
    /\ c \in Provider => provider
    /\ pc' = [pc EXCEPT ![c] = "reg"]
    /\ UNCHANGED <<routerVars, chan, port, probes, tx, wire, reader, writer, devVars, stopVars>>

\* cleanup_dead locks every shard.
CleanupDead(c) ==
    /\ pc[c] = "reg" /\ reader # "send"
    /\ RemoveRoutes(DeadPorts)
    /\ pc' = [pc EXCEPT ![c] = "probe"]
    /\ UNCHANGED <<chan, port, probes, tx, wire, reader, writer, devVars, stopVars>>

\* The entry overwritten instead of tested.
ProbeOverwrite(c) ==
    LET sp == IF next_source_port = 0 THEN 1 ELSE next_source_port
    IN  /\ pc[c] = "probe" /\ probes[c] < MAX_SOURCE_PORT_PROBES
        /\ next_source_port' = (next_source_port + 1) % PortMod
        /\ routes' = [routes EXCEPT ![sp] = c]
        /\ port' = [port EXCEPT ![c] = sp]
        /\ pc' = [pc EXCEPT ![c] = "syn"]
        /\ UNCHANGED <<attached, probes, chan, tx, wire, reader, writer, devVars, stopVars>>

\* One iteration of register's loop: fetch_add on the u16 counter, 0 becomes 1,
\* and a vacant entry is taken.
Probe(c) ==
    LET sp == IF next_source_port = 0 THEN 1 ELSE next_source_port
    IN  /\ pc[c] = "probe" /\ probes[c] < MAX_SOURCE_PORT_PROBES
        /\ ~Locked(sp)
        /\ next_source_port' = (next_source_port + 1) % PortMod
        /\ IF routes[sp] = NoConn
           THEN /\ routes' = [routes EXCEPT ![sp] = c]
                /\ port' = [port EXCEPT ![c] = sp]
                /\ pc' = [pc EXCEPT ![c] = "syn"]
                /\ UNCHANGED probes
           ELSE /\ probes' = [probes EXCEPT ![c] = @ + 1]
                /\ UNCHANGED <<routes, port, pc>>
        /\ UNCHANGED <<attached, chan, tx, wire, reader, writer, devVars, stopVars>>

\* RanOutOfSourcePort.
ProbeFails(c) ==
    /\ pc[c] = "probe" /\ probes[c] = MAX_SOURCE_PORT_PROBES
    /\ pc' = [pc EXCEPT ![c] = "end"]
    /\ UNCHANGED <<routerVars, chan, port, probes, tx, wire, reader, writer, devVars, stopVars>>

------------------------------------------------------------------------------
(* TcpHandshake::perform and connect.                                        *)

Full == Len(tx) >= TxCap

Enqueue(c, flag) == tx' = Append(tx, [port |-> port[c], flag |-> flag, own |-> c])

\* A channel without a bound.
SendSynUnbounded(c) ==
    /\ pc[c] = "syn" /\ writer
    /\ Enqueue(c, "SYN")
    /\ pc' = [pc EXCEPT ![c] = "wait"]
    /\ UNCHANGED <<routerVars, chan, port, probes, wire, reader, writer, devVars, stopVars>>

SendSyn(c) ==
    /\ pc[c] = "syn" /\ writer /\ ~Full
    /\ Enqueue(c, "SYN")
    /\ pc' = [pc EXCEPT ![c] = "wait"]
    /\ UNCHANGED <<routerVars, chan, port, probes, wire, reader, writer, devVars, stopVars>>

RecvSynAck(c) ==
    /\ pc[c] = "wait" /\ chan[c] # <<>> /\ Head(chan[c]) = "SYNACK"
    /\ chan' = [chan EXCEPT ![c] = Tail(@)]
    /\ pc' = [pc EXCEPT ![c] = "ack"]
    /\ UNCHANGED <<routerVars, port, probes, tx, wire, reader, writer, devVars, stopVars>>

SendAck(c) ==
    /\ pc[c] = "ack" /\ writer /\ ~Full
    /\ Enqueue(c, "ACK")
    /\ pc' = [pc EXCEPT ![c] = "attach"]
    /\ UNCHANGED <<routerVars, chan, port, probes, wire, reader, writer, devVars, stopVars>>

\* attach_conn: only when some entry is still there under this port.
Attach(c) ==
    /\ pc[c] = "attach" /\ ~Locked(port[c])
    /\ attached' = IF routes[port[c]] # NoConn THEN [attached EXCEPT ![port[c]] = c] ELSE attached
    /\ pc' = [pc EXCEPT ![c] = "open"]
    /\ UNCHANGED <<routes, next_source_port, chan, port, probes, tx, wire, reader, writer, devVars,
                   stopVars>>

\* The handshake fails: the packet is no SYN-ACK, the sender was dropped, or the
\* writer loop is gone.  rx is dropped; UsbDevice::connect goes on to unregister,
\* the provider's connect just returns.
HandshakeFails(c) ==
    /\ \/ pc[c] = "wait" /\ chan[c] # <<>> /\ Head(chan[c]) # "SYNACK"
       \/ pc[c] = "wait" /\ chan[c] = <<>> /\ ~Routed(c)
       \/ pc[c] \in {"syn", "ack"} /\ ~writer
    /\ chan' = [chan EXCEPT ![c] = <<>>]
    /\ pc' = [pc EXCEPT ![c] = IF c \in Daemon THEN "unreg" ELSE "end"]
    /\ UNCHANGED <<routerVars, port, probes, tx, wire, reader, writer, devVars, stopVars>>

\* unregister(source_port) after a failed handshake: by number, whoever owns it.
Unregister(c) ==
    /\ pc[c] = "unreg" /\ ~Locked(port[c])
    /\ RemoveRoutes({port[c]})
    /\ pc' = [pc EXCEPT ![c] = "end"]
    /\ UNCHANGED <<chan, port, probes, tx, wire, reader, writer, devVars, stopVars>>

------------------------------------------------------------------------------
(* An open connection.                                                       *)

\* recv: a packet is taken and acknowledged.  The daemon's task then writes it to the
\* client, outside of its select!.
Recv(c) ==
    /\ pc[c] = "open" /\ chan[c] # <<>> /\ writer /\ ~Full
    /\ chan' = [chan EXCEPT ![c] = Tail(@)]
    /\ Enqueue(c, "ACK")
    /\ pc' = [pc EXCEPT ![c] = IF c \in Daemon THEN "write" ELSE "open"]
    /\ UNCHANGED <<routerVars, port, probes, wire, reader, writer, devVars, stopVars>>

\* client_send: the client takes the bytes.
ClientReads(c) ==
    /\ pc[c] = "write"
    /\ pc' = [pc EXCEPT ![c] = "open"]
    /\ UNCHANGED <<routerVars, chan, port, probes, tx, wire, reader, writer, devVars, stopVars>>

\* send_bytes: data packets carry the flag ACK.
Send(c) ==
    /\ pc[c] = "open" /\ writer /\ ~Full
    /\ Enqueue(c, "ACK")
    /\ UNCHANGED <<routerVars, chan, connVars, wire, reader, writer, devVars, stopVars>>

\* The client is gone: close() queues an RST and sets dropped.
Close(c) ==
    /\ pc[c] = "open" /\ writer /\ ~Full
    /\ Enqueue(c, "RST")
    /\ chan' = [chan EXCEPT ![c] = <<>>]
    /\ pc' = [pc EXCEPT ![c] = "end"]
    /\ UNCHANGED <<routerVars, port, probes, wire, reader, writer, devVars, stopVars>>

\* The task returns because of an I/O error with the client ...
Abandon(c) ==
    /\ Opened(c)
    /\ pc' = [pc EXCEPT ![c] = "drop"]
    /\ UNCHANGED <<routerVars, chan, port, probes, tx, wire, reader, writer, devVars, stopVars>>

\* Only the end of the channel is noticed.
EndOpenDeaf(c) ==
    /\ pc[c] = "open"
    /\ chan[c] = <<>> /\ ~Routed(c)
    /\ pc' = [pc EXCEPT ![c] = "drop"]
    /\ UNCHANGED <<routerVars, chan, port, probes, tx, wire, reader, writer, devVars, stopVars>>

\* ... or because it is told that the connection is over, in its select! or when it
\* sends, not while it writes to the client: wait_shutdown, a channel without sender,
\* a writer channel without receiver.
EndOpen(c) ==
    /\ pc[c] = "open"
    /\ \/ c \in Daemon /\ cancelled
       \/ chan[c] = <<>> /\ ~Routed(c)
       \/ ~writer
    /\ pc' = [pc EXCEPT ![c] = "drop"]
    /\ UNCHANGED <<routerVars, chan, port, probes, tx, wire, reader, writer, devVars, stopVars>>

\* Drop for UsbDeviceConn: try_send, once close_all holds no reference.
DropConn(c) ==
    /\ pc[c] = "drop" /\ c \notin toReset
    /\ IF writer /\ ~Full THEN Enqueue(c, "RST") ELSE UNCHANGED tx
    /\ chan' = [chan EXCEPT ![c] = <<>>]
    /\ pc' = [pc EXCEPT ![c] = "end"]
    /\ UNCHANGED <<routerVars, port, probes, wire, reader, writer, devVars, stopVars>>

\* The preflight task is dropped at whatever await it is (register and attach_conn
\* have none): a handshake leaves nothing behind but its route, an open connection
\* is dropped.
PreflightCancelled ==
    /\ provider /\ cancelled
    /\ \A c \in Provider : pc[c] \notin {"reg", "probe", "attach"}
    /\ provider' = FALSE
    /\ pc' = [c \in Conns |->
                IF c \notin Provider THEN pc[c]
                ELSE IF pc[c] \in {"open", "drop"} THEN "drop" ELSE "end"]
    /\ chan' = [c \in Conns |->
                  IF c \in Provider /\ pc[c] \notin {"open", "drop"} THEN <<>> ELSE chan[c]]
    /\ UNCHANGED <<routerVars, port, probes, tx, wire, reader, writer, devVars, table, event,
                   cancelled, sd, toReset, sdErr>>

\* Preflight is finished: its connections are gone.
PreflightDone ==
    /\ provider
    /\ \A c \in Provider : pc[c] \in {"idle", "end"}
    /\ provider' = FALSE
    /\ UNCHANGED <<routerVars, chan, connVars, tx, wire, reader, writer, devVars, table, event,
                   cancelled, sd, toReset, sdErr>>

------------------------------------------------------------------------------
(* start_reader_loop.                                                        *)

ReaderTakes == reader = "run" /\ wire # <<>>

\* An RST whose route is left in place.
ReaderRstIgnored ==
    /\ ReaderTakes /\ Incoming.flag = "RST"
    /\ wire' = Tail(wire)
    /\ UNCHANGED <<routerVars, chan, connVars, tx, reader, writer, devVars, stopVars>>

\* An RST unregisters its port and is never routed.
ReaderRst ==
    /\ ReaderTakes /\ Incoming.flag = "RST"
    /\ wire' = Tail(wire)
    /\ RemoveRoutes({Incoming.port})
    /\ UNCHANGED <<chan, connVars, tx, reader, writer, devVars, stopVars>>

\* route(): the entry is found and held, or there is none and the packet is dropped.
ReaderRoute ==
    /\ ReaderTakes /\ Incoming.flag # "RST"
    /\ \/ routes[Incoming.port] # NoConn /\ reader' = "send" /\ UNCHANGED wire
       \/ routes[Incoming.port] = NoConn /\ wire' = Tail(wire) /\ UNCHANGED reader
    /\ UNCHANGED <<routerVars, chan, connVars, tx, writer, devVars, stopVars>>

\* tx.send finds room; until then it waits.
ReaderSends ==
    /\ reader = "send"
    /\ LET c == routes[Incoming.port]
       IN  /\ RxAlive(c) /\ Len(chan[c]) < ChanCap
           /\ chan' = [chan EXCEPT ![c] = Append(@, Incoming.flag)]
    /\ wire' = Tail(wire) /\ reader' = "run"
    /\ UNCHANGED <<routerVars, connVars, tx, writer, devVars, stopVars>>

\* The receiver is gone: the guard is dropped, ...
ReaderSendFails ==
    /\ reader = "send" /\ ~RxAlive(routes[Incoming.port])
    /\ reader' = "unreg"
    /\ UNCHANGED <<routerVars, chan, connVars, tx, wire, writer, devVars, stopVars>>

\* ... then the port is unregistered, whoever has it by now.
ReaderUnregisters ==
    /\ reader = "unreg"
    /\ RemoveRoutes({Incoming.port})
    /\ wire' = Tail(wire) /\ reader' = "run"
    /\ UNCHANGED <<chan, connVars, tx, writer, devVars, stopVars>>

\* An I/O error, once everything that was received is handled: the watcher is told
\* first ...
ReaderReports ==
    /\ reader = "run" /\ ~up /\ wire = <<>>
    /\ reader' = "reported" /\ event' = TRUE
    /\ UNCHANGED <<routerVars, chan, connVars, tx, wire, writer, devVars, table, cancelled, sd,
                   toReset, sdErr, provider>>

\* The loop ends without router.clear().
ReaderLeaves ==
    /\ reader = "reported"
    /\ reader' = "stopped"
    /\ UNCHANGED <<routerVars, chan, connVars, tx, wire, writer, devVars, stopVars>>

\* ... then router.clear() drops every sender and the loop ends.
ReaderClears ==
    /\ reader = "reported"
    /\ RemoveRoutes(Ports)
    /\ reader' = "stopped"
    /\ UNCHANGED <<chan, connVars, tx, wire, writer, devVars, stopVars>>

\* The reader task is cancelled, where it reads or where it waits for room, which lets
\* the guard go; the router keeps its entries.
ReaderStops ==
    /\ reader \in {"run", "send"} /\ cancelled
    /\ reader' = "stopped"
    /\ UNCHANGED <<routerVars, chan, connVars, tx, wire, writer, devVars, stopVars>>

------------------------------------------------------------------------------
(* start_writer_loop, and what the device does with a packet.                *)

DeviceReplies(p, flag, c) ==
    /\ Len(wire) < WireCap
    /\ wire' = Append(wire, [port |-> p, flag |-> flag, own |-> c])

DeviceTakes(k) ==
    LET p == k.port
    IN  \/ /\ k.flag = "SYN" /\ dev[p] = NoConn
           /\ DeviceReplies(p, "SYNACK", k.own)
           /\ dev' = [dev EXCEPT ![p] = k.own]
        \/ /\ k.flag = "SYN"
           /\ DeviceReplies(p, "RST", k.own)
           /\ dev' = [dev EXCEPT ![p] = NoConn]
        \/ /\ k.flag = "RST"
           /\ dev' = [dev EXCEPT ![p] = NoConn]
           /\ UNCHANGED wire
        \/ /\ k.flag = "ACK" /\ dev[p] # NoConn
           /\ UNCHANGED <<dev, wire>>
        \/ /\ k.flag = "ACK" /\ dev[p] = NoConn
           /\ DeviceReplies(p, "RST", k.own)
           /\ UNCHANGED dev

\* One packet is written; with the cable gone the write fails and the loop goes on.
WriterStep ==
    /\ writer /\ tx # <<>>
    /\ tx' = Tail(tx)
    /\ IF up THEN DeviceTakes(Head(tx)) ELSE UNCHANGED <<dev, wire>>
    /\ UNCHANGED <<routerVars, chan, connVars, reader, writer, up, stopVars>>

\* The writer task is cancelled; what is queued is dropped with its receiver.
WriterStops ==
    /\ writer /\ cancelled
    /\ writer' = FALSE /\ tx' = <<>>
    /\ UNCHANGED <<routerVars, chan, connVars, wire, reader, devVars, stopVars>>

\* A service on the device sends, or ends, its connection.
DeviceData(p) ==
    /\ up /\ dev[p] # NoConn
    /\ DeviceReplies(p, "DATA", dev[p])
    /\ UNCHANGED <<routerVars, chan, connVars, tx, reader, writer, devVars, stopVars>>

DeviceResets(p) ==
    /\ up /\ dev[p] # NoConn
    /\ DeviceReplies(p, "RST", dev[p])
    /\ dev' = [dev EXCEPT ![p] = NoConn]
    /\ UNCHANGED <<routerVars, chan, connVars, tx, reader, writer, up, stopVars>>

\* What the reader has received it still handles, the packet in hand in any case.
Unplug ==
    /\ up
    /\ \E n \in 0..Len(wire) : (InRoute => n > 0) /\ wire' = SubSeq(wire, 1, n)
    /\ up' = FALSE /\ dev' = [p \in Ports |-> NoConn]
    /\ UNCHANGED <<routerVars, chan, connVars, tx, reader, writer, stopVars>>

------------------------------------------------------------------------------
(* Removal and shutdown.                                                     *)

\* The hotplug watcher of the USB backend reports the unplugged device.
Hotplug ==
    /\ ~up /\ table /\ ~event
    /\ event' = TRUE
    /\ UNCHANGED <<routerVars, chan, connVars, tx, wire, reader, writer, devVars, table, cancelled,
                   sd, toReset, sdErr, provider>>

\* Daemon connections between CONNECTED_DEVICES.get and the end of connect.
Guards == {c \in Daemon : pc[c] \in HandshakePcs \cup {"reg", "probe", "unreg"}}

\* A device removed under its users.
RemoveDeviceUnguarded ==
    /\ event /\ table /\ sd = "no"
    /\ table' = FALSE /\ event' = FALSE
    /\ cancelled' = TRUE /\ sd' = "take"
    /\ UNCHANGED <<routerVars, chan, connVars, tx, wire, reader, writer, devVars, toReset,
                   sdErr, provider>>

\* remove_device: CONNECTED_DEVICES.remove waits for the guards, then shutdown
\* starts with canceler.cancel().
RemoveDevice ==
    /\ event /\ table /\ Guards = {} /\ sd = "no"
    /\ table' = FALSE /\ event' = FALSE
    /\ cancelled' = TRUE /\ sd' = "take"
    /\ UNCHANGED <<routerVars, chan, connVars, tx, wire, reader, writer, devVars, toReset,
                   sdErr, provider>>

\* A second event for the same device: remove_device answers DeviceNotFound.
RemoveUnknown ==
    /\ event /\ ~table
    /\ event' = FALSE
    /\ UNCHANGED <<routerVars, chan, connVars, tx, wire, reader, writer, devVars, table, cancelled,
                   sd, toReset, sdErr, provider>>

\* cleanup() when the daemon is stopped: shutdown of a device that stays in the
\* table.
Cleanup ==
    /\ Exits /\ table /\ sd = "no"
    /\ cancelled' = TRUE /\ sd' = "take"
    /\ UNCHANGED <<routerVars, chan, connVars, tx, wire, reader, writer, devVars, table, event,
                   toReset, sdErr, provider>>

\* Connections whose weak reference take_all_conns can upgrade.
Upgradable == {attached[p] : p \in Ports} \cap {c \in Conns : pc[c] \in {"open", "write", "drop"}}

\* close_all: take_all_conns empties the router, which needs its locks, ...
CloseAllTake ==
    /\ sd = "take" /\ reader # "send"
    /\ RemoveRoutes(Ports)
    /\ toReset' = Upgradable
    /\ sd' = "rst"
    /\ UNCHANGED <<chan, connVars, tx, wire, reader, writer, devVars, table, event, cancelled,
                   sdErr, provider>>

\* ... and each connection gets an RST, or an error once the writer loop is gone.
CloseAllRst(c) ==
    /\ sd = "rst" /\ c \in toReset
    /\ toReset' = toReset \ {c}
    /\ IF writer THEN ~Full /\ Enqueue(c, "RST") /\ UNCHANGED sdErr
                 ELSE sdErr' = TRUE /\ UNCHANGED tx
    /\ UNCHANGED <<routerVars, chan, connVars, wire, reader, writer, devVars, table, event,
                   cancelled, sd, provider>>

\* shutdown returns; after an error a removed device still has Drop to run.
ShutdownReturns ==
    /\ sd = "rst" /\ toReset = {}
    /\ sd' = IF sdErr /\ ~table THEN "drop" ELSE "done"
    /\ UNCHANGED <<routerVars, chan, connVars, tx, wire, reader, writer, devVars, table, event,
                   cancelled, toReset, sdErr, provider>>

\* Drop for UsbDevice after a failed shutdown: shutdown_blocking empties the router
\* once more; the writer channel is closed, so no RST leaves.
DropDevice ==
    /\ sd = "drop" /\ reader # "send"
    /\ RemoveRoutes(Ports)
    /\ sd' = "done"
    /\ UNCHANGED <<chan, connVars, tx, wire, reader, writer, devVars, table, event, cancelled,
                   toReset, sdErr, provider>>

------------------------------------------------------------------------------

Init ==
    /\ routes = [p \in Ports |-> NoConn] /\ attached = [p \in Ports |-> NoConn]
    /\ next_source_port = 1
    /\ chan = [c \in Conns |-> <<>>]
    /\ pc = [c \in Conns |-> "idle"] /\ port = [c \in Conns |-> 0] /\ probes = [c \in Conns |-> 0]
    /\ tx = <<>> /\ wire = <<>>
    /\ reader = "run" /\ writer = TRUE
    /\ up = TRUE /\ dev = [p \in Ports |-> NoConn]
    /\ table = TRUE /\ event = FALSE /\ cancelled = FALSE
    /\ sd = "no" /\ toReset = {} /\ sdErr = FALSE
    /\ provider = (Provider # {})

\* The steps of a connection's task that the runtime will take when they can be.
TaskStep(c) ==
    \/ CleanupDead(c) \/ Probe(c) \/ ProbeFails(c)
    \/ SendSyn(c) \/ RecvSynAck(c) \/ SendAck(c) \/ Attach(c)
    \/ HandshakeFails(c) \/ Unregister(c)
    \/ EndOpen(c) \/ DropConn(c)

ConnNext(c) ==
    \/ ConnectStart(c) \/ TaskStep(c)
    \/ Recv(c) \/ ClientReads(c) \/ Send(c) \/ Close(c) \/ Abandon(c)

ReaderStep ==
    \/ ReaderRst \/ ReaderRoute \/ ReaderSends \/ ReaderSendFails \/ ReaderUnregisters
    \/ ReaderReports \/ ReaderClears \/ ReaderStops

\* The watcher task, or the one that stops the daemon.
StopStep ==
    \/ RemoveDevice \/ RemoveUnknown \/ CloseAllTake \/ (\E c \in Conns : CloseAllRst(c))
    \/ ShutdownReturns \/ DropDevice

Next ==
    \/ \E c \in Conns : ConnNext(c)
    \/ ReaderStep \/ WriterStep \/ WriterStops \/ StopStep
    \/ Cleanup \/ Hotplug \/ Unplug \/ PreflightCancelled \/ PreflightDone
    \/ \E p \in Ports : DeviceData(p) \/ DeviceResets(p)

Spec == Init /\ [][Next]_vars

\* Ready tasks are polled, and a task that waits for a slot or for a lock gets it if
\* it is free again and again.  Nothing is assumed of the device or of the cable.
Fairness ==
    /\ \A c \in Conns : SF_vars(TaskStep(c))
    /\ WF_vars(ReaderStep) /\ WF_vars(WriterStep) /\ WF_vars(WriterStops)
    /\ WF_vars(StopStep) /\ WF_vars(PreflightCancelled)

\* Of the users of a connection: a client that is sent something reads it or goes
\* away, and the preflight reads its connections.
UsersRead == \A c \in Conns : WF_vars(ClientReads(c)) /\ SF_vars(Recv(c))

FairSpec == Spec /\ Fairness /\ UsersRead

------------------------------------------------------------------------------
(* Properties.                                                               *)

LostRoute(c) == Routed(c) /\ RxAlive(c) /\ routes'[port[c]] # c

\* A live connection loses its route only to an RST the device sent for it, an
\* I/O error or a shutdown: never to the cleanup or the failure of another
\* connection (cleanup_dead, unregister by port number, route's error path).
RouteOnlyLostToDevice ==
    [][\A c \in Conns : LostRoute(c) =>
          \/ cancelled \/ ~up
          \/ wire # <<>> /\ Incoming.flag = "RST" /\ Incoming.own = c]_vars

\* Also when ports are reused, a live connection never loses its route to a
\* newcomer or to cleanup_dead: only by number, to an RST for its port, to the
\* unregister of a failed handshake that had the same port, or to the one of route()
\* for a connection that had it and was gone when its packet came.
RouteOnlyLostByPort ==
    [][\A c \in Conns : LostRoute(c) =>
          \/ cancelled \/ ~up
          \/ wire # <<>> /\ Incoming.flag = "RST" /\ Incoming.port = port[c]
          \/ \E d \in Daemon : pc[d] = "unreg" /\ port[d] = port[c]
          \/ reader = "unreg" /\ Incoming.port = port[c]]_vars

\* The reader loop is still there.
Reading == reader \in {"run", "send", "unreg"}

RstComing(c) ==
    \/ \E i \in 1..Len(wire) : wire[i].flag = "RST" /\ wire[i].port = port[c]
    \/ \E i \in 1..Len(tx) : tx[i].port = port[c] /\ tx[i].flag \in {"SYN", "RST"}

\* No connection stays open on our side only: while the device is reachable, an
\* open connection the device no longer has is going to be told, or has lost its
\* route and will see the end of its channel.
NoHalfOpen ==
    \A c \in Conns :
        (Opened(c) /\ up /\ Reading /\ writer /\ dev[port[c]] # c /\ Routed(c))
            => RstComing(c)

\* A connect of the daemon keeps the device in the table and unshut: whatever it
\* waits for, the device is not removed under it.
ConnectPinsDevice == Guards # {} => (table /\ (cancelled => Exits))

\* attach_conn waits for the shard that route() holds until this very connection,
\* which nobody reads yet, has room.
AttachDeadlock ==
    /\ reader = "send"
    /\ LET c == routes[Incoming.port] IN pc[c] = "attach" /\ Len(chan[c]) >= ChanCap

\* A handshake that is waiting when the cable is pulled is woken up with an error, as
\* long as clients read: the reader loop gets through with what it has received,
\* whoever it waits for, and router.clear() drops the sender.  A channel that is full
\* before its connection is attached, or a daemon that is stopping, may leave it.
UnplugWakesHandshake ==
    \A c \in Conns : (~up /\ Reading /\ pc[c] = "wait")
                         ~> (pc[c] # "wait" \/ AttachDeadlock \/ (Exits /\ cancelled))

\* Once a removed device is shut down, no connection stays behind in any of its
\* awaits, the locks of the router included, as long as clients read or go away.
ShutdownEndsConns ==
    (sd # "no" /\ ~table) ~> (\A c \in Conns : pc[c] \in {"idle", "end"})

\* An unplugged device leaves the table.
UnplugRemovesDevice == (~up) ~> (~table \/ Exits)

\* Shutting a device down sends an RST to the connections it had open: when close_all
\* is through with one that the device, still attached, has, the reset is queued.
ShutdownResets ==
    [][\A c \in toReset \ toReset' : (up /\ dev[port[c]] = c) =>
          \E i \in 1..Len(tx') : tx'[i].port = port[c] /\ tx'[i].flag = "RST"]_vars
=============================================================================
