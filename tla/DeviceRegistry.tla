---------------------------- MODULE DeviceRegistry ----------------------------
(***************************************************************************)
(* CONNECTED_DEVICES, the tasks that change it and one client that listens. *)
(* All entries are those of one phone (one udid): it may be attached by     *)
(* cable, announced by mDNS and added by hand, each under an id of its own. *)
(* Entries of other phones are independent of them.                         *)
(*                                                                          *)
(* A step is one operation on the shared map or one event sent: tasks run   *)
(* on several threads and interleave between them.  A device that cannot    *)
(* be opened leaves nothing but an unused id and is no step.                *)
(***************************************************************************)
EXTENDS Integers, Sequences, FiniteSets

CONSTANTS
    MaxId,     \* bound: ids given out by next_device_id
    Setups     \* bound: the environments to look at, see SetupType

\* sources: which of the three bring devices; ids: how many in all; busCap: capacity
\* of the broadcast channel, 32 in the code; doubles: a cable may report connected
\* twice without a disconnect; adds: number of add_device requests.
SetupType ==
    [sources : SUBSET {"usb", "mdns", "manual"}, ids : 0..MaxId, busCap : Nat \ {0},
     doubles : BOOLEAN, adds : Nat]

ASSUME RegistryAssumption == MaxId \in Nat /\ Setups \subseteq SetupType

VARIABLES
    setup,       \* the environment, chosen once
    table,       \* id -> kind of its entry in CONNECTED_DEVICES
    nextId,
    \* the cable and watch_usb
    plugged,     \* id of the enumeration the backend lists
    hotplug,     \* events of the USB backend
    ioErrors,    \* ids in the channel of IODisconnectedDevice
    \* watch_usb_daemon
    usbPc, usbId, usbNet, usbIo,
    \* watch_network and watch_network_daemon
    id_map,      \* devices_id_map: the id of the phone's mac address
    cancelers,   \* ids in devs_canceler
    cancelled,   \* ids whose CancellationToken is cancelled
    netPc, netId,
    \* add_device
    addPc, addOld, addId, adds,
    \* a client in handle_listen
    lpc, queue, lagged, unvisited,
    view         \* ids the client was told of and not told to forget

usbVars    == <<plugged, hotplug, ioErrors, usbPc, usbId, usbNet, usbIo>>
netVars    == <<id_map, cancelers, netPc, netId>>
addVars    == <<addPc, addOld, addId, adds>>
busVars    == <<queue, lagged>>
clientVars == <<lpc, unvisited, view>>
vars == <<setup, table, nextId, usbVars, netVars, cancelled, addVars, busVars, clientVars>>

Ids == 1..MaxId
NoId == 0

Events == [ev : {"Attached", "Detached"}, id : Ids]

TypeOK ==
    /\ setup \in Setups
    /\ table \in [Ids -> {"none", "usb", "net"}]
    /\ nextId \in 1..MaxId+1
    /\ plugged \in Ids \cup {NoId}
    /\ hotplug \in Seq([ev : {"Connected", "Disconnected"}, id : Ids])
    /\ ioErrors \subseteq Ids
    /\ usbPc \in {"idle", "hide", "retain", "insert", "attach", "find", "expose", "detach", "reopen"}
    /\ usbId \in Ids \cup {NoId} /\ usbNet \in Ids \cup {NoId} /\ usbIo \in BOOLEAN
    /\ id_map \in Ids \cup {NoId}
    /\ cancelers \subseteq Ids /\ cancelled \subseteq Ids
    /\ netPc \in {"idle", "skip", "insert", "shadow", "attach", "remove", "dedup", "detach"}
    /\ netId \in Ids \cup {NoId}
    /\ addPc \in {"idle", "detach", "remove", "connect", "shadow", "attach"}
    /\ addOld \in Ids \cup {NoId} /\ addId \in Ids \cup {NoId} /\ adds \in 0..setup.adds
    /\ lpc \in {"off", "snapshot", "live", "ended"}
    /\ queue \in Seq(Events) /\ Len(queue) <= setup.busCap /\ lagged \in BOOLEAN
    /\ unvisited \subseteq Ids /\ view \subseteq Ids

------------------------------------------------------------------------------
(* Lookups by udid, and the broadcast channel.                               *)

Entries(kind) == {i \in Ids : table[i] = kind}

has_usb_with_udid     == Entries("usb") # {}
has_network_with_udid == Entries("net") # {}

\* find: some entry, or NoId when there is none.
FindNetwork(n) == IF Entries("net") = {} THEN n = NoId ELSE n \in Entries("net")

is_shadowed(i) == table[i] = "net" /\ has_usb_with_udid

Insert(i, kind) == table' = [table EXCEPT ![i] = kind]
Remove(i)       == table' = [table EXCEPT ![i] = "none"]

\* Subscribed after the snapshot instead of before it.
SendAfterSnapshot(ev, i) ==
    IF lpc # "live" THEN UNCHANGED busVars
    ELSE LET e == [ev |-> ev, id |-> i]
         IN  /\ queue' = IF Len(queue) < setup.busCap THEN Append(queue, e) ELSE Append(Tail(queue), e)
             /\ lagged' = (lagged \/ Len(queue) >= setup.busCap)

\* A channel that only grows.
SendUnbounded(ev, i) ==
    IF lpc \notin {"snapshot", "live"} THEN UNCHANGED busVars
    ELSE queue' = Append(queue, [ev |-> ev, id |-> i]) /\ UNCHANGED lagged

\* Only subscribers get an event; a full channel overwrites the oldest one and the
\* subscriber will be told that it lags.
Send(ev, i) ==
    IF lpc \notin {"snapshot", "live"} THEN UNCHANGED busVars
    ELSE LET e == [ev |-> ev, id |-> i]
         IN  /\ queue' = IF Len(queue) < setup.busCap THEN Append(queue, e) ELSE Append(Tail(queue), e)
             /\ lagged' = (lagged \/ Len(queue) >= setup.busCap)

------------------------------------------------------------------------------
(* The cable (external) and the events of watch_usb.                         *)

Plug ==
    /\ "usb" \in setup.sources /\ nextId <= setup.ids
    /\ plugged = NoId \/ setup.doubles
    /\ plugged' = nextId /\ nextId' = nextId + 1
    /\ hotplug' = Append(hotplug, [ev |-> "Connected", id |-> nextId])
    /\ UNCHANGED <<setup, table, ioErrors, usbPc, usbId, usbNet, usbIo, netVars, cancelled, addVars,
                   busVars, clientVars>>

Unplug ==
    /\ plugged # NoId
    /\ plugged' = NoId
    /\ hotplug' = Append(hotplug, [ev |-> "Disconnected", id |-> plugged])
    /\ UNCHANGED <<setup, table, nextId, ioErrors, usbPc, usbId, usbNet, usbIo, netVars, cancelled,
                   addVars, busVars, clientVars>>

\* The reader loop of an open device fails, once.
IoError(i) ==
    /\ table[i] = "usb" /\ i \notin ioErrors
    /\ ioErrors' = ioErrors \cup {i}
    /\ UNCHANGED <<setup, table, nextId, plugged, hotplug, usbPc, usbId, usbNet, usbIo, netVars,
                   cancelled, addVars, busVars, clientVars>>

------------------------------------------------------------------------------
(* watch_usb_daemon.                                                         *)

\* The end of an event: its local variables are gone.
UsbIdle == usbPc' = "idle" /\ usbId' = NoId /\ usbNet' = NoId /\ usbIo' = FALSE

\* After an I/O error watch_usb goes on to open the device again.
UsbHandled ==
    IF usbIo THEN usbPc' = "reopen" /\ UNCHANGED <<usbId, usbNet, usbIo>> ELSE UsbIdle

UsbPass == UNCHANGED <<setup, nextId, plugged, netVars, cancelled, addVars, clientVars>>

\* A Connected event whose device cannot be opened.
UsbOpenFails ==
    /\ usbPc = "idle" /\ hotplug # <<>> /\ Head(hotplug).ev = "Connected"
    /\ hotplug' = Tail(hotplug)
    /\ UNCHANGED <<table, ioErrors, usbPc, usbId, usbNet, usbIo, busVars>>
    /\ UsbPass

\* Connected: a network entry of the phone is looked up ...
UsbConnected ==
    /\ \/ /\ usbPc = "idle" /\ hotplug # <<>> /\ Head(hotplug).ev = "Connected"
          /\ usbId' = Head(hotplug).id /\ hotplug' = Tail(hotplug)
       \/ /\ usbPc = "reopen" /\ plugged = usbId
          /\ UNCHANGED <<usbId, hotplug>>
    /\ \E n \in Ids \cup {NoId} : FindNetwork(n) /\ usbNet' = n
    /\ usbPc' = "hide"
    /\ UNCHANGED <<table, ioErrors, usbIo, busVars>>
    /\ UsbPass

\* ... hidden from the listeners ...
UsbHide ==
    /\ usbPc = "hide"
    /\ IF usbNet # NoId THEN Send("Detached", usbNet) ELSE UNCHANGED busVars
    /\ usbPc' = "retain"
    /\ UNCHANGED <<table, hotplug, ioErrors, usbId, usbNet, usbIo>>
    /\ UsbPass

\* Stale entries stay.
UsbRetainAll ==
    /\ usbPc = "retain"
    /\ usbPc' = "insert"
    /\ UNCHANGED <<table, hotplug, ioErrors, usbId, usbNet, usbIo, busVars>>
    /\ UsbPass

\* ... stale USB entries are dropped, silently ...
UsbRetain ==
    /\ usbPc = "retain"
    /\ table' = [i \in Ids |-> IF table[i] = "usb" THEN "none" ELSE table[i]]
    /\ usbPc' = "insert"
    /\ UNCHANGED <<hotplug, ioErrors, usbId, usbNet, usbIo, busVars>>
    /\ UsbPass

\* ... and the device is inserted and announced.
UsbInsert ==
    /\ usbPc = "insert"
    /\ Insert(usbId, "usb")
    /\ usbPc' = "attach"
    /\ UNCHANGED <<hotplug, ioErrors, usbId, usbNet, usbIo, busVars>>
    /\ UsbPass

UsbAttach ==
    /\ usbPc = "attach"
    /\ Send("Attached", usbId)
    /\ UsbIdle
    /\ UNCHANGED <<table, hotplug, ioErrors>>
    /\ UsbPass

\* Disconnected, from the backend or from a reader loop: remove_device.  An id that
\* is not in the table is ignored.
UsbDisconnected ==
    /\ usbPc = "idle"
    /\ \E i \in Ids, io \in BOOLEAN :
          /\ \/ /\ ~io /\ hotplug # <<>> /\ Head(hotplug) = [ev |-> "Disconnected", id |-> i]
                /\ hotplug' = Tail(hotplug) /\ UNCHANGED ioErrors
             \/ /\ io /\ i \in ioErrors
                /\ ioErrors' = ioErrors \ {i} /\ UNCHANGED hotplug
          /\ Remove(i)
          /\ \/ /\ table[i] # "none"
                /\ usbPc' = "find" /\ usbId' = i /\ usbIo' = io
             \/ /\ table[i] = "none" /\ io
                /\ usbPc' = "reopen" /\ usbId' = i /\ usbIo' = io
             \/ /\ table[i] = "none" /\ ~io
                /\ UNCHANGED <<usbPc, usbId, usbIo>>
    /\ UNCHANGED <<usbNet, busVars>>
    /\ UsbPass

\* After the shutdown of the device: a network entry of the phone is looked up ...
UsbFindNetwork ==
    /\ usbPc = "find"
    /\ \E n \in Ids \cup {NoId} : FindNetwork(n) /\ usbNet' = n
    /\ usbPc' = "expose"
    /\ UNCHANGED <<table, hotplug, ioErrors, usbId, usbIo, busVars>>
    /\ UsbPass

\* The network entry stays hidden.
UsbExposeSkipped ==
    /\ usbPc = "expose"
    /\ usbPc' = "detach" /\ usbNet' = NoId
    /\ UNCHANGED <<table, hotplug, ioErrors, usbId, usbIo, busVars>>
    /\ UsbPass

\* ... shown to the listeners ...
UsbExpose ==
    /\ usbPc = "expose"
    /\ IF usbNet # NoId THEN Send("Attached", usbNet) ELSE UNCHANGED busVars
    /\ usbPc' = "detach" /\ usbNet' = NoId
    /\ UNCHANGED <<table, hotplug, ioErrors, usbId, usbIo>>
    /\ UsbPass

\* ... and the USB device withdrawn.
UsbDetach ==
    /\ usbPc = "detach"
    /\ Send("Detached", usbId)
    /\ UsbHandled
    /\ UNCHANGED <<table, hotplug, ioErrors>>
    /\ UsbPass

\* The device is opened again under the same id (UsbConnected), or it is not listed
\* any more, or cannot be opened.
UsbNotReopened ==
    /\ usbPc = "reopen"
    /\ UsbIdle
    /\ UNCHANGED <<table, hotplug, ioErrors, busVars>>
    /\ UsbPass

UsbStep ==
    \/ UsbOpenFails \/ UsbConnected \/ UsbHide \/ UsbRetain \/ UsbInsert \/ UsbAttach
    \/ UsbDisconnected \/ UsbFindNetwork \/ UsbExpose \/ UsbDetach \/ UsbNotReopened

------------------------------------------------------------------------------
(* watch_network and watch_network_daemon, one task.                         *)

NetIdle == netPc' = "idle" /\ netId' = NoId

NetPass == UNCHANGED <<setup, usbVars, addVars, clientVars>>

\* Network devices: in the table, not there yet, or taken out by a forced add_device.
OpenNetwork ==
    Entries("net") \cup (IF netPc \in {"skip", "insert"} THEN {netId} ELSE {})
                   \cup (IF addPc \in {"connect", "shadow", "attach"} THEN {addOld} \ {NoId} ELSE {})

\* The heartbeat of a network device fails twice: its token is cancelled.
HeartbeatFails(i) ==
    /\ i \in OpenNetwork \ cancelled
    /\ cancelled' = cancelled \cup {i}
    /\ UNCHANGED <<table, nextId, netVars, busVars>>
    /\ NetPass

\* ServiceResolved for a mac address without an id: a device is created.
NetResolved ==
    /\ "mdns" \in setup.sources /\ nextId <= setup.ids
    /\ netPc = "idle" /\ id_map = NoId
    /\ id_map' = nextId /\ netId' = nextId /\ nextId' = nextId + 1
    /\ cancelers' = cancelers \cup {nextId}
    /\ netPc' = "skip"
    /\ UNCHANGED <<table, cancelled, busVars>>
    /\ NetPass

\* A phone that has a network entry already is skipped and the device dropped.
NetConnected ==
    /\ netPc = "skip"
    /\ \/ /\ has_network_with_udid
          /\ cancelled' = cancelled \cup {netId}
          /\ NetIdle
       \/ /\ ~has_network_with_udid
          /\ netPc' = "insert" /\ UNCHANGED <<netId, cancelled>>
    /\ UNCHANGED <<table, nextId, id_map, cancelers, busVars>>
    /\ NetPass

NetInsert ==
    /\ netPc = "insert"
    /\ Insert(netId, "net")
    /\ netPc' = "shadow"
    /\ UNCHANGED <<nextId, id_map, cancelers, netId, cancelled, busVars>>
    /\ NetPass

\* Not announced while a USB entry is there.
NetShadow ==
    /\ netPc = "shadow"
    /\ IF has_usb_with_udid THEN NetIdle ELSE netPc' = "attach" /\ UNCHANGED netId
    /\ UNCHANGED <<table, nextId, id_map, cancelers, cancelled, busVars>>
    /\ NetPass

NetAttach ==
    /\ netPc = "attach"
    /\ Send("Attached", netId)
    /\ NetIdle
    /\ UNCHANGED <<table, nextId, id_map, cancelers, cancelled>>
    /\ NetPass

\* ServiceRemoved.
NetWithdrawn ==
    /\ netPc = "idle" /\ id_map # NoId
    /\ netId' = id_map /\ id_map' = NoId
    /\ netPc' = "remove"
    /\ UNCHANGED <<table, nextId, cancelers, cancelled, busVars>>
    /\ NetPass

\* A cancelled device is not noticed.
NetCancelledIgnored ==
    /\ netPc = "idle"
    /\ \E i \in cancelers \cap cancelled : cancelers' = cancelers \ {i}
    /\ UNCHANGED <<table, nextId, id_map, netPc, netId, cancelled, busVars>>
    /\ NetPass

\* devs_canceler: a device was cancelled.  The future remembers the mac address,
\* not the id, so it takes whatever id the address has by now.
NetCancelled ==
    /\ netPc = "idle"
    /\ \E i \in cancelers \cap cancelled : cancelers' = cancelers \ {i}
    /\ \/ id_map # NoId /\ netId' = id_map /\ netPc' = "remove"
       \/ id_map = NoId /\ UNCHANGED <<netId, netPc>>
    /\ id_map' = NoId
    /\ UNCHANGED <<table, nextId, cancelled, busVars>>
    /\ NetPass

\* Disconnected: the entry is removed and shut down; an id without entry is ignored.
NetDisconnected ==
    /\ netPc = "remove"
    /\ Remove(netId)
    /\ \/ /\ table[netId] # "none"
          /\ cancelled' = cancelled \cup {netId}
          /\ netPc' = "dedup" /\ UNCHANGED netId
       \/ /\ table[netId] = "none"
          /\ NetIdle /\ UNCHANGED cancelled
    /\ UNCHANGED <<nextId, id_map, cancelers, busVars>>
    /\ NetPass

NetDedup ==
    /\ netPc = "dedup"
    /\ IF has_usb_with_udid THEN NetIdle ELSE netPc' = "detach" /\ UNCHANGED netId
    /\ UNCHANGED <<table, nextId, id_map, cancelers, cancelled, busVars>>
    /\ NetPass

\* The event of a removed device is forgotten.
NetDetachSkipped ==
    /\ netPc = "detach"
    /\ NetIdle
    /\ UNCHANGED <<table, nextId, id_map, cancelers, cancelled, busVars>>
    /\ NetPass

NetDetach ==
    /\ netPc = "detach"
    /\ Send("Detached", netId)
    /\ NetIdle
    /\ UNCHANGED <<table, nextId, id_map, cancelers, cancelled>>
    /\ NetPass

NetStep ==
    \/ NetConnected \/ NetInsert \/ NetShadow \/ NetAttach \/ NetCancelled \/ NetDisconnected \/ NetDedup
    \/ NetDetach

------------------------------------------------------------------------------
(* add_device, in the task of a client.                                      *)

AddPass == UNCHANGED <<setup, usbVars, netVars, clientVars>>

\* An existing network entry ends the request unless it is forced.
AddDevice ==
    /\ "manual" \in setup.sources /\ adds < setup.adds /\ addPc = "idle"
    /\ adds' = adds + 1
    /\ \E n \in Ids \cup {NoId}, force \in BOOLEAN :
          /\ FindNetwork(n)
          /\ addOld' = IF force THEN n ELSE NoId
          /\ addPc' = IF n = NoId THEN "connect" ELSE IF force THEN "detach" ELSE "idle"
    /\ UNCHANGED <<table, nextId, addId, cancelled, busVars>>
    /\ AddPass

AddDetach ==
    /\ addPc = "detach"
    /\ Send("Detached", addOld)
    /\ addPc' = "remove"
    /\ UNCHANGED <<table, nextId, addOld, addId, adds, cancelled>>
    /\ AddPass

\* The old entry is kept in hand, unless it is gone by now.
AddRemove ==
    /\ addPc = "remove"
    /\ Remove(addOld)
    /\ addOld' = IF table[addOld] = "none" THEN NoId ELSE addOld
    /\ addPc' = "connect"
    /\ UNCHANGED <<nextId, addId, adds, cancelled, busVars>>
    /\ AddPass

AddInserts ==
    /\ addPc = "connect" /\ nextId <= setup.ids
    /\ Insert(nextId, "net")
    /\ addId' = nextId /\ nextId' = nextId + 1
    /\ addPc' = "shadow"
    /\ UNCHANGED <<addOld, adds, cancelled, busVars>>
    /\ AddPass

\* The new device does not answer: the old entry is restored.
AddRestores ==
    /\ addPc = "connect"
    /\ IF addOld # NoId THEN Insert(addOld, "net") ELSE UNCHANGED table
    /\ addPc' = "idle" /\ addOld' = NoId
    /\ UNCHANGED <<nextId, addId, adds, cancelled, busVars>>
    /\ AddPass

\* The end of the request drops the old device.
AddEnds ==
    /\ addPc' = "idle" /\ addOld' = NoId /\ addId' = NoId
    /\ cancelled' = cancelled \cup ({addOld} \ {NoId})

AddShadow ==
    /\ addPc = "shadow"
    /\ IF has_usb_with_udid THEN AddEnds
       ELSE addPc' = "attach" /\ UNCHANGED <<addOld, addId, cancelled>>
    /\ UNCHANGED <<table, nextId, adds, busVars>>
    /\ AddPass

AddAttach ==
    /\ addPc = "attach"
    /\ Send("Attached", addId)
    /\ AddEnds
    /\ UNCHANGED <<table, nextId, adds>>
    /\ AddPass

------------------------------------------------------------------------------
(* handle_listen.                                                            *)

ListenPass == UNCHANGED <<setup, table, nextId, usbVars, netVars, cancelled, addVars>>

\* subscribe comes before the snapshot.
Listen ==
    /\ lpc = "off"
    /\ lpc' = "snapshot" /\ unvisited' = Ids
    /\ UNCHANGED <<busVars, view>>
    /\ ListenPass

\* send_currently_connected: the iterator visits the map shard by shard.
Visit(i) ==
    /\ lpc = "snapshot" /\ i \in unvisited
    /\ unvisited' = unvisited \ {i}
    /\ view' = IF table[i] # "none" /\ ~is_shadowed(i) THEN view \cup {i} ELSE view
    /\ UNCHANGED <<lpc, busVars>>
    /\ ListenPass

SnapshotSent ==
    /\ lpc = "snapshot" /\ unvisited = {}
    /\ lpc' = "live"
    /\ UNCHANGED <<busVars, unvisited, view>>
    /\ ListenPass

\* An attach event whose device is gone again is skipped.
Deliver ==
    /\ lpc = "live" /\ ~lagged /\ queue # <<>>
    /\ queue' = Tail(queue)
    /\ LET e == Head(queue)
       IN  view' = IF e.ev = "Detached" THEN view \ {e.id}
                   ELSE IF table[e.id] # "none" THEN view \cup {e.id} ELSE view
    /\ UNCHANGED <<lpc, lagged, unvisited>>
    /\ ListenPass

\* A receiver that lags ends the session.
ListenEnds ==
    /\ lpc = "live" /\ lagged
    /\ lpc' = "ended" /\ view' = {} /\ queue' = <<>> /\ lagged' = FALSE
    /\ UNCHANGED unvisited
    /\ ListenPass

------------------------------------------------------------------------------

Init ==
    /\ setup \in Setups
    /\ table = [i \in Ids |-> "none"] /\ nextId = 1
    /\ plugged = NoId /\ hotplug = <<>> /\ ioErrors = {}
    /\ usbPc = "idle" /\ usbId = NoId /\ usbNet = NoId /\ usbIo = FALSE
    /\ id_map = NoId /\ cancelers = {} /\ cancelled = {}
    /\ netPc = "idle" /\ netId = NoId
    /\ addPc = "idle" /\ addOld = NoId /\ addId = NoId /\ adds = 0
    /\ lpc = "off" /\ queue = <<>> /\ lagged = FALSE /\ unvisited = {} /\ view = {}

World == Plug \/ Unplug \/ NetResolved \/ NetWithdrawn \/ (\E i \in Ids : IoError(i) \/ HeartbeatFails(i))

AddStep == AddDevice \/ AddDetach \/ AddRemove \/ AddInserts \/ AddRestores \/ AddShadow \/ AddAttach

ListenStep == Listen \/ (\E i \in Ids : Visit(i)) \/ SnapshotSent \/ Deliver \/ ListenEnds

Next == World \/ UsbStep \/ NetStep \/ AddStep \/ ListenStep

Spec == Init /\ [][Next]_vars

------------------------------------------------------------------------------
(* Properties.                                                               *)

\* Nothing is under way and the listener has read every event.
Quiet ==
    /\ usbPc = "idle" /\ hotplug = <<>> /\ ioErrors = {}
    /\ netPc = "idle" /\ cancelers \cap cancelled = {}
    /\ addPc = "idle"
    /\ lpc = "live" /\ ~lagged /\ queue = <<>>

Exposed == {i \in Ids : table[i] # "none" /\ ~is_shadowed(i)}

\* Devices come from cable or mDNS alone, and no connect event is repeated: the retain
\* that answers a repeated one drops an entry that listeners have been told of.
OneSource == setup.sources \in {{"usb"}, {"mdns"}} /\ ~setup.doubles

\* With one source of devices a listener that has read every event knows exactly the
\* connected devices, whenever it subscribed: the snapshot and the events neither miss a
\* device nor resurrect one.
ListenerExact == Quiet /\ OneSource => view = Exposed

\* With cable and mDNS racing, a device that is to be shown is shown: hiding the
\* network entry while the cable is there never outlives the cable.
ExposedIsShown == Quiet /\ "manual" \notin setup.sources => Exposed \subseteq view

\* Whatever the other sources do, a phone on the cable is shown.
UsbIsShown == Quiet => Entries("usb") \subseteq view

\* The phone is in the table at most once as a USB device, also when its connect
\* event is repeated.
OneUsbEntry == \A i, j \in Entries("usb") : i = j

\* Listeners are left with one device per phone, not with both its USB and its
\* network entry.
OneShown == Quiet => Cardinality(view) <= 1

\* A network device whose heartbeat failed leaves the table by itself: while it is
\* there, the watcher still waits for its token under the mac address that leads to it,
\* or is about to remove it.  A device added by hand has nobody waiting.
DeadIsNoticed ==
    "manual" \notin setup.sources =>
        \A i \in Entries("net") \cap cancelled :
            \/ i \in cancelers /\ id_map = i
            \/ netPc = "remove" /\ netId = i
=============================================================================
