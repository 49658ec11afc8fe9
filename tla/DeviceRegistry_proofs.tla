------------------------ MODULE DeviceRegistry_proofs ------------------------
(***************************************************************************)
(* The table and what listeners are told of it, proved for any number of    *)
(* ids, any sources of devices and any capacity of the broadcast channel.   *)
(***************************************************************************)
EXTENDS DeviceRegistry, TLAPS

Kinds == {"none", "usb", "net"}

\* The inductive invariant: between retain and insert there is no USB entry.
UsbInv ==
    /\ table \in [Ids -> Kinds]
    /\ OneUsbEntry
    /\ usbPc = "insert" => Entries("usb") = {}

\* A step that adds no USB entry and does not reach insert.
LEMMA NoNewUsb ==
    ASSUME UsbInv, table' \in [Ids -> Kinds], usbPc' = "insert" => usbPc = "insert",
           \A i \in Ids : table'[i] = "usb" => table[i] = "usb"
    PROVE  UsbInv'
  <1>1. Entries("usb")' \subseteq Entries("usb") BY DEF Entries
  <1> QED BY <1>1 DEF UsbInv, OneUsbEntry

\* The watcher of the cable.
LEMMA UsbStepInv == UsbInv /\ UsbStep => UsbInv'
  <1> SUFFICES ASSUME UsbInv, UsbStep PROVE UsbInv' OBVIOUS
  <1>1. table \in [Ids -> Kinds] BY DEF UsbInv
  <1>2. CASE UsbOpenFails BY <1>1, <1>2, NoNewUsb DEF UsbOpenFails
  <1>3. CASE UsbConnected BY <1>1, <1>3, NoNewUsb DEF UsbConnected
  <1>4. CASE UsbHide BY <1>1, <1>4, NoNewUsb DEF UsbHide
  <1>5. CASE UsbRetain
    <2>1. table' \in [Ids -> Kinds] BY <1>1, <1>5 DEF UsbRetain, Kinds
    <2>2. \A i \in Ids : table'[i] # "usb" BY <1>1, <1>5 DEF UsbRetain
    <2>3. Entries("usb")' = {} BY <2>2 DEF Entries
    <2> QED BY <2>1, <2>3 DEF UsbInv, OneUsbEntry
  <1>6. CASE UsbInsert
    <2>1. table' \in [Ids -> Kinds] BY <1>1, <1>6 DEF UsbInsert, Insert, Kinds
    <2>2. \A i \in Ids : table[i] # "usb" BY <1>6 DEF UsbInsert, UsbInv, Entries
    <2>3. \A i \in Ids : table'[i] = "usb" => i = usbId
      BY <1>1, <1>6, <2>2 DEF UsbInsert, Insert
    <2>4. OneUsbEntry' BY <2>3 DEF OneUsbEntry, Entries
    <2>5. usbPc' # "insert" BY <1>6 DEF UsbInsert
    <2> QED BY <2>1, <2>4, <2>5 DEF UsbInv
  <1>7. CASE UsbAttach BY <1>1, <1>7, NoNewUsb DEF UsbAttach, UsbIdle
  <1>8. CASE UsbDisconnected
    <2>1. PICK i \in Ids : Remove(i) BY <1>8 DEF UsbDisconnected
    <2>2. table' \in [Ids -> Kinds] /\ \A j \in Ids : table'[j] = "usb" => table[j] = "usb"
      BY <1>1, <2>1 DEF Remove, Kinds
    <2>3. usbPc' # "insert" BY <1>8 DEF UsbDisconnected
    <2> QED BY <2>2, <2>3, NoNewUsb
  <1>9. CASE UsbFindNetwork BY <1>1, <1>9, NoNewUsb DEF UsbFindNetwork
  <1>10. CASE UsbExpose BY <1>1, <1>10, NoNewUsb DEF UsbExpose
  <1>11. CASE UsbDetach BY <1>1, <1>11, NoNewUsb DEF UsbDetach, UsbHandled, UsbIdle
  <1>12. CASE UsbNotReopened BY <1>1, <1>12, NoNewUsb DEF UsbNotReopened, UsbIdle
  <1> QED
    BY <1>2, <1>3, <1>4, <1>5, <1>6, <1>7, <1>8, <1>9, <1>10, <1>11, <1>12 DEF UsbStep

\* mDNS and requests insert network entries only, and remove.
LEMMA NetAddInv == UsbInv /\ (NetStep \/ AddStep) => UsbInv'
  <1> SUFFICES ASSUME UsbInv, NetStep \/ AddStep PROVE UsbInv' OBVIOUS
  <1>1. table \in [Ids -> Kinds] BY DEF UsbInv
  <1>2. usbPc' = usbPc
    BY DEF NetStep, NetConnected, NetInsert, NetShadow, NetAttach, NetCancelled, NetDisconnected, NetDedup,
           NetDetach, AddStep, AddDevice, AddDetach, AddRemove, AddInserts, AddRestores, AddShadow,
           AddAttach, NetPass, AddPass, usbVars
  <1>3. table' = table \/ (\E i : Insert(i, "net") \/ Remove(i))
    BY DEF NetStep, NetConnected, NetInsert, NetShadow, NetAttach, NetCancelled, NetDisconnected, NetDedup,
           NetDetach, AddStep, AddDevice, AddDetach, AddRemove, AddInserts, AddRestores, AddShadow,
           AddAttach
  <1>4. table' \in [Ids -> Kinds] /\ \A j \in Ids : table'[j] = "usb" => table[j] = "usb"
    BY <1>1, <1>3 DEF Insert, Remove, Kinds
  <1> QED BY <1>2, <1>4, NoNewUsb

\* Clients and devices do not touch the table.
LEMMA OtherInv == UsbInv /\ (World \/ ListenStep \/ UNCHANGED vars) => UsbInv'
  <1> SUFFICES ASSUME UsbInv, World \/ ListenStep \/ UNCHANGED vars PROVE UsbInv' OBVIOUS
  <1>1. UNCHANGED <<table, usbPc>>
    BY DEF World, Plug, Unplug, NetResolved, NetWithdrawn, IoError, HeartbeatFails, ListenStep,
           Listen, Visit, SnapshotSent, Deliver, ListenEnds, NetPass, ListenPass, usbVars, vars
  <1>2. table \in [Ids -> Kinds] BY DEF UsbInv
  <1> QED BY <1>1, <1>2, NoNewUsb

\* Whatever connect events the backend repeats and whatever mDNS and the clients do,
\* the table never has two USB entries of the phone (the retain before the insert).
THEOREM OneUsb == Spec => []OneUsbEntry
  <1>1. Init => UsbInv BY DEF Init, UsbInv, OneUsbEntry, Entries, Kinds
  <1>2. UsbInv /\ [Next]_vars => UsbInv'
    BY UsbStepInv, NetAddInv, OtherInv DEF Next
  <1>3. UsbInv => OneUsbEntry BY DEF UsbInv
  <1> QED BY <1>1, <1>2, <1>3, PTL DEF Spec

------------------------------------------------------------------------------
(* Types.                                                                    *)

\* A task in the middle of an event has the id of its device in hand.
HandIds ==
    /\ usbPc # "idle" => usbId \in Ids
    /\ netPc # "idle" => netId \in Ids
    /\ addPc \in {"detach", "remove"} => addOld \in Ids
    /\ addPc \in {"shadow", "attach"} => addId \in Ids

TypeInv == TypeOK /\ HandIds

HotplugEvents == [ev : {"Connected", "Disconnected"}, id : Ids]

\* What an environment is.
LEMMA SetupFacts ==
    ASSUME TypeOK
    PROVE  /\ setup.ids \in 0..MaxId /\ setup.busCap \in Nat \ {0} /\ setup.adds \in Nat
           /\ NoId \notin Ids
           /\ nextId <= setup.ids => nextId \in Ids /\ nextId + 1 \in 1..MaxId+1
  <1>1. setup \in SetupType /\ MaxId \in Nat BY RegistryAssumption DEF TypeOK
  <1>2. setup.ids \in 0..MaxId /\ setup.busCap \in Nat \ {0} /\ setup.adds \in Nat
    BY <1>1 DEF SetupType
  <1>3. nextId \in 1..MaxId+1 BY DEF TypeOK
  <1> QED BY <1>1, <1>2, <1>3 DEF Ids, NoId

\* The broadcast channel holds events and never more than its capacity.
LEMMA SendTypes ==
    ASSUME TypeOK, NEW ev \in {"Attached", "Detached"}, NEW i \in Ids, Send(ev, i)
    PROVE  queue' \in Seq(Events) /\ Len(queue') <= setup.busCap /\ lagged' \in BOOLEAN
  <1> DEFINE e == [ev |-> ev, id |-> i]
  <1>1. queue \in Seq(Events) /\ Len(queue) <= setup.busCap /\ setup.busCap \in Nat \ {0}
        /\ lagged \in BOOLEAN
    BY SetupFacts DEF TypeOK
  <1>2. e \in Events BY DEF Events
  <1>3. CASE lpc \notin {"snapshot", "live"} BY <1>1, <1>3 DEF Send, busVars
  <1>4. CASE lpc \in {"snapshot", "live"}
    <2>1. /\ queue' = IF Len(queue) < setup.busCap THEN Append(queue, e) ELSE Append(Tail(queue), e)
          /\ lagged' = (lagged \/ Len(queue) >= setup.busCap)
      BY <1>4 DEF Send
    <2>2. lagged' \in BOOLEAN BY <2>1, Zenon
    <2> HIDE DEF e
    <2>3. CASE Len(queue) < setup.busCap BY <1>1, <1>2, <2>1, <2>2, <2>3
    <2>4. CASE ~(Len(queue) < setup.busCap)
      <3>1. Len(queue) = setup.busCap /\ queue # <<>> BY <1>1, <2>4
      <3>2. Tail(queue) \in Seq(Events) /\ Len(Tail(queue)) = Len(queue) - 1 BY <1>1, <3>1
      <3>3. queue' = Append(Tail(queue), e) BY <2>1, <2>4
      <3> DEFINE t == Tail(queue)
      <3> HIDE DEF t
      <3>4. Append(t, e) \in Seq(Events) /\ Len(Append(t, e)) = Len(t) + 1
        BY <1>2, <3>2 DEF t
      <3>5. Len(t) + 1 <= setup.busCap BY <1>1, <3>1, <3>2 DEF t
      <3> QED BY <2>2, <3>3, <3>4, <3>5 DEF t
    <2> QED BY <2>3, <2>4
  <1> QED BY <1>3, <1>4

\* The watcher of the cable.
LEMMA UsbTypes == TypeInv /\ UsbStep => TypeInv'
  <1> SUFFICES ASSUME TypeInv, UsbStep PROVE TypeInv' OBVIOUS
  <1> USE DEF TypeInv, UsbPass, netVars, addVars, clientVars, UsbIdle, HandIds
  <1>1. CASE UsbOpenFails
    <2>1. hotplug' \in Seq(HotplugEvents) BY <1>1 DEF UsbOpenFails, TypeOK, HotplugEvents
    <2> QED BY <1>1, <2>1 DEF UsbOpenFails, TypeOK, busVars, HotplugEvents
  <1>2. CASE UsbConnected
    <2>1. /\ usbPc' = "hide" /\ usbNet' \in Ids \cup {NoId}
          /\ UNCHANGED <<table, ioErrors, usbIo, busVars>> /\ UsbPass
      BY <1>2 DEF UsbConnected
    <2>2. hotplug \in Seq(HotplugEvents) BY DEF TypeOK, HotplugEvents
    <2>3. usbId' \in Ids /\ hotplug' \in Seq(HotplugEvents)
      <3>1. CASE hotplug # <<>> /\ usbId' = Head(hotplug).id /\ hotplug' = Tail(hotplug)
        <4>1. Head(hotplug) \in HotplugEvents /\ Tail(hotplug) \in Seq(HotplugEvents) BY <2>2, <3>1
        <4> QED BY <3>1, <4>1 DEF HotplugEvents
      <3>2. CASE usbPc = "reopen" /\ UNCHANGED <<usbId, hotplug>> BY <2>2, <3>2
      <3> QED BY <1>2, <3>1, <3>2 DEF UsbConnected
    <2> QED BY <2>1, <2>3 DEF TypeOK, busVars, HotplugEvents
  <1>3. CASE UsbHide
    <2>1. queue' \in Seq(Events) /\ Len(queue') <= setup.busCap /\ lagged' \in BOOLEAN
      <3>1. usbNet # NoId => usbNet \in Ids BY DEF TypeOK
      <3>2. CASE usbNet # NoId BY <1>3, <3>1, <3>2, SendTypes DEF UsbHide
      <3>3. CASE usbNet = NoId BY <1>3, <3>3 DEF UsbHide, TypeOK, busVars
      <3> QED BY <3>2, <3>3
    <2> QED BY <1>3, <2>1 DEF UsbHide, TypeOK
  <1>4. CASE UsbRetain
    <2>1. table' \in [Ids -> Kinds] BY <1>4 DEF UsbRetain, Kinds, TypeOK
    <2> QED BY <1>4, <2>1 DEF UsbRetain, TypeOK, Kinds, busVars
  <1>5. CASE UsbInsert
    <2>1. table' \in [Ids -> Kinds] BY <1>5 DEF UsbInsert, Insert, Kinds, TypeOK
    <2> QED BY <1>5, <2>1 DEF UsbInsert, TypeOK, Kinds, busVars
  <1>6. CASE UsbAttach
    <2>1. queue' \in Seq(Events) /\ Len(queue') <= setup.busCap /\ lagged' \in BOOLEAN
      BY <1>6, SendTypes DEF UsbAttach
    <2>2. usbIo' \in BOOLEAN BY <1>6, Zenon DEF UsbAttach
    <2> QED BY <1>6, <2>1, <2>2 DEF UsbAttach, TypeOK
  <1>7. CASE UsbDisconnected
    <2>1. PICK i \in Ids, io \in BOOLEAN :
          /\ \/ /\ ~io /\ hotplug # <<>> /\ Head(hotplug) = [ev |-> "Disconnected", id |-> i]
                /\ hotplug' = Tail(hotplug) /\ UNCHANGED ioErrors
             \/ /\ io /\ i \in ioErrors
                /\ ioErrors' = ioErrors \ {i} /\ UNCHANGED hotplug
          /\ Remove(i)
          /\ \/ /\ table[i] # "none"
                /\ usbPc' = "find" /\ usbId' = i /\ usbIo' = io
             \/ /\ table[i] = "none" /\ io
                /\ usbPc' = "reopen" /\ usbId' = i /\ usbIo' = io
             \/ /\ table[i] = "none" /\ ~io
                /\ UNCHANGED <<usbPc, usbId, usbIo>>
      BY <1>7 DEF UsbDisconnected
    <2>2. UNCHANGED <<usbNet, busVars>> /\ UsbPass BY <1>7 DEF UsbDisconnected
    <2>3. table' \in [Ids -> Kinds] BY <2>1 DEF Remove, Kinds, TypeOK
    <2>4. hotplug' \in Seq(HotplugEvents) /\ ioErrors' \subseteq Ids
      <3>1. hotplug \in Seq(HotplugEvents) BY DEF TypeOK, HotplugEvents
      <3>2. ioErrors \subseteq Ids BY DEF TypeOK
      <3>3. hotplug # <<>> => Tail(hotplug) \in Seq(HotplugEvents) BY <3>1
      <3>4. hotplug' \in Seq(HotplugEvents) BY <2>1, <3>1, <3>3
      <3>5. ioErrors' \subseteq Ids BY <2>1, <3>2
      <3> QED BY <3>4, <3>5
    <2>5. /\ usbPc' \in {"find", "reopen", usbPc} /\ usbId' \in Ids \cup {NoId} /\ usbIo' \in BOOLEAN
          /\ usbPc' # "idle" => usbId' \in Ids
      BY <2>1 DEF TypeOK
    <2> QED BY <2>2, <2>3, <2>4, <2>5 DEF TypeOK, busVars, Kinds, HotplugEvents
  <1>8. CASE UsbFindNetwork BY <1>8 DEF UsbFindNetwork, TypeOK, busVars
  <1>9. CASE UsbExpose
    <2>1. queue' \in Seq(Events) /\ Len(queue') <= setup.busCap /\ lagged' \in BOOLEAN
      <3>1. usbNet # NoId => usbNet \in Ids BY DEF TypeOK
      <3>2. CASE usbNet # NoId BY <1>9, <3>1, <3>2, SendTypes DEF UsbExpose
      <3>3. CASE usbNet = NoId BY <1>9, <3>3 DEF UsbExpose, TypeOK, busVars
      <3> QED BY <3>2, <3>3
    <2> QED BY <1>9, <2>1 DEF UsbExpose, TypeOK
  <1>10. CASE UsbDetach
    <2>1. queue' \in Seq(Events) /\ Len(queue') <= setup.busCap /\ lagged' \in BOOLEAN
      BY <1>10, SendTypes DEF UsbDetach
    <2>2. usbIo' \in BOOLEAN BY <1>10 DEF UsbDetach, UsbHandled, TypeOK
    <2> QED BY <1>10, <2>1, <2>2 DEF UsbDetach, UsbHandled, TypeOK
  <1>11. CASE UsbNotReopened
    <2>1. usbIo' \in BOOLEAN BY <1>11, Zenon DEF UsbNotReopened
    <2> QED BY <1>11, <2>1 DEF UsbNotReopened, TypeOK, busVars
  <1> QED
    BY <1>1, <1>2, <1>3, <1>4, <1>5, <1>6, <1>7, <1>8, <1>9, <1>10, <1>11 DEF UsbStep

\* The watcher of the network.
LEMMA NetTypes == TypeInv /\ NetStep => TypeInv'
  <1> SUFFICES ASSUME TypeInv, NetStep PROVE TypeInv' OBVIOUS
  <1> USE DEF TypeInv, NetPass, usbVars, addVars, clientVars, NetIdle, HandIds
  <1>1. CASE NetConnected
    <2>1. cancelled' \subseteq Ids BY <1>1 DEF NetConnected, TypeOK
    <2>2. /\ netPc' \in {"idle", "insert"} /\ netId' \in Ids \cup {NoId}
          /\ netPc' # "idle" => netId' \in Ids
      BY <1>1 DEF NetConnected, TypeOK
    <2> QED BY <1>1, <2>1, <2>2 DEF NetConnected, TypeOK, busVars
  <1>2. CASE NetShadow
    <2>1. /\ netPc' \in {"idle", "attach"} /\ netId' \in Ids \cup {NoId}
          /\ netPc' # "idle" => netId' \in Ids
      BY <1>2 DEF NetShadow, TypeOK
    <2> QED BY <1>2, <2>1 DEF NetShadow, TypeOK, busVars
  <1>3. CASE NetAttach
    <2>1. queue' \in Seq(Events) /\ Len(queue') <= setup.busCap /\ lagged' \in BOOLEAN
      BY <1>3, SendTypes DEF NetAttach
    <2> QED BY <1>3, <2>1 DEF NetAttach, TypeOK
  <1>4. CASE NetCancelled
    <2>1. cancelers' \subseteq Ids BY <1>4 DEF NetCancelled, TypeOK
    <2>2. /\ netPc' \in {"idle", "remove"} /\ netId' \in Ids \cup {NoId}
          /\ netPc' # "idle" => netId' \in Ids
      BY <1>4 DEF NetCancelled, TypeOK
    <2> QED BY <1>4, <2>1, <2>2 DEF NetCancelled, TypeOK, busVars
  <1>5. CASE NetDisconnected
    <2>1. table' \in [Ids -> Kinds] BY <1>5 DEF NetDisconnected, Remove, Kinds, TypeOK
    <2>2. cancelled' \subseteq Ids BY <1>5 DEF NetDisconnected, TypeOK
    <2>3. /\ netPc' \in {"idle", "dedup"} /\ netId' \in Ids \cup {NoId}
          /\ netPc' # "idle" => netId' \in Ids
      BY <1>5 DEF NetDisconnected, TypeOK
    <2> QED BY <1>5, <2>1, <2>2, <2>3 DEF NetDisconnected, TypeOK, Kinds, busVars
  <1>6. CASE NetDedup
    <2>1. /\ netPc' \in {"idle", "detach"} /\ netId' \in Ids \cup {NoId}
          /\ netPc' # "idle" => netId' \in Ids
      BY <1>6 DEF NetDedup, TypeOK
    <2> QED BY <1>6, <2>1 DEF NetDedup, TypeOK, busVars
  <1>7. CASE NetDetach
    <2>1. queue' \in Seq(Events) /\ Len(queue') <= setup.busCap /\ lagged' \in BOOLEAN
      BY <1>7, SendTypes DEF NetDetach
    <2> QED BY <1>7, <2>1 DEF NetDetach, TypeOK
  <1>8. CASE NetInsert
    <2>1. table' \in [Ids -> Kinds] BY <1>8 DEF NetInsert, Insert, Kinds, TypeOK
    <2> QED BY <1>8, <2>1 DEF NetInsert, TypeOK, Kinds, busVars
  <1> QED BY <1>1, <1>2, <1>3, <1>4, <1>5, <1>6, <1>7, <1>8 DEF NetStep

\* add_device.
LEMMA AddTypes == TypeInv /\ AddStep => TypeInv'
  <1> SUFFICES ASSUME TypeInv, AddStep PROVE TypeInv' OBVIOUS
  <1> USE DEF TypeInv, AddPass, usbVars, netVars, clientVars, HandIds
  <1>1. CASE AddDevice
    <2>1. adds' \in 0..setup.adds BY <1>1, SetupFacts DEF AddDevice, TypeOK
    <2>2. /\ addPc' \in {"connect", "detach", "idle"} /\ addOld' \in Ids \cup {NoId}
          /\ addPc' = "detach" => addOld' \in Ids
      BY <1>1 DEF AddDevice, TypeOK
    <2> QED BY <1>1, <2>1, <2>2 DEF AddDevice, TypeOK, busVars
  <1>2. CASE AddDetach
    <2>1. queue' \in Seq(Events) /\ Len(queue') <= setup.busCap /\ lagged' \in BOOLEAN
      BY <1>2, SendTypes DEF AddDetach
    <2> QED BY <1>2, <2>1 DEF AddDetach, TypeOK
  <1>3. CASE AddRemove
    <2>1. table' \in [Ids -> Kinds] BY <1>3 DEF AddRemove, Remove, Kinds, TypeOK
    <2>2. addOld' \in Ids \cup {NoId} BY <1>3 DEF AddRemove, TypeOK
    <2> QED BY <1>3, <2>1, <2>2 DEF AddRemove, TypeOK, Kinds, busVars
  <1>4. CASE AddInserts
    <2>1. table' \in [Ids -> Kinds] BY <1>4 DEF AddInserts, Insert, Kinds, TypeOK
    <2>2. addId' \in Ids /\ nextId' \in 1..MaxId+1 BY <1>4, SetupFacts DEF AddInserts
    <2> QED BY <1>4, <2>1, <2>2 DEF AddInserts, TypeOK, Kinds, busVars
  <1>5. CASE AddRestores
    <2>1. table' \in [Ids -> Kinds] BY <1>5 DEF AddRestores, Insert, Kinds, TypeOK
    <2> QED BY <1>5, <2>1 DEF AddRestores, TypeOK, Kinds, busVars
  <1>6. CASE AddShadow
    <2>1. /\ addPc' \in {"idle", "attach"} /\ addOld' \in Ids \cup {NoId}
          /\ addId' \in Ids \cup {NoId} /\ cancelled' \subseteq Ids
          /\ addPc' = "attach" => addId' \in Ids
      BY <1>6 DEF AddShadow, AddEnds, TypeOK
    <2> QED BY <1>6, <2>1 DEF AddShadow, TypeOK, busVars
  <1>7. CASE AddAttach
    <2>1. queue' \in Seq(Events) /\ Len(queue') <= setup.busCap /\ lagged' \in BOOLEAN
      BY <1>7, SendTypes DEF AddAttach
    <2>2. addPc' = "idle" /\ addOld' = NoId /\ addId' = NoId /\ cancelled' \subseteq Ids
      BY <1>7 DEF AddAttach, AddEnds, TypeOK
    <2> QED BY <1>7, <2>1, <2>2 DEF AddAttach, TypeOK
  <1> QED BY <1>1, <1>2, <1>3, <1>4, <1>5, <1>6, <1>7 DEF AddStep

\* The cable, mDNS and heartbeats.
LEMMA WorldTypes == TypeInv /\ World => TypeInv'
  <1> SUFFICES ASSUME TypeInv, World PROVE TypeInv' OBVIOUS
  <1> USE DEF TypeInv, NetPass, usbVars, netVars, addVars, busVars, clientVars, HandIds
  <1>1. CASE Plug
    <2>1. nextId \in Ids /\ nextId' \in 1..MaxId+1 BY <1>1, SetupFacts DEF Plug
    <2>2. hotplug' \in Seq(HotplugEvents)
      <3>1. [ev |-> "Connected", id |-> nextId] \in HotplugEvents BY <2>1 DEF HotplugEvents
      <3> QED BY <1>1, <3>1 DEF Plug, TypeOK, HotplugEvents
    <2> QED BY <1>1, <2>1, <2>2 DEF Plug, TypeOK, HotplugEvents
  <1>2. CASE Unplug
    <2>1. hotplug' \in Seq(HotplugEvents)
      <3>1. [ev |-> "Disconnected", id |-> plugged] \in HotplugEvents
        BY <1>2 DEF Unplug, TypeOK, HotplugEvents
      <3> QED BY <1>2, <3>1 DEF Unplug, TypeOK, HotplugEvents
    <2> QED BY <1>2, <2>1 DEF Unplug, TypeOK, HotplugEvents
  <1>3. CASE NetResolved
    <2>1. nextId \in Ids /\ nextId' \in 1..MaxId+1 BY <1>3, SetupFacts DEF NetResolved
    <2> QED BY <1>3, <2>1 DEF NetResolved, TypeOK
  <1>4. CASE NetWithdrawn BY <1>4 DEF NetWithdrawn, TypeOK
  <1>5. ASSUME NEW i \in Ids, IoError(i) PROVE TypeInv' BY <1>5 DEF IoError, TypeOK
  <1>6. ASSUME NEW i \in Ids, HeartbeatFails(i) PROVE TypeInv' BY <1>6 DEF HeartbeatFails, TypeOK
  <1> QED BY <1>1, <1>2, <1>3, <1>4, <1>5, <1>6 DEF World

\* The listener.
LEMMA ListenTypes == TypeInv /\ (ListenStep \/ UNCHANGED vars) => TypeInv'
  <1> SUFFICES ASSUME TypeInv, ListenStep \/ UNCHANGED vars PROVE TypeInv' OBVIOUS
  <1> USE DEF TypeInv, ListenPass, usbVars, netVars, addVars, busVars, clientVars, HandIds
  <1>1. CASE Listen BY <1>1 DEF Listen, TypeOK
  <1>2. ASSUME NEW i \in Ids, Visit(i) PROVE TypeInv'
    <2>1. unvisited' \subseteq Ids /\ view' \subseteq Ids BY <1>2 DEF Visit, TypeOK
    <2> QED BY <1>2, <2>1 DEF Visit, TypeOK
  <1>3. CASE SnapshotSent BY <1>3 DEF SnapshotSent, TypeOK
  <1>4. CASE Deliver
    <2>1. queue \in Seq(Events) /\ queue # <<>> /\ Len(queue) <= setup.busCap /\ setup.busCap \in Nat
      BY <1>4, SetupFacts DEF Deliver, TypeOK
    <2>2. /\ Head(queue) \in Events /\ Tail(queue) \in Seq(Events)
          /\ Len(Tail(queue)) <= setup.busCap
      BY <2>1
    <2>3. Head(queue).id \in Ids BY <2>2 DEF Events
    <2>4. view' \subseteq Ids BY <1>4, <2>3 DEF Deliver, TypeOK
    <2>5. queue' = Tail(queue) BY <1>4 DEF Deliver
    <2> QED BY <1>4, <2>2, <2>4, <2>5 DEF Deliver, TypeOK
  <1>5. CASE ListenEnds
    <2>1. queue' \in Seq(Events) /\ Len(queue') <= setup.busCap
      BY <1>5, SetupFacts DEF ListenEnds, TypeOK
    <2>2. lagged' \in BOOLEAN BY <1>5, Zenon DEF ListenEnds
    <2> QED BY <1>5, <2>1, <2>2 DEF ListenEnds, TypeOK
  <1>6. CASE UNCHANGED vars BY <1>6 DEF vars, TypeOK
  <1> QED BY <1>1, <1>2, <1>3, <1>4, <1>5, <1>6 DEF ListenStep

\* The types hold at the start.
LEMMA TypeInit == Init => TypeInv
  <1> SUFFICES ASSUME Init PROVE TypeInv OBVIOUS
  <1>1. setup \in SetupType /\ MaxId \in Nat BY RegistryAssumption DEF Init
  <1>2. setup.busCap \in Nat \ {0} /\ setup.adds \in Nat BY <1>1 DEF SetupType
  <1>3. lagged \in BOOLEAN /\ usbIo \in BOOLEAN BY Zenon DEF Init
  <1>4. nextId \in 1..MaxId+1 /\ adds \in 0..setup.adds BY <1>1, <1>2 DEF Init
  <1>5. /\ hotplug \in Seq(HotplugEvents) /\ queue \in Seq(Events)
        /\ Len(queue) <= setup.busCap
    BY <1>2 DEF Init
  <1> QED BY <1>3, <1>4, <1>5 DEF TypeInv, TypeOK, HandIds, Init, HotplugEvents

\* The types are kept.
LEMMA TypeStep == TypeInv /\ [Next]_vars => TypeInv'
  BY UsbTypes, NetTypes, AddTypes, WorldTypes, ListenTypes DEF Next

\* The table, the watchers, add_device and the broadcast channel keep their types; the
\* channel never holds more events than its capacity, however slow the listener is.
THEOREM TypeCorrect == Spec => []TypeOK
  <1>1. TypeInv => TypeOK BY DEF TypeInv
  <1> QED BY <1>1, TypeInit, TypeStep, PTL DEF Spec

------------------------------------------------------------------------------
(* What listeners are told.                                                  *)

\* The last event about i in q is ev; there is none.
LastOf(q, i, ev) ==
    \E k \in 1..Len(q) :
        q[k].id = i /\ q[k].ev = ev /\ \A m \in 1..Len(q) : m > k => q[m].id # i
Silent(q, i) == \A k \in 1..Len(q) : q[k].id # i

\* The listener will know i once it has sent its snapshot and read what is in the channel.
Due(i) == LastOf(queue, i, "Attached") \/ (Silent(queue, i) /\ i \in view \cup unvisited)

\* There is a listener, and it will not be disconnected for lagging.
Listening == lpc \in {"snapshot", "live"} /\ ~lagged

\* Ids of enumerations on the cable, and of network devices.
UsbIds ==
    {plugged, usbId} \cup {hotplug[k].id : k \in 1..Len(hotplug)} \cup ioErrors \cup Entries("usb")
NetIds == {id_map, netId, usbNet, addOld, addId} \cup Entries("net")

\* No id is used for both, and every id was given out.
Apart ==
    /\ UsbIds \cap NetIds \subseteq {NoId}
    /\ \A i \in UsbIds \cup NetIds : i < nextId

\* Without requests the watcher knows the network entry, and there is only one.
NetKnown ==
    "manual" \notin setup.sources =>
        /\ addPc = "idle"
        /\ netPc \in {"skip", "insert"} => id_map = netId /\ netId \in cancelers
        /\ netPc = "insert" => Entries("net") = {}
        /\ netPc \in {"dedup", "detach"} => netId \notin Entries("net")
        /\ \A i \in Entries("net") : \/ i \in cancelers /\ id_map = i
                                     \/ netPc = "remove" /\ netId = i
        /\ \A i, j \in Entries("net") : i = j

\* The listener has a channel, and its snapshot is complete before it reads it.
ClientInv ==
    /\ lpc = "off" => queue = <<>> /\ ~lagged
    /\ lpc = "live" => unvisited = {}

\* A USB entry is due to be shown, or about to be announced; a device that is being
\* withdrawn has none.
UsbShown ==
    /\ usbPc \in {"find", "expose", "detach"} => usbId \notin Entries("usb")
    /\ Listening => \A i \in Entries("usb") : Due(i) \/ (usbPc = "attach" /\ usbId = i)

\* A network entry that no USB entry shadows is due to be shown, or its watcher has yet
\* to decide, or that of the cable will show it, or is about to insert a USB entry.
NetShown ==
    "manual" \notin setup.sources /\ Listening /\ Entries("usb") = {} =>
        \A i \in Entries("net") :
            \/ Due(i)
            \/ netPc \in {"shadow", "attach"} /\ netId = i
            \/ usbPc = "find" \/ (usbPc = "expose" /\ usbNet = i)
            \/ usbPc \in {"retain", "insert"}

ShownInv == TypeInv /\ UsbInv /\ Apart /\ NetKnown /\ ClientInv /\ UsbShown /\ NetShown

(* Events in the channel.                                                    *)

\* An event that a listener will read is at the end of the channel.
LEMMA SendQueues ==
    ASSUME TypeOK, NEW ev \in {"Attached", "Detached"}, NEW j \in Ids, Send(ev, j), lpc' = lpc, Listening'
    PROVE  Listening /\ queue' = Append(queue, [ev |-> ev, id |-> j])
  <1>1. queue \in Seq(Events) /\ Len(queue) \in Nat /\ setup.busCap \in Nat BY SetupFacts DEF TypeOK
  <1>2. lpc \in {"snapshot", "live"} /\ ~lagged' BY DEF Listening
  <1>3. /\ queue' = IF Len(queue) < setup.busCap THEN Append(queue, [ev |-> ev, id |-> j])
                    ELSE Append(Tail(queue), [ev |-> ev, id |-> j])
        /\ lagged' = (lagged \/ Len(queue) >= setup.busCap)
    BY <1>2 DEF Send
  <1>4. ~lagged /\ ~(Len(queue) >= setup.busCap) BY <1>2, <1>3
  <1>5. Len(queue) < setup.busCap BY <1>1, <1>4
  <1> QED BY <1>2, <1>3, <1>4, <1>5 DEF Listening

\* What the end of a channel tells of i.
LEMMA LastAppend ==
    ASSUME NEW q \in Seq(Events), NEW e \in Events, NEW i \in Ids, NEW ev
    PROVE  /\ e.id = i /\ e.ev = ev => LastOf(Append(q, e), i, ev)
           /\ e.id # i /\ LastOf(q, i, ev) => LastOf(Append(q, e), i, ev)
           /\ e.id # i /\ Silent(q, i) => Silent(Append(q, e), i)
  <1> DEFINE r == Append(q, e)
  <1>1. /\ Len(r) = Len(q) + 1 /\ Len(q) \in Nat /\ r[Len(q) + 1] = e
        /\ \A k \in 1..Len(q) : r[k] = q[k]
    OBVIOUS
  <1> HIDE DEF r
  <1>2. ASSUME e.id = i, e.ev = ev PROVE LastOf(r, i, ev)
    <2>1. Len(r) \in 1..Len(r) /\ \A m \in 1..Len(r) : ~(m > Len(r)) BY <1>1
    <2>2. r[Len(r)] = e BY <1>1
    <2> QED BY <1>2, <2>1, <2>2 DEF LastOf
  <1>3. ASSUME e.id # i, LastOf(q, i, ev) PROVE LastOf(r, i, ev)
    <2>1. PICK k \in 1..Len(q) : q[k].id = i /\ q[k].ev = ev /\ \A m \in 1..Len(q) : m > k => q[m].id # i
      BY <1>3 DEF LastOf
    <2>2. k \in 1..Len(r) /\ r[k] = q[k] BY <1>1
    <2>3. \A m \in 1..Len(r) : m > k => r[m].id # i
      <3> SUFFICES ASSUME NEW m \in 1..Len(r), m > k PROVE r[m].id # i OBVIOUS
      <3>1. CASE m \in 1..Len(q) BY <1>1, <2>1, <3>1
      <3>2. CASE m = Len(q) + 1 BY <1>1, <1>3, <3>2
      <3> QED BY <1>1, <3>1, <3>2
    <2> QED BY <2>1, <2>2, <2>3 DEF LastOf
  <1>4. ASSUME e.id # i, Silent(q, i) PROVE Silent(r, i)
    <2> SUFFICES ASSUME NEW k \in 1..Len(r) PROVE r[k].id # i BY DEF Silent
    <2>1. CASE k \in 1..Len(q) BY <1>1, <1>4, <2>1 DEF Silent
    <2>2. CASE k = Len(q) + 1 BY <1>1, <1>4, <2>2
    <2> QED BY <1>1, <2>1, <2>2
  <1> QED BY <1>2, <1>3, <1>4 DEF r

\* What is left when the first event is read.
LEMMA LastTail ==
    ASSUME NEW q \in Seq(Events), q # <<>>, NEW i \in Ids, NEW ev
    PROVE  /\ Silent(q, i) => Silent(Tail(q), i) /\ Head(q).id # i
           /\ LastOf(q, i, ev) => \/ LastOf(Tail(q), i, ev)
                                  \/ Head(q).id = i /\ Head(q).ev = ev /\ Silent(Tail(q), i)
  <1> DEFINE r == Tail(q)
  <1>1. /\ Len(r) = Len(q) - 1 /\ Len(q) \in Nat \ {0} /\ Head(q) = q[1]
        /\ \A k \in 1..Len(r) : r[k] = q[k+1]
    OBVIOUS
  <1> HIDE DEF r
  <1>2. ASSUME Silent(q, i) PROVE Silent(r, i) /\ Head(q).id # i
    <2>1. \A k \in 1..Len(r) : k + 1 \in 1..Len(q) BY <1>1
    <2>2. 1 \in 1..Len(q) BY <1>1
    <2> QED BY <1>1, <1>2, <2>1, <2>2 DEF Silent
  <1>3. ASSUME LastOf(q, i, ev)
        PROVE  LastOf(r, i, ev) \/ (Head(q).id = i /\ Head(q).ev = ev /\ Silent(r, i))
    <2>1. PICK k \in 1..Len(q) : q[k].id = i /\ q[k].ev = ev /\ \A m \in 1..Len(q) : m > k => q[m].id # i
      BY <1>3 DEF LastOf
    <2>2. \A m \in 1..Len(r) : m + 1 \in 1..Len(q) /\ r[m] = q[m + 1] BY <1>1
    <2>3. CASE k = 1
      <3>1. \A m \in 1..Len(r) : m + 1 > 1 BY <1>1
      <3>2. Silent(r, i) BY <2>1, <2>2, <2>3, <3>1 DEF Silent
      <3> QED BY <1>1, <2>1, <2>3, <3>2
    <2>4. CASE k # 1
      <3>1. k - 1 \in 1..Len(r) /\ (k - 1) + 1 = k BY <1>1, <2>4
      <3>2. r[k - 1] = q[k] BY <2>2, <3>1
      <3>3. \A m \in 1..Len(r) : m > k - 1 => r[m].id # i
        <4> SUFFICES ASSUME NEW m \in 1..Len(r), m > k - 1 PROVE r[m].id # i OBVIOUS
        <4>1. m + 1 > k BY <1>1
        <4> QED BY <2>1, <2>2, <4>1
      <3> QED BY <2>1, <3>1, <3>2, <3>3 DEF LastOf
    <2> QED BY <2>3, <2>4
  <1> QED BY <1>2, <1>3 DEF r

\* Sending an event about another device, or an announcement, leaves i due.
LEMMA DueSend ==
    ASSUME TypeOK, NEW i \in Ids, NEW j \in Ids, NEW ev \in {"Attached", "Detached"},
           Send(ev, j), UNCHANGED clientVars, Listening', Listening => Due(i) \/ i = j,
           i = j => ev = "Attached"
    PROVE  Due(i)'
  <1> DEFINE e == [ev |-> ev, id |-> j]
  <1>1. Listening /\ queue' = Append(queue, e) BY SendQueues DEF clientVars
  <1>2. queue \in Seq(Events) /\ e \in Events /\ e.id = j /\ e.ev = ev BY DEF TypeOK, Events
  <1>3. UNCHANGED <<view, unvisited>> BY DEF clientVars
  <1> HIDE DEF e
  <1>4. CASE i = j
    <2>1. LastOf(queue', i, "Attached") BY <1>1, <1>2, <1>4, LastAppend
    <2> QED BY <2>1 DEF Due
  <1>5. CASE i # j
    <2>1. Due(i) BY <1>1, <1>5
    <2>2. CASE LastOf(queue, i, "Attached")
      <3>1. LastOf(queue', i, "Attached") BY <1>1, <1>2, <1>5, <2>2, LastAppend
      <3> QED BY <3>1 DEF Due
    <2>3. CASE Silent(queue, i) /\ i \in view \cup unvisited
      <3>1. Silent(queue', i) BY <1>1, <1>2, <1>5, <2>3, LastAppend
      <3> QED BY <1>3, <2>3, <3>1 DEF Due
    <2> QED BY <2>1, <2>2, <2>3 DEF Due
  <1> QED BY <1>4, <1>5

\* So does a step that neither sends nor reads.
LEMMA DueFrame ==
    ASSUME NEW i \in Ids, UNCHANGED <<busVars, clientVars>>, Listening => Due(i), Listening'
    PROVE  Due(i)'
  BY DEF Due, busVars, clientVars, Listening

\* The listener finds an entry that is not shadowed in its snapshot, or is told of it.
LEMMA DueListen ==
    ASSUME TypeOK, ClientInv, NEW i \in Ids, ListenStep, Listening', Listening => Due(i),
           table[i] # "none", ~is_shadowed(i)
    PROVE  Due(i)'
  <1>1. CASE Listen
    <2>1. queue' = <<>> /\ unvisited' = Ids BY <1>1 DEF Listen, ClientInv, busVars
    <2>2. Silent(queue', i) BY <2>1 DEF Silent
    <2> QED BY <2>1, <2>2 DEF Due
  <1>2. ASSUME NEW j \in Ids, Visit(j) PROVE Due(i)'
    <2>1. /\ lpc = "snapshot" /\ queue' = queue /\ lagged' = lagged /\ unvisited' = unvisited \ {j}
          /\ view' = IF table[j] # "none" /\ ~is_shadowed(j) THEN view \cup {j} ELSE view
      BY <1>2 DEF Visit, busVars
    <2>2. Due(i) BY <2>1 DEF Listening
    <2>3. i \in view \cup unvisited => i \in view' \cup unvisited' BY <2>1
    <2> QED BY <2>1, <2>2, <2>3 DEF Due
  <1>3. CASE SnapshotSent
    <2>1. lpc = "snapshot" /\ UNCHANGED <<queue, lagged, unvisited, view>> BY <1>3 DEF SnapshotSent, busVars
    <2>2. Due(i) BY <2>1 DEF Listening
    <2> QED BY <2>1, <2>2 DEF Due
  <1>4. CASE Deliver
    <2> DEFINE e == Head(queue)
    <2>1. /\ lpc = "live" /\ ~lagged /\ queue # <<>> /\ queue' = Tail(queue) /\ unvisited' = unvisited
          /\ view' = IF e.ev = "Detached" THEN view \ {e.id}
                     ELSE IF table[e.id] # "none" THEN view \cup {e.id} ELSE view
      BY <1>4 DEF Deliver
    <2>2. Due(i) BY <2>1 DEF Listening
    <2>3. queue \in Seq(Events) BY DEF TypeOK
    <2>4. CASE LastOf(queue, i, "Attached")
      <3>1. LastOf(queue', i, "Attached") \/ (e.id = i /\ e.ev = "Attached" /\ Silent(queue', i))
        BY <2>1, <2>3, <2>4, LastTail
      <3>2. CASE LastOf(queue', i, "Attached") BY <3>2 DEF Due
      <3>3. CASE e.id = i /\ e.ev = "Attached" /\ Silent(queue', i)
        <4>1. i \in view' BY <2>1, <3>3
        <4> QED BY <3>3, <4>1 DEF Due
      <3> QED BY <3>1, <3>2, <3>3
    <2>5. CASE Silent(queue, i) /\ i \in view \cup unvisited
      <3>1. Silent(queue', i) /\ e.id # i BY <2>1, <2>3, <2>5, LastTail
      <3>2. i \in view' \cup unvisited' BY <2>1, <2>5, <3>1
      <3> QED BY <3>1, <3>2 DEF Due
    <2> QED BY <2>2, <2>4, <2>5 DEF Due
  <1>5. CASE ListenEnds BY <1>5 DEF ListenEnds, Listening
  <1> QED BY <1>1, <1>2, <1>3, <1>4, <1>5 DEF ListenStep

------------------------------------------------------------------------------
(* Ids of the two kinds of devices.                                          *)

HotIds(q) == {q[k].id : k \in 1..Len(q)}

\* Ids of events of the backend.
LEMMA HotplugIds ==
    ASSUME NEW q \in Seq(HotplugEvents)
    PROVE  /\ q # <<>> => /\ HotIds(Tail(q)) \subseteq HotIds(q) /\ Head(q).id \in HotIds(q)
           /\ \A e \in HotplugEvents : HotIds(Append(q, e)) \subseteq HotIds(q) \cup {e.id}
  <1>1. ASSUME q # <<>> PROVE HotIds(Tail(q)) \subseteq HotIds(q) /\ Head(q).id \in HotIds(q)
    <2>1. /\ Len(q) \in Nat \ {0} /\ Len(Tail(q)) = Len(q) - 1 /\ Head(q) = q[1]
          /\ \A k \in 1..Len(Tail(q)) : Tail(q)[k] = q[k + 1]
      BY <1>1
    <2>2. 1 \in 1..Len(q) /\ \A k \in 1..Len(Tail(q)) : k + 1 \in 1..Len(q) BY <2>1
    <2> QED BY <2>1, <2>2 DEF HotIds
  <1>2. ASSUME NEW e \in HotplugEvents PROVE HotIds(Append(q, e)) \subseteq HotIds(q) \cup {e.id}
    <2>1. /\ Len(Append(q, e)) = Len(q) + 1 /\ Len(q) \in Nat /\ Append(q, e)[Len(q) + 1] = e
          /\ \A k \in 1..Len(q) : Append(q, e)[k] = q[k]
      OBVIOUS
    <2>2. \A k \in 1..(Len(q) + 1) : k \in 1..Len(q) \/ k = Len(q) + 1 BY <2>1
    <2> QED BY <2>1, <2>2 DEF HotIds
  <1> QED BY <1>1, <1>2

\* Changes of the table.
LEMMA TableIds ==
    ASSUME TypeOK
    PROVE  /\ table' = table => Entries("usb")' = Entries("usb") /\ Entries("net")' = Entries("net")
           /\ \A i \in Ids \cup {NoId} : Remove(i) =>
                 /\ Entries("usb")' = Entries("usb") \ {i} /\ Entries("net")' = Entries("net") \ {i}
           /\ \A i \in Ids : Insert(i, "usb") =>
                 /\ Entries("usb")' = Entries("usb") \cup {i} /\ Entries("net")' = Entries("net") \ {i}
           /\ \A i \in Ids : Insert(i, "net") =>
                 /\ Entries("net")' = Entries("net") \cup {i} /\ Entries("usb")' = Entries("usb") \ {i}
           /\ UsbRetain => Entries("usb")' = {} /\ Entries("net")' = Entries("net")
  <1>1. table \in [Ids -> {"none", "usb", "net"}] BY DEF TypeOK
  <1>2. NoId \notin Ids BY SetupFacts
  <1> QED BY <1>1, <1>2 DEF Entries, Remove, Insert, UsbRetain

\* A step that brings no id into play, a new enumeration, a new network device.
LEMMA ApartFrame ==
    ASSUME TypeOK, Apart,
           \/ /\ UsbIds' \subseteq UsbIds \cup {NoId} /\ NetIds' \subseteq NetIds \cup {NoId}
              /\ nextId' = nextId
           \/ /\ UsbIds' \subseteq UsbIds \cup {NoId, nextId} /\ NetIds' \subseteq NetIds \cup {NoId}
              /\ nextId' = nextId + 1
           \/ /\ UsbIds' \subseteq UsbIds \cup {NoId} /\ NetIds' \subseteq NetIds \cup {NoId, nextId}
              /\ nextId' = nextId + 1
    PROVE  Apart'
  <1> DEFINE m == nextId'
  <1>1. nextId \in Nat \ {0} /\ NoId = 0 BY RegistryAssumption DEF TypeOK, NoId
  <1>2. m = nextId \/ m = nextId + 1 OBVIOUS
  <1>3. UsbIds \subseteq Int /\ NetIds \subseteq Int
    <2>1. Ids \subseteq Int /\ NoId \in Int BY RegistryAssumption DEF Ids, NoId
    <2>2. \A k \in 1..Len(hotplug) : hotplug[k].id \in Ids
      <3>1. hotplug \in Seq(HotplugEvents) BY DEF TypeOK, HotplugEvents
      <3>2. \A k \in 1..Len(hotplug) : hotplug[k] \in HotplugEvents BY <3>1
      <3> QED BY <3>2 DEF HotplugEvents
    <2> QED BY <2>1, <2>2 DEF UsbIds, NetIds, TypeOK, Entries
  <1>4. nextId \notin UsbIds \cup NetIds BY <1>1, <1>3 DEF Apart
  <1>5. UsbIds' \cap NetIds' \subseteq {NoId}
    BY <1>1, <1>4 DEF Apart
  <1>6. \A i \in UsbIds' \cup NetIds' : i \in UsbIds \cup NetIds \cup {NoId} \/ (i = nextId /\ m = nextId + 1)
    OBVIOUS
  <1> HIDE DEF m
  <1>7. \A i \in UsbIds' \cup NetIds' : i < m
    <2> SUFFICES ASSUME NEW i \in UsbIds' \cup NetIds' PROVE i < m OBVIOUS
    <2>1. CASE i \in UsbIds \cup NetIds
      <3>1. i < nextId /\ i \in Int BY <1>3, <2>1 DEF Apart
      <3> QED BY <1>1, <1>2, <3>1
    <2>2. CASE i = NoId BY <1>1, <1>2, <2>2
    <2>3. CASE i = nextId /\ m = nextId + 1 BY <1>1, <2>3
    <2> QED BY <1>6, <2>1, <2>2, <2>3
  <1> QED BY <1>5, <1>7 DEF Apart, m

\* No step mixes the ids.
LEMMA ApartStep == TypeInv /\ Apart /\ [Next]_vars => Apart'
  <1> SUFFICES ASSUME TypeInv, Apart, [Next]_vars PROVE Apart' OBVIOUS
  <1> USE DEF UsbPass, NetPass, AddPass, ListenPass, usbVars, netVars, addVars
  <1>1. TypeOK /\ HandIds /\ hotplug \in Seq(HotplugEvents) BY DEF TypeInv, TypeOK, HotplugEvents
  <1>2. /\ UsbIds = {plugged, usbId} \cup HotIds(hotplug) \cup ioErrors \cup Entries("usb")
        /\ UsbIds' = {plugged', usbId'} \cup HotIds(hotplug') \cup ioErrors' \cup Entries("usb")'
        /\ NetIds = {id_map, netId, usbNet, addOld, addId} \cup Entries("net")
        /\ NetIds' = {id_map', netId', usbNet', addOld', addId'} \cup Entries("net")'
    BY DEF UsbIds, NetIds, HotIds
  <1>3. ASSUME UNCHANGED <<plugged, usbId, usbNet, hotplug, ioErrors, id_map,
                          netId, addOld, addId, table, nextId>>
        PROVE  Apart'
    BY <1>1, <1>2, <1>3, ApartFrame, TableIds
  <1>4. CASE Plug
    <2>1. nextId \in Ids BY <1>1, <1>4, SetupFacts DEF Plug
    <2>2. [ev |-> "Connected", id |-> nextId] \in HotplugEvents BY <2>1 DEF HotplugEvents
    <2>3. HotIds(hotplug') \subseteq HotIds(hotplug) \cup {nextId}
      BY <1>1, <1>4, <2>2, HotplugIds DEF Plug
    <2> QED BY <1>1, <1>2, <1>4, <2>3, ApartFrame, TableIds DEF Plug
  <1>5. CASE Unplug
    <2>1. [ev |-> "Disconnected", id |-> plugged] \in HotplugEvents
      BY <1>1, <1>5 DEF Unplug, TypeOK, HotplugEvents
    <2>2. HotIds(hotplug') \subseteq HotIds(hotplug) \cup {plugged}
      BY <1>1, <1>5, <2>1, HotplugIds DEF Unplug
    <2> QED BY <1>1, <1>2, <1>5, <2>2, ApartFrame, TableIds DEF Unplug
  <1>6. CASE NetResolved BY <1>1, <1>2, <1>6, ApartFrame, TableIds DEF NetResolved
  <1>7. CASE NetWithdrawn BY <1>1, <1>2, <1>7, ApartFrame, TableIds DEF NetWithdrawn
  <1>8. ASSUME NEW i \in Ids, IoError(i) PROVE Apart'
    <2>1. i \in Entries("usb") BY <1>8 DEF IoError, Entries
    <2> QED BY <1>1, <1>2, <1>8, <2>1, ApartFrame, TableIds DEF IoError
  <1>9. ASSUME NEW i \in Ids, HeartbeatFails(i) PROVE Apart' BY <1>3, <1>9 DEF HeartbeatFails
  <1>10. CASE UsbStep
    <2> USE DEF UsbIdle
    <2>1. CASE UsbOpenFails
      <3>1. HotIds(hotplug') \subseteq HotIds(hotplug) BY <1>1, <2>1, HotplugIds DEF UsbOpenFails
      <3> QED BY <1>1, <1>2, <2>1, <3>1, ApartFrame, TableIds DEF UsbOpenFails
    <2>2. CASE UsbConnected
      <3>1. HotIds(hotplug') \subseteq HotIds(hotplug) /\ usbId' \in UsbIds
        BY <1>1, <1>2, <2>2, HotplugIds DEF UsbConnected
      <3>2. usbNet' \in Entries("net") \cup {NoId} BY <2>2 DEF UsbConnected, FindNetwork
      <3> QED BY <1>1, <1>2, <2>2, <3>1, <3>2, ApartFrame, TableIds DEF UsbConnected
    <2>3. CASE UsbHide BY <1>3, <2>3 DEF UsbHide
    <2>4. CASE UsbRetain
      <3>1. UNCHANGED <<plugged, usbId, usbNet, hotplug, ioErrors, id_map, netId, addOld, addId, nextId>>
        BY <2>4 DEF UsbRetain
      <3> QED BY <1>1, <1>2, <2>4, <3>1, ApartFrame, TableIds
    <2>5. CASE UsbInsert
      <3>1. usbId \in Ids BY <1>1, <2>5 DEF UsbInsert, HandIds
      <3> QED BY <1>1, <1>2, <2>5, <3>1, ApartFrame, TableIds DEF UsbInsert
    <2>6. CASE UsbAttach BY <1>1, <1>2, <2>6, ApartFrame, TableIds DEF UsbAttach
    <2>7. CASE UsbDisconnected
      <3>1. PICK i \in Ids, io \in BOOLEAN :
              /\ \/ /\ ~io /\ hotplug # <<>> /\ Head(hotplug) = [ev |-> "Disconnected", id |-> i]
                    /\ hotplug' = Tail(hotplug) /\ UNCHANGED ioErrors
                 \/ /\ io /\ i \in ioErrors
                    /\ ioErrors' = ioErrors \ {i} /\ UNCHANGED hotplug
              /\ Remove(i)
              /\ usbId' \in {i, usbId}
        BY <2>7 DEF UsbDisconnected
      <3>2. i \in UsbIds /\ HotIds(hotplug') \subseteq HotIds(hotplug) /\ ioErrors' \subseteq ioErrors
        <4>1. CASE ioErrors' = ioErrors /\ hotplug # <<>> /\ hotplug' = Tail(hotplug) /\ Head(hotplug).id = i
          BY <1>1, <1>2, <4>1, HotplugIds
        <4>2. CASE i \in ioErrors /\ ioErrors' = ioErrors \ {i} /\ hotplug' = hotplug BY <1>2, <4>2
        <4>3. Head(hotplug) = [ev |-> "Disconnected", id |-> i] => Head(hotplug).id = i OBVIOUS
        <4> QED BY <3>1, <4>1, <4>2, <4>3
      <3>3. /\ Entries("usb")' \subseteq Entries("usb") /\ Entries("net")' \subseteq Entries("net")
        BY <1>1, <3>1, TableIds
      <3>4. UNCHANGED <<plugged, usbNet, id_map, netId, addOld, addId, nextId>>
        BY <2>7 DEF UsbDisconnected
      <3>5. usbId' \in UsbIds BY <1>2, <3>1, <3>2
      <3>6. UsbIds' \subseteq UsbIds /\ NetIds' \subseteq NetIds BY <1>2, <3>2, <3>3, <3>4, <3>5
      <3> QED BY <1>1, <3>4, <3>6, ApartFrame
    <2>8. CASE UsbFindNetwork
      <3>1. usbNet' \in Entries("net") \cup {NoId} BY <2>8 DEF UsbFindNetwork, FindNetwork
      <3> QED BY <1>1, <1>2, <2>8, <3>1, ApartFrame, TableIds DEF UsbFindNetwork
    <2>9. CASE UsbExpose BY <1>1, <1>2, <2>9, ApartFrame, TableIds DEF UsbExpose
    <2>10. CASE UsbDetach BY <1>1, <1>2, <2>10, ApartFrame, TableIds DEF UsbDetach, UsbHandled
    <2>11. CASE UsbNotReopened BY <1>1, <1>2, <2>11, ApartFrame, TableIds DEF UsbNotReopened
    <2> QED
      BY <1>10, <2>1, <2>2, <2>3, <2>4, <2>5, <2>6, <2>7, <2>8, <2>9, <2>10, <2>11 DEF UsbStep
  <1>11. CASE NetStep
    <2> USE DEF NetIdle
    <2>1. CASE NetConnected \/ NetInsert
      <3>1. netId \in Ids BY <1>1, <2>1 DEF NetConnected, NetInsert, HandIds
      <3>2. /\ Entries("usb")' \subseteq Entries("usb") /\ Entries("net")' \subseteq Entries("net") \cup {netId}
        BY <1>1, <2>1, <3>1, TableIds DEF NetConnected, NetInsert
      <3>3. /\ netId' \in {netId, NoId}
            /\ UNCHANGED <<plugged, usbId, usbNet, hotplug, ioErrors, id_map, addOld, addId, nextId>>
        BY <2>1 DEF NetConnected, NetInsert
      <3> QED BY <1>1, <1>2, <3>2, <3>3, ApartFrame
    <2>2. CASE NetShadow \/ NetAttach \/ NetDedup \/ NetDetach
      BY <1>1, <1>2, <2>2, ApartFrame, TableIds DEF NetShadow, NetAttach, NetDedup, NetDetach
    <2>3. CASE NetCancelled BY <1>1, <1>2, <2>3, ApartFrame, TableIds DEF NetCancelled
    <2>4. CASE NetDisconnected
      <3>1. Entries("usb")' \subseteq Entries("usb") /\ Entries("net")' \subseteq Entries("net")
        BY <1>1, <2>4, TableIds DEF NetDisconnected, TypeOK
      <3>2. /\ netId' \in {netId, NoId}
            /\ UNCHANGED <<plugged, usbId, usbNet, hotplug, ioErrors, id_map, addOld, addId, nextId>>
        BY <2>4 DEF NetDisconnected
      <3> QED BY <1>1, <1>2, <3>1, <3>2, ApartFrame
    <2> QED BY <1>11, <2>1, <2>2, <2>3, <2>4 DEF NetStep
  <1>12. CASE AddStep
    <2>1. CASE AddDevice
      <3>1. addOld' \in Entries("net") \cup {NoId} BY <2>1 DEF AddDevice, FindNetwork
      <3> QED BY <1>1, <1>2, <2>1, <3>1, ApartFrame, TableIds DEF AddDevice
    <2>2. CASE AddDetach BY <1>3, <2>2 DEF AddDetach
    <2>3. CASE AddRemove
      <3>1. Entries("usb")' \subseteq Entries("usb") /\ Entries("net")' \subseteq Entries("net")
        BY <1>1, <2>3, TableIds DEF AddRemove, TypeOK
      <3>2. /\ addOld' \in {addOld, NoId}
            /\ UNCHANGED <<plugged, usbId, usbNet, hotplug, ioErrors, id_map, netId, addId, nextId>>
        BY <2>3 DEF AddRemove
      <3> QED BY <1>1, <1>2, <3>1, <3>2, ApartFrame
    <2>4. CASE AddInserts
      <3>1. nextId \in Ids BY <1>1, <2>4, SetupFacts DEF AddInserts
      <3>2. Entries("usb")' \subseteq Entries("usb") /\ Entries("net")' \subseteq Entries("net") \cup {nextId}
        BY <1>1, <2>4, <3>1, TableIds DEF AddInserts
      <3> QED BY <1>1, <1>2, <2>4, <3>2, ApartFrame DEF AddInserts
    <2>5. CASE AddRestores
      <3>1. Entries("usb")' \subseteq Entries("usb") /\ Entries("net")' \subseteq Entries("net") \cup {addOld}
        <4>1. CASE addOld = NoId BY <1>1, <2>5, <4>1, TableIds DEF AddRestores
        <4>2. CASE addOld # NoId BY <1>1, <2>5, <4>2, TableIds DEF AddRestores, TypeOK
        <4> QED BY <4>1, <4>2
      <3> QED BY <1>1, <1>2, <2>5, <3>1, ApartFrame DEF AddRestores
    <2>6. CASE AddShadow \/ AddAttach
      BY <1>1, <1>2, <2>6, ApartFrame, TableIds DEF AddShadow, AddAttach, AddEnds
    <2> QED BY <1>12, <2>1, <2>2, <2>3, <2>4, <2>5, <2>6 DEF AddStep
  <1>13. CASE ListenStep
    BY <1>3, <1>13 DEF ListenStep, Listen, Visit, SnapshotSent, Deliver, ListenEnds
  <1>14. CASE UNCHANGED vars BY <1>3, <1>14 DEF vars
  <1> QED
    BY <1>4, <1>5, <1>6, <1>7, <1>8, <1>9, <1>10, <1>11, <1>12, <1>13, <1>14 DEF Next, World

------------------------------------------------------------------------------
(* The watcher of the network and its entry.                                 *)

\* The environment is chosen once.
LEMMA SetupKept == [Next]_vars => setup' = setup
  BY DEF UsbPass, NetPass, AddPass, ListenPass, Next, World, Plug, Unplug,
         NetResolved, NetWithdrawn, IoError, HeartbeatFails, UsbStep,
         UsbOpenFails, UsbConnected, UsbHide, UsbRetain, UsbInsert, UsbAttach, UsbDisconnected,
         UsbFindNetwork, UsbExpose, UsbDetach, UsbNotReopened, NetStep, NetConnected, NetInsert, NetShadow,
         NetAttach, NetCancelled, NetDisconnected, NetDedup, NetDetach, AddStep, AddDevice,
         AddDetach, AddRemove, AddInserts, AddRestores, AddShadow, AddAttach, ListenStep, Listen,
         Visit, SnapshotSent, Deliver, ListenEnds, vars

\* Every step keeps what the watcher of the network knows.
LEMMA NetKnownStep == TypeInv /\ NetKnown /\ [Next]_vars => NetKnown'
  <1> SUFFICES ASSUME TypeInv, NetKnown, [Next]_vars PROVE NetKnown' OBVIOUS
  <1> USE DEF UsbPass, NetPass, AddPass, ListenPass, netVars, addVars, NetIdle
  <1>1. TypeOK /\ HandIds BY DEF TypeInv
  <1>2. setup' = setup BY SetupKept
  <1> SUFFICES ASSUME "manual" \notin setup.sources
               PROVE  /\ addPc' = "idle"
                      /\ netPc' \in {"skip", "insert"} => id_map' = netId' /\ netId' \in cancelers'
                      /\ netPc' = "insert" => Entries("net")' = {}
                      /\ netPc' \in {"dedup", "detach"} => netId' \notin Entries("net")'
                      /\ \A i \in Entries("net")' : \/ i \in cancelers' /\ id_map' = i
                                                    \/ netPc' = "remove" /\ netId' = i
                      /\ \A i, j \in Entries("net")' : i = j
    BY <1>2 DEF NetKnown
  <1>3. /\ addPc = "idle"
        /\ netPc \in {"skip", "insert"} => id_map = netId /\ netId \in cancelers
        /\ netPc = "insert" => Entries("net") = {}
        /\ netPc \in {"dedup", "detach"} => netId \notin Entries("net")
        /\ \A i \in Entries("net") : \/ i \in cancelers /\ id_map = i
                                     \/ netPc = "remove" /\ netId = i
        /\ \A i, j \in Entries("net") : i = j
    BY DEF NetKnown
  <1> HIDE DEF NetKnown
  <1>4. ASSUME UNCHANGED <<netVars, addPc>>, Entries("net")' \subseteq Entries("net")
        PROVE  NetKnown'
    BY <1>3, <1>4 DEF NetKnown
  <1>5. CASE Plug \/ Unplug \/ (\E i \in Ids : IoError(i) \/ HeartbeatFails(i))
    BY <1>1, <1>2, <1>4, <1>5, TableIds DEF Plug, Unplug, IoError, HeartbeatFails, NetKnown
  <1>6. CASE ListenStep \/ UNCHANGED vars
    BY <1>1, <1>2, <1>4, <1>6, TableIds
    DEF ListenStep, Listen, Visit, SnapshotSent, Deliver, ListenEnds, vars, NetKnown
  <1>7. CASE UsbStep
    <2>1. UNCHANGED <<netVars, addPc>>
      BY <1>7 DEF UsbStep, UsbOpenFails, UsbConnected, UsbHide, UsbRetain, UsbInsert, UsbAttach,
                  UsbDisconnected, UsbFindNetwork, UsbExpose, UsbDetach, UsbNotReopened
    <2>2. table' = table \/ UsbRetain \/ UsbInsert \/ \E i \in Ids : Remove(i)
      BY <1>7 DEF UsbStep, UsbOpenFails, UsbConnected, UsbHide, UsbAttach,
                  UsbDisconnected, UsbFindNetwork, UsbExpose, UsbDetach, UsbNotReopened
    <2>3. UsbInsert => usbId \in Ids /\ Insert(usbId, "usb") BY <1>1 DEF UsbInsert, HandIds
    <2>4. Entries("net")' \subseteq Entries("net") BY <1>1, <2>2, <2>3, TableIds
    <2> QED BY <1>2, <1>4, <2>1, <2>4 DEF NetKnown
  <1>8. CASE AddStep
    <2>1. FALSE
      BY <1>3, <1>8 DEF AddStep, AddDevice, AddDetach, AddRemove, AddInserts, AddRestores, AddShadow,
                        AddAttach
    <2> QED BY <2>1
  <1>9. CASE NetResolved
    <2>1. Entries("net")' = Entries("net") BY <1>1, <1>9, TableIds DEF NetResolved
    <2>2. \A i \in Entries("net") : i = NoId BY <1>3, <1>9 DEF NetResolved
    <2>3. Entries("net") = {} BY <1>1, <2>2, SetupFacts DEF Entries
    <2> QED BY <1>3, <1>9, <2>1, <2>3 DEF NetResolved
  <1>10. CASE NetWithdrawn
    <2>1. Entries("net")' = Entries("net") BY <1>1, <1>10, TableIds DEF NetWithdrawn
    <2> QED BY <1>3, <1>10, <2>1 DEF NetWithdrawn
  <1>11. CASE NetConnected
    <2>1. Entries("net")' = Entries("net") BY <1>1, <1>11, TableIds DEF NetConnected
    <2>2. netPc' = "insert" => Entries("net") = {} BY <1>11 DEF NetConnected, has_network_with_udid
    <2> QED BY <1>3, <1>11, <2>1, <2>2 DEF NetConnected
  <1>12. CASE NetShadow \/ NetAttach \/ NetDetach
    <2>1. Entries("net")' = Entries("net") BY <1>1, <1>12, TableIds DEF NetShadow, NetAttach, NetDetach
    <2> QED BY <1>3, <1>12, <2>1 DEF NetShadow, NetAttach, NetDetach
  <1>13. CASE NetCancelled
    <2>1. Entries("net")' = Entries("net") BY <1>1, <1>13, TableIds DEF NetCancelled
    <2>2. id_map = NoId => Entries("net") = {}
      <3>1. netPc = "idle" BY <1>13 DEF NetCancelled
      <3>2. id_map = NoId => \A i \in Entries("net") : i = NoId BY <1>3, <3>1
      <3> QED BY <1>1, <3>2, SetupFacts DEF Entries
    <2> QED BY <1>3, <1>13, <2>1, <2>2 DEF NetCancelled
  <1>14. CASE NetDisconnected
    <2>1. Entries("net")' = Entries("net") \ {netId} BY <1>1, <1>14, TableIds DEF NetDisconnected, TypeOK
    <2>2. /\ netPc = "remove" /\ netPc' \in {"idle", "dedup"} /\ (netPc' = "dedup" => netId' = netId)
          /\ UNCHANGED <<id_map, cancelers, addPc>>
      BY <1>14 DEF NetDisconnected
    <2> QED BY <1>3, <2>1, <2>2
  <1>15. CASE NetDedup
    <2>1. Entries("net")' = Entries("net") BY <1>1, <1>15, TableIds DEF NetDedup
    <2> QED BY <1>3, <1>15, <2>1 DEF NetDedup
  <1>16. CASE NetInsert
    <2>1. netId \in Ids BY <1>1, <1>16 DEF NetInsert, HandIds
    <2>2. Entries("net")' = Entries("net") \cup {netId} BY <1>1, <1>16, <2>1, TableIds DEF NetInsert
    <2>3. Entries("net")' = {netId} BY <1>3, <1>16, <2>2 DEF NetInsert
    <2> QED BY <1>3, <1>16, <2>3 DEF NetInsert
  <1> QED
    BY <1>5, <1>6, <1>7, <1>8, <1>9, <1>10, <1>11, <1>12, <1>13, <1>14, <1>15,
       <1>16
    DEF Next, World, NetStep

\* The network entry is known from the start.
LEMMA NetKnownInit == Init => NetKnown
  BY DEF Init, NetKnown, Entries

\* While a network device whose heartbeat has failed is in the table, the watcher is
\* waiting for its token under the address that leads to it, or about to remove it.
THEOREM DeadAreNoticed == Spec => []DeadIsNoticed
  <1>1. NetKnown => DeadIsNoticed BY DEF NetKnown, DeadIsNoticed
  <1> QED BY <1>1, TypeInit, TypeStep, NetKnownInit, NetKnownStep, PTL DEF Spec

------------------------------------------------------------------------------
(* What has to be shown is shown.                                            *)

\* A step of a watcher or of a request says nothing about i, or announces it.
SaysNothing(i) ==
    UNCHANGED busVars \/ \E ev \in {"Attached", "Detached"}, j \in Ids :
                              Send(ev, j) /\ (i = j => ev = "Attached")

\* After such a step there is a listener only if there was one, and it is as well informed.
LEMMA DueKept ==
    ASSUME TypeOK, NEW i \in Ids, UNCHANGED clientVars, Listening', SaysNothing(i)
    PROVE  Listening /\ (Due(i) => Due(i)')
  <1>1. CASE UNCHANGED busVars
    <2>1. Listening BY <1>1 DEF Listening, busVars, clientVars
    <2> QED BY <1>1, <2>1, DueFrame
  <1>2. ASSUME NEW ev \in {"Attached", "Detached"}, NEW j \in Ids, Send(ev, j), i = j => ev = "Attached"
        PROVE  Listening /\ (Due(i) => Due(i)')
    <2>1. Listening BY <1>2, SendQueues DEF clientVars
    <2> QED BY <1>2, <2>1, DueSend
  <1> QED BY <1>1, <1>2 DEF SaysNothing

\* The listener's own state.
LEMMA ClientStep == TypeInv /\ ClientInv /\ [Next]_vars => ClientInv'
  <1> SUFFICES ASSUME TypeInv, ClientInv, [Next]_vars PROVE ClientInv' OBVIOUS
  <1> USE DEF UsbPass, NetPass, AddPass, ListenPass, clientVars
  <1>1. ASSUME UNCHANGED clientVars, UNCHANGED busVars \/ \E ev, j : Send(ev, j) PROVE ClientInv'
    BY <1>1 DEF ClientInv, Send, busVars
  <1>2. CASE World BY <1>1, <1>2 DEF World, Plug, Unplug, NetResolved, NetWithdrawn, IoError, HeartbeatFails
  <1>3. CASE UsbStep
    BY <1>1, <1>3 DEF UsbStep, UsbOpenFails, UsbConnected, UsbHide, UsbRetain, UsbInsert, UsbAttach,
         UsbDisconnected, UsbFindNetwork, UsbExpose, UsbDetach, UsbNotReopened
  <1>4. CASE NetStep
    BY <1>1, <1>4 DEF NetStep, NetConnected, NetInsert, NetShadow, NetAttach, NetCancelled, NetDisconnected,
         NetDedup, NetDetach
  <1>5. CASE AddStep
    BY <1>1, <1>5 DEF AddStep, AddDevice, AddDetach, AddRemove, AddInserts, AddRestores, AddShadow,
         AddAttach
  <1>6. CASE ListenStep
    BY <1>6 DEF ListenStep, Listen, Visit, SnapshotSent, Deliver, ListenEnds, ClientInv, busVars
  <1>7. CASE UNCHANGED vars BY <1>1, <1>7 DEF vars
  <1> QED BY <1>2, <1>3, <1>4, <1>5, <1>6, <1>7 DEF Next

\* An id of a network device is none of a USB entry, and the other way round.
LEMMA KindsApart ==
    ASSUME TypeOK, Apart
    PROVE  /\ \A i \in Entries("usb") : i \notin {id_map, netId, usbNet, addOld, addId}
           /\ \A i \in Entries("net") : i \notin {plugged, usbId}
  <1>1. NoId \notin Ids BY SetupFacts
  <1> QED BY <1>1 DEF Apart, UsbIds, NetIds, Entries

\* USB entries stay due: the watchers of the network and add_device speak of other ids,
\* and the watcher of the cable announces what it has inserted.
LEMMA UsbShownStep ==
    TypeInv /\ UsbInv /\ Apart /\ ClientInv /\ UsbShown /\ [Next]_vars => UsbShown'
  <1> SUFFICES ASSUME TypeInv, UsbInv, Apart, ClientInv, UsbShown, [Next]_vars PROVE UsbShown' OBVIOUS
  <1> USE DEF UsbPass, NetPass, AddPass, ListenPass, usbVars, netVars, addVars
  <1>1. TypeOK /\ HandIds BY DEF TypeInv
  <1>2. usbNet \in Ids \cup {NoId} BY <1>1 DEF TypeOK
  <1>3. \A i \in Entries("usb") : i \in Ids /\ i \notin {id_map, netId, usbNet, addOld, addId}
    BY <1>1, KindsApart DEF Entries
  <1>4. /\ usbPc \in {"find", "expose", "detach"} => usbId \notin Entries("usb")
        /\ Listening => \A i \in Entries("usb") : Due(i) \/ (usbPc = "attach" /\ usbId = i)
    BY DEF UsbShown
  <1>5. ASSUME UNCHANGED clientVars, Entries("usb")' \subseteq Entries("usb"),
               \A i \in Entries("usb")' : SaysNothing(i),
               UNCHANGED <<usbPc, usbId>>
        PROVE  UsbShown'
    <2> SUFFICES ASSUME Listening', NEW i \in Entries("usb")'
                 PROVE  Due(i)' \/ (usbPc = "attach" /\ usbId = i)
      BY <1>4, <1>5 DEF UsbShown
    <2>1. i \in Entries("usb") /\ i \in Ids /\ SaysNothing(i) BY <1>3, <1>5
    <2> QED BY <1>1, <1>4, <1>5, <2>1, DueKept
  <1>6. ASSUME UNCHANGED clientVars, Entries("usb")' \subseteq Entries("usb"),
               \A i \in Entries("usb")' : SaysNothing(i), usbPc # "attach",
               usbPc' \in {"find", "expose", "detach"} => usbId' \notin Entries("usb")'
        PROVE  UsbShown'
    <2> SUFFICES ASSUME Listening', NEW i \in Entries("usb")' PROVE  Due(i)' BY <1>6 DEF UsbShown
    <2>1. i \in Entries("usb") /\ i \in Ids /\ SaysNothing(i) BY <1>3, <1>6
    <2> QED BY <1>1, <1>4, <1>6, <2>1, DueKept
  <1>7. CASE World
    <2>1. Entries("usb")' = Entries("usb") /\ UNCHANGED <<busVars, clientVars, usbPc, usbId>>
      BY <1>1, <1>7, TableIds DEF World, Plug, Unplug, NetResolved, NetWithdrawn, IoError, HeartbeatFails
    <2> QED BY <1>5, <2>1 DEF SaysNothing
  <1>8. CASE UsbStep
    <2>1. CASE UsbOpenFails \/ UsbConnected \/ UsbFindNetwork \/ UsbNotReopened
      <3>1. Entries("usb")' = Entries("usb") /\ UNCHANGED <<busVars, clientVars>> /\ usbPc # "attach"
        BY <1>1, <2>1, TableIds DEF UsbOpenFails, UsbConnected, UsbFindNetwork, UsbNotReopened
      <3>2. usbPc' \in {"find", "expose", "detach"} => usbId' \notin Entries("usb")'
        BY <1>4, <2>1, <3>1 DEF UsbOpenFails, UsbConnected, UsbFindNetwork, UsbNotReopened, UsbIdle
      <3> QED BY <1>6, <3>1, <3>2 DEF SaysNothing
    <2>2. CASE UsbHide \/ UsbExpose
      <3>1. Entries("usb")' = Entries("usb") /\ UNCHANGED clientVars /\ usbPc # "attach" /\ usbId' = usbId
        BY <1>1, <2>2, TableIds DEF UsbHide, UsbExpose
      <3>2. usbPc' \in {"find", "expose", "detach"} => usbId' \notin Entries("usb")'
        BY <1>4, <2>2, <3>1 DEF UsbHide, UsbExpose
      <3>3. UNCHANGED busVars \/ (usbNet \in Ids /\ \E ev \in {"Attached", "Detached"} : Send(ev, usbNet))
        BY <1>2, <2>2 DEF UsbHide, UsbExpose
      <3>4. \A i \in Entries("usb") : SaysNothing(i) BY <1>3, <3>3 DEF SaysNothing
      <3> QED BY <1>6, <3>1, <3>2, <3>4
    <2>3. CASE UsbRetain
      <3>1. Entries("usb")' = {} /\ usbPc' = "insert" BY <1>1, <2>3, TableIds DEF UsbRetain
      <3> QED BY <3>1 DEF UsbShown
    <2>4. CASE UsbInsert
      <3>1. usbId \in Ids /\ Insert(usbId, "usb") /\ usbPc' = "attach" /\ usbId' = usbId
        BY <1>1, <2>4 DEF UsbInsert, HandIds
      <3>2. Entries("usb") = {} BY <2>4 DEF UsbInsert, UsbInv
      <3>3. Entries("usb")' = {usbId} BY <1>1, <3>1, <3>2, TableIds
      <3> QED BY <3>1, <3>3 DEF UsbShown
    <2>5. CASE UsbAttach
      <3>1. Entries("usb")' = Entries("usb") /\ UNCHANGED clientVars /\ usbPc' = "idle"
        BY <1>1, <2>5, TableIds DEF UsbAttach, UsbIdle
      <3>2. usbId \in Ids /\ Send("Attached", usbId) BY <1>1, <2>5 DEF UsbAttach, HandIds
      <3> SUFFICES ASSUME Listening', NEW i \in Entries("usb") PROVE Due(i)' BY <3>1 DEF UsbShown
      <3>3. Listening => Due(i) \/ i = usbId BY <1>4
      <3> QED BY <1>1, <1>3, <3>1, <3>2, <3>3, DueSend
    <2>6. CASE UsbDisconnected
      <3>1. PICK i \in Ids : Remove(i) /\ (usbPc' = usbPc \/ usbId' = i) BY <2>6 DEF UsbDisconnected
      <3>2. Entries("usb")' = Entries("usb") \ {i} BY <1>1, <3>1, TableIds
      <3>3. UNCHANGED <<busVars, clientVars>> /\ usbPc = "idle" BY <2>6 DEF UsbDisconnected
      <3>4. usbPc' \in {"find", "expose", "detach"} => usbId' \notin Entries("usb")' BY <3>1, <3>2, <3>3
      <3> QED BY <1>6, <3>2, <3>3, <3>4 DEF SaysNothing
    <2>7. CASE UsbDetach
      <3>1. /\ Entries("usb")' = Entries("usb") /\ UNCHANGED clientVars
            /\ usbPc = "detach" /\ usbPc' \in {"reopen", "idle"}
        BY <1>1, <2>7, TableIds DEF UsbDetach, UsbHandled, UsbIdle
      <3>2. usbId \in Ids /\ Send("Detached", usbId) /\ usbId \notin Entries("usb")
        BY <1>1, <1>4, <2>7 DEF UsbDetach, HandIds
      <3>3. \A i \in Entries("usb") : SaysNothing(i) BY <3>2 DEF SaysNothing
      <3> QED BY <1>6, <3>1, <3>3
    <2> QED BY <1>8, <2>1, <2>2, <2>3, <2>4, <2>5, <2>6, <2>7 DEF UsbStep
  <1>9. CASE NetStep
    <2>1. UNCHANGED <<clientVars, usbPc, usbId>>
      BY <1>9 DEF NetStep, NetConnected, NetInsert, NetShadow, NetAttach, NetCancelled,
                  NetDisconnected, NetDedup, NetDetach
    <2>2. UNCHANGED busVars \/ (netId \in Ids /\ \E ev \in {"Attached", "Detached"} : Send(ev, netId))
      BY <1>1, <1>9 DEF HandIds, NetStep, NetConnected, NetInsert, NetShadow, NetAttach, NetCancelled,
                        NetDisconnected, NetDedup, NetDetach
    <2>3. table' = table \/ (netId \in Ids /\ (Remove(netId) \/ Insert(netId, "net")))
      BY <1>1, <1>9 DEF HandIds, NetStep, NetConnected, NetInsert, NetShadow, NetAttach, NetCancelled,
                        NetDisconnected, NetDedup, NetDetach
    <2>4. Entries("usb")' \subseteq Entries("usb") BY <1>1, <2>3, TableIds
    <2>5. \A i \in Entries("usb") : SaysNothing(i) BY <1>3, <2>2 DEF SaysNothing
    <2> QED BY <1>5, <2>1, <2>4, <2>5
  <1>10. CASE AddStep
    <2>1. UNCHANGED <<clientVars, usbPc, usbId>>
      BY <1>10 DEF AddStep, AddDevice, AddDetach, AddRemove, AddInserts, AddRestores, AddShadow, AddAttach
    <2>2. \/ UNCHANGED busVars
          \/ addOld \in Ids /\ Send("Detached", addOld)
          \/ addId \in Ids /\ Send("Attached", addId)
      BY <1>1, <1>10 DEF HandIds, AddStep, AddDevice, AddDetach, AddRemove, AddInserts, AddRestores,
                         AddShadow, AddAttach
    <2>3. \/ table' = table
          \/ \E i \in Ids : Remove(i) \/ Insert(i, "net")
      <3>1. nextId <= setup.ids => nextId \in Ids BY <1>1, SetupFacts
      <3>2. addOld # NoId => addOld \in Ids BY <1>1 DEF TypeOK
      <3> QED BY <1>1, <1>10, <3>1, <3>2
          DEF HandIds, AddStep, AddDevice, AddDetach, AddRemove, AddInserts, AddRestores, AddShadow, AddAttach
    <2>4. Entries("usb")' \subseteq Entries("usb") BY <1>1, <2>3, TableIds
    <2>5. \A i \in Entries("usb") : SaysNothing(i) BY <1>3, <2>2 DEF SaysNothing
    <2> QED BY <1>5, <2>1, <2>4, <2>5
  <1>11. CASE ListenStep
    <2>1. UNCHANGED <<table, usbPc, usbId>>
      BY <1>11 DEF ListenStep, Listen, Visit, SnapshotSent, Deliver, ListenEnds
    <2>2. Entries("usb")' = Entries("usb") BY <1>1, <2>1, TableIds
    <2> SUFFICES ASSUME Listening', NEW i \in Entries("usb")
                 PROVE  Due(i)' \/ (usbPc = "attach" /\ usbId = i)
      BY <1>4, <2>1, <2>2 DEF UsbShown
    <2>3. table[i] # "none" /\ ~is_shadowed(i) BY DEF Entries, is_shadowed
    <2>4. CASE Listening /\ ~Due(i) BY <1>4, <2>4
    <2>5. CASE Listening => Due(i) BY <1>1, <1>3, <1>11, <2>3, <2>5, DueListen
    <2> QED BY <2>4, <2>5
  <1>12. CASE UNCHANGED vars
    <2>1. Entries("usb")' = Entries("usb") /\ UNCHANGED <<busVars, clientVars, usbPc, usbId>>
      BY <1>1, <1>12, TableIds DEF vars
    <2> QED BY <1>5, <2>1 DEF SaysNothing
  <1> QED BY <1>7, <1>8, <1>9, <1>10, <1>11, <1>12 DEF Next

\* An exposed network entry stays due, or somebody is about to announce it: the watcher
\* of the cable hides it only on the way to inserting a USB entry, and looks it up again
\* after it has removed one.
LEMMA NetShownStep ==
    TypeInv /\ UsbInv /\ Apart /\ NetKnown /\ ClientInv /\ NetShown /\ [Next]_vars => NetShown'
  <1> SUFFICES ASSUME TypeInv, UsbInv, Apart, NetKnown, ClientInv, NetShown, [Next]_vars
               PROVE  NetShown'
    OBVIOUS
  <1> USE DEF UsbPass, NetPass, AddPass, ListenPass, usbVars, netVars, addVars
  <1>1. TypeOK /\ HandIds BY DEF TypeInv
  <1> DEFINE Ok(i) == \/ Due(i)
                      \/ netPc \in {"shadow", "attach"} /\ netId = i
                      \/ usbPc = "find" \/ (usbPc = "expose" /\ usbNet = i)
                      \/ usbPc \in {"retain", "insert"}
  <1>2. setup' = setup BY SetupKept
  <1> SUFFICES ASSUME "manual" \notin setup.sources, Listening', Entries("usb")' = {},
                      NEW i \in Entries("net")'
               PROVE  Ok(i)'
    BY <1>2 DEF NetShown
  <1>3. /\ addPc = "idle"
        /\ netPc \in {"dedup", "detach"} => netId \notin Entries("net")
        /\ \A j, k \in Entries("net") : j = k
    BY DEF NetKnown
  <1>4. i \in Ids /\ (i \in Entries("net") => i \notin {plugged, usbId}) /\ i # NoId
    BY <1>1, KindsApart, SetupFacts DEF Entries
  <1>5. Listening /\ Entries("usb") = {} /\ i \in Entries("net") => Ok(i)
    BY DEF NetShown
  <1> HIDE DEF NetShown, NetKnown
  <1>6. ASSUME UNCHANGED clientVars, SaysNothing(i), i \in Entries("net"), Entries("usb") = {}
        PROVE  Ok(i) /\ (Due(i) => Due(i)')
    BY <1>1, <1>4, <1>5, <1>6, DueKept
  <1> HIDE DEF Ok
  <1>7. CASE World
    <2>1. /\ Entries("usb")' = Entries("usb") /\ Entries("net")' = Entries("net")
          /\ UNCHANGED <<busVars, clientVars, usbPc, usbNet>>
      BY <1>1, <1>7, TableIds DEF World, Plug, Unplug, NetResolved, NetWithdrawn, IoError, HeartbeatFails
    <2>2. UNCHANGED <<netPc, netId>> \/ netPc = "idle"
      BY <1>7 DEF World, Plug, Unplug, NetResolved, NetWithdrawn, IoError, HeartbeatFails
    <2>3. Ok(i) /\ (Due(i) => Due(i)') BY <1>6, <2>1 DEF SaysNothing
    <2> QED BY <2>1, <2>2, <2>3 DEF Ok
  <1>8. CASE UsbStep
    <2>1. UNCHANGED <<clientVars, netPc, netId>>
      BY <1>8 DEF UsbStep, UsbOpenFails, UsbConnected, UsbHide, UsbRetain, UsbInsert, UsbAttach,
           UsbDisconnected, UsbFindNetwork, UsbExpose, UsbDetach, UsbNotReopened, clientVars
    <2>2. CASE UsbOpenFails \/ UsbConnected \/ UsbNotReopened
      <3>1. /\ Entries("usb")' = Entries("usb") /\ Entries("net")' = Entries("net")
            /\ UNCHANGED busVars /\ usbPc \in {"idle", "reopen"}
        BY <1>1, <2>2, TableIds DEF UsbOpenFails, UsbConnected, UsbNotReopened
      <3>2. Ok(i) /\ (Due(i) => Due(i)') BY <1>6, <2>1, <3>1 DEF SaysNothing
      <3> QED BY <2>1, <3>1, <3>2 DEF Ok
    <2>3. CASE UsbHide \/ UsbRetain BY <2>3 DEF UsbHide, UsbRetain, Ok
    <2>4. CASE UsbInsert
      <3>1. usbId \in Ids /\ Insert(usbId, "usb") BY <1>1, <2>4 DEF UsbInsert, HandIds
      <3>2. Entries("usb")' # {} BY <1>1, <3>1, TableIds
      <3> QED BY <3>2
    <2>5. CASE UsbAttach \/ UsbDetach
      <3>1. /\ Entries("usb")' = Entries("usb") /\ Entries("net")' = Entries("net")
            /\ usbPc \in {"attach", "detach"} /\ usbId \in Ids
            /\ \E ev \in {"Attached", "Detached"} : Send(ev, usbId)
        BY <1>1, <2>5, TableIds DEF UsbAttach, UsbDetach, HandIds
      <3>2. SaysNothing(i) BY <1>4, <3>1 DEF SaysNothing
      <3>3. Ok(i) /\ (Due(i) => Due(i)') BY <1>6, <2>1, <3>1, <3>2
      <3> QED BY <2>1, <3>1, <3>3 DEF Ok
    <2>6. CASE UsbDisconnected
      <3>1. PICK j \in Ids : Remove(j) /\ (usbPc' = "find" \/ table[j] = "none")
        BY <2>6 DEF UsbDisconnected
      <3>2. CASE usbPc' = "find" BY <3>2 DEF Ok
      <3>3. CASE table[j] = "none"
        <4>1. Entries("usb")' = Entries("usb") /\ Entries("net")' = Entries("net")
          BY <1>1, <3>1, <3>3, TableIds DEF Entries
        <4>2. UNCHANGED busVars /\ usbPc = "idle" BY <2>6 DEF UsbDisconnected
        <4>3. Ok(i) /\ (Due(i) => Due(i)') BY <1>6, <2>1, <4>1, <4>2 DEF SaysNothing
        <4> QED BY <2>1, <4>2, <4>3 DEF Ok
      <3> QED BY <3>1, <3>2, <3>3
    <2>7. CASE UsbFindNetwork
      <3>1. Entries("net")' = Entries("net") BY <1>1, <2>7, TableIds DEF UsbFindNetwork
      <3>2. usbNet' \in Entries("net") /\ usbPc' = "expose"
        BY <2>7, <3>1 DEF UsbFindNetwork, FindNetwork
      <3>3. usbNet' = i BY <1>3, <3>1, <3>2
      <3> QED BY <3>2, <3>3 DEF Ok
    <2>8. CASE UsbExpose
      <3>1. /\ Entries("usb")' = Entries("usb") /\ Entries("net")' = Entries("net") /\ usbPc = "expose"
            /\ IF usbNet # NoId THEN Send("Attached", usbNet) ELSE UNCHANGED busVars
        BY <1>1, <2>8, TableIds DEF UsbExpose
      <3>2. usbNet \in Ids \cup {NoId} BY <1>1 DEF TypeOK
      <3>3. SaysNothing(i) BY <3>1, <3>2 DEF SaysNothing
      <3>4. Ok(i) /\ (Due(i) => Due(i)') BY <1>6, <2>1, <3>1, <3>3
      <3>5. usbNet = i => Due(i)' BY <1>1, <1>4, <2>1, <3>1, DueSend
      <3> QED BY <2>1, <3>1, <3>4, <3>5 DEF Ok
    <2> QED BY <1>8, <2>2, <2>3, <2>4, <2>5, <2>6, <2>7, <2>8 DEF UsbStep
  <1>9. CASE NetStep
    <2>1. UNCHANGED <<clientVars, usbPc, usbNet>>
      BY <1>9 DEF NetStep, NetConnected, NetInsert, NetShadow, NetAttach, NetCancelled, NetDisconnected,
           NetDedup, NetDetach, clientVars
    <2>2. CASE NetConnected
      <3>1. /\ netPc = "skip" /\ UNCHANGED busVars
            /\ Entries("usb")' = Entries("usb") /\ Entries("net")' = Entries("net")
        BY <1>1, <2>2, TableIds DEF NetConnected
      <3>2. Ok(i) /\ (Due(i) => Due(i)') BY <1>6, <2>1, <3>1 DEF SaysNothing
      <3> QED BY <2>1, <3>1, <3>2 DEF Ok
    <2>3. CASE NetShadow
      <3>1. Entries("usb")' = Entries("usb") /\ Entries("net")' = Entries("net") /\ UNCHANGED busVars
        BY <1>1, <2>3, TableIds DEF NetShadow
      <3>2. netPc = "shadow" /\ netPc' = "attach" /\ netId' = netId
        BY <2>3, <3>1 DEF NetShadow, has_usb_with_udid
      <3>3. Ok(i) /\ (Due(i) => Due(i)') BY <1>6, <2>1, <3>1 DEF SaysNothing
      <3> QED BY <2>1, <3>2, <3>3 DEF Ok
    <2>4. CASE NetAttach
      <3>1. /\ Entries("usb")' = Entries("usb") /\ Entries("net")' = Entries("net")
            /\ netPc = "attach" /\ netId \in Ids /\ Send("Attached", netId)
        BY <1>1, <2>4, TableIds DEF NetAttach, HandIds
      <3>2. SaysNothing(i) BY <3>1 DEF SaysNothing
      <3>3. Ok(i) /\ (Due(i) => Due(i)') BY <1>6, <2>1, <3>1, <3>2
      <3>4. netId = i => Due(i)' BY <1>1, <1>4, <2>1, <3>1, DueSend
      <3> QED BY <2>1, <3>1, <3>3, <3>4 DEF Ok
    <2>5. CASE NetCancelled \/ NetDedup
      <3>1. /\ Entries("usb")' = Entries("usb") /\ Entries("net")' = Entries("net") /\ UNCHANGED busVars
            /\ netPc \in {"idle", "dedup"}
        BY <1>1, <2>5, TableIds DEF NetCancelled, NetDedup
      <3>2. Ok(i) /\ (Due(i) => Due(i)') BY <1>6, <2>1, <3>1 DEF SaysNothing
      <3> QED BY <2>1, <3>1, <3>2 DEF Ok
    <2>6. CASE NetDisconnected
      <3>1. netId \in Ids /\ Remove(netId) /\ netPc = "remove" /\ UNCHANGED busVars
        BY <1>1, <2>6 DEF NetDisconnected, HandIds
      <3>2. /\ Entries("usb")' = Entries("usb") \ {netId} /\ Entries("net")' = Entries("net") \ {netId}
        BY <1>1, <3>1, TableIds
      <3>3. Entries("usb") = {} BY <1>1, <3>2, KindsApart
      <3>4. Ok(i) /\ (Due(i) => Due(i)') BY <1>6, <2>1, <3>1, <3>2, <3>3 DEF SaysNothing
      <3> QED BY <2>1, <3>1, <3>4 DEF Ok
    <2>7. CASE NetDetach
      <3>1. /\ Entries("usb")' = Entries("usb") /\ Entries("net")' = Entries("net")
            /\ netPc = "detach" /\ netId \in Ids /\ Send("Detached", netId)
        BY <1>1, <2>7, TableIds DEF NetDetach, HandIds
      <3>2. SaysNothing(i) BY <1>3, <3>1 DEF SaysNothing
      <3>3. Ok(i) /\ (Due(i) => Due(i)') BY <1>6, <2>1, <3>1, <3>2
      <3> QED BY <2>1, <3>1, <3>3 DEF Ok
    <2>8. CASE NetInsert
      <3>1. netId \in Ids /\ Insert(netId, "net") /\ netPc' = "shadow" /\ netId' = netId /\ netPc = "insert"
        BY <1>1, <2>8 DEF NetInsert, HandIds
      <3>2. Entries("net")' = Entries("net") \cup {netId} BY <1>1, <3>1, TableIds
      <3>3. i = netId BY <3>1, <3>2 DEF NetKnown
      <3> QED BY <3>1, <3>3 DEF Ok
    <2> QED BY <1>9, <2>2, <2>3, <2>4, <2>5, <2>6, <2>7, <2>8 DEF NetStep
  <1>10. CASE AddStep
    <2>1. FALSE
      BY <1>3, <1>10 DEF AddStep, AddDevice, AddDetach, AddRemove, AddInserts, AddRestores, AddShadow,
                         AddAttach
    <2> QED BY <2>1
  <1>11. CASE ListenStep
    <2>1. UNCHANGED <<table, usbPc, usbNet, netPc, netId>>
      BY <1>11 DEF ListenStep, Listen, Visit, SnapshotSent, Deliver, ListenEnds
    <2>2. Entries("usb")' = Entries("usb") /\ Entries("net")' = Entries("net") BY <1>1, <2>1, TableIds
    <2>3. table[i] # "none" /\ ~is_shadowed(i) BY <2>2 DEF Entries, is_shadowed, has_usb_with_udid
    <2>4. CASE Listening /\ ~Due(i) BY <1>5, <2>1, <2>2, <2>4 DEF Ok
    <2>5. CASE Listening => Due(i)
      <3>1. Due(i)' BY <1>1, <1>4, <1>11, <2>3, <2>5, DueListen
      <3> QED BY <3>1 DEF Ok
    <2> QED BY <2>4, <2>5
  <1>12. CASE UNCHANGED vars
    <2>1. /\ Entries("usb")' = Entries("usb") /\ Entries("net")' = Entries("net")
          /\ UNCHANGED <<busVars, clientVars, usbPc, usbNet, netPc, netId>>
      BY <1>1, <1>12, TableIds DEF vars
    <2>2. Ok(i) /\ (Due(i) => Due(i)') BY <1>6, <2>1 DEF SaysNothing
    <2> QED BY <2>1, <2>2 DEF Ok
  <1> QED BY <1>7, <1>8, <1>9, <1>10, <1>11, <1>12 DEF Next

\* At the start there is nothing to show.
LEMMA ShownInit == Init => ShownInv
  <1> SUFFICES ASSUME Init PROVE ShownInv OBVIOUS
  <1>1. TypeInv BY TypeInit
  <1>2. Entries("usb") = {} /\ Entries("net") = {} BY DEF Init, Entries
  <1>3. UsbInv BY <1>2 DEF Init, UsbInv, OneUsbEntry, Kinds
  <1>4. Apart
    <2>1. UsbIds = {NoId} /\ NetIds = {NoId}
      BY <1>2 DEF Init, UsbIds, NetIds
    <2> QED BY <2>1 DEF Apart, Init, NoId
  <1>5. NetKnown BY NetKnownInit
  <1>6. ClientInv BY DEF Init, ClientInv
  <1>7. UsbShown /\ NetShown BY <1>2 DEF Init, UsbShown, NetShown
  <1> QED BY <1>1, <1>3, <1>4, <1>5, <1>6, <1>7 DEF ShownInv

\* Every step keeps what has to be shown.
LEMMA ShownStep == ShownInv /\ [Next]_vars => ShownInv'
  <1> SUFFICES ASSUME ShownInv, [Next]_vars PROVE ShownInv' OBVIOUS
  <1> USE DEF ShownInv
  <1>1. UsbInv' BY UsbStepInv, NetAddInv, OtherInv DEF Next
  <1> QED BY <1>1, TypeStep, ApartStep, NetKnownStep, ClientStep, UsbShownStep, NetShownStep

\* When nothing is under way, what is due is in the listener's view.
LEMMA QuietDue ==
    ASSUME Quiet, ClientInv, NEW i, Due(i)
    PROVE  i \in view
  <1>1. queue = <<>> /\ unvisited = {} BY DEF Quiet, ClientInv
  <1>2. ~LastOf(queue, i, "Attached") BY <1>1 DEF LastOf
  <1> QED BY <1>1, <1>2 DEF Due

\* A phone on the cable is shown to every listener that has read its events, whatever
\* mDNS and the requests do meanwhile and whenever the listener subscribed.
THEOREM CableIsShown == Spec => []UsbIsShown
  <1>1. ShownInv => UsbIsShown
    <2> SUFFICES ASSUME ShownInv, Quiet, NEW i \in Entries("usb") PROVE i \in view BY DEF UsbIsShown
    <2>1. Listening /\ usbPc = "idle" BY DEF Quiet, Listening
    <2>2. Due(i) BY <2>1 DEF ShownInv, UsbShown
    <2> QED BY <2>2, QuietDue DEF ShownInv
  <1> QED BY <1>1, ShownInit, ShownStep, PTL DEF Spec

\* Nothing that is to be shown stays hidden once nothing is on its way.
LEMMA ShownExposes == ShownInv => ExposedIsShown
  <1> SUFFICES ASSUME ShownInv, Quiet, "manual" \notin setup.sources, NEW i \in Exposed
               PROVE  i \in view
    BY DEF ExposedIsShown
  <1>1. Listening /\ usbPc = "idle" /\ netPc = "idle" BY DEF Quiet, Listening
  <1>2. table[i] \in {"usb", "net"} /\ i \in Ids BY DEF Exposed, ShownInv, TypeInv, TypeOK
  <1>3. CASE table[i] = "usb"
    <2>1. i \in Entries("usb") BY <1>2, <1>3 DEF Entries
    <2>2. Due(i) BY <1>1, <2>1 DEF ShownInv, UsbShown
    <2> QED BY <2>2, QuietDue DEF ShownInv
  <1>4. CASE table[i] = "net"
    <2>1. i \in Entries("net") /\ Entries("usb") = {}
      BY <1>2, <1>4 DEF Entries, Exposed, is_shadowed, has_usb_with_udid
    <2>2. Due(i) BY <1>1, <2>1 DEF ShownInv, NetShown
    <2> QED BY <2>2, QuietDue DEF ShownInv
  <1> QED BY <1>2, <1>3, <1>4

\* With cable and mDNS racing, every device that is to be shown is shown: hiding the
\* network entry for the cable never outlives the cable.
THEOREM ExposedAreShown == Spec => []ExposedIsShown
  BY ShownExposes, ShownInit, ShownStep, PTL DEF Spec
------------------------------------------------------------------------------
(* Events of the cable, when none is repeated.                               *)

Disc(c) == [ev |-> "Disconnected", id |-> c]

\* The events in q alternate, the last one says what is plugged, and a device that
\* connects has an id that no event before it has.
Alternates(q, p) ==
    /\ \A k \in 1..Len(q) : q[k].ev = "Connected" =>
          /\ \A m \in 1..(k - 1) : q[m].id # q[k].id
          /\ k = Len(q) => p = q[k].id
          /\ k # Len(q) => q[k + 1] = Disc(q[k].id)
    /\ \A k \in 1..Len(q) : q[k].ev = "Disconnected" =>
          /\ k = Len(q) => p = NoId
          /\ k # Len(q) => q[k + 1].ev = "Connected"

\* Ids of devices that connect in q.
Coming(q) == {i \in Ids : \E k \in 1..Len(q) : q[k].ev = "Connected" /\ q[k].id = i}

\* The device whose event comes before those in q: it is plugged, or the next to leave.
Current(q, p, c) == (q = <<>> /\ p = c) \/ (q # <<>> /\ q[1] = Disc(c))

\* A cable is plugged.
LEMMA PlugAlternates ==
    ASSUME NEW q \in Seq(HotplugEvents), Alternates(q, NoId), NEW n \in Ids, n \notin HotIds(q),
           NEW e \in HotplugEvents, e.ev = "Connected", e.id = n, NoId \notin Ids
    PROVE  /\ Alternates(Append(q, e), n) /\ Coming(Append(q, e)) \subseteq Coming(q) \cup {n}
           /\ \A c \in Ids : Current(q, NoId, c) => Current(Append(q, e), n, c)
  <1> DEFINE r == Append(q, e)
  <1>1. /\ Len(r) = Len(q) + 1 /\ Len(q) \in Nat /\ r[Len(q) + 1] = e
        /\ \A k \in 1..Len(q) : r[k] = q[k] /\ q[k] \in HotplugEvents
    OBVIOUS
  <1>2. \A k \in 1..Len(q) : q[k].id # n BY DEF HotIds
  <1>3. r # <<>> /\ (q # <<>> => 1 \in 1..Len(q)) BY <1>1
  <1> HIDE DEF r
  <1>4. ASSUME NEW k \in 1..Len(r), r[k].ev = "Connected"
        PROVE  /\ \A m \in 1..(k - 1) : r[m].id # r[k].id
               /\ k = Len(r) => n = r[k].id
               /\ k # Len(r) => r[k + 1] = Disc(r[k].id)
    <2>1. CASE k = Len(q) + 1
      <3>1. \A m \in 1..(k - 1) : m \in 1..Len(q) BY <1>1, <2>1
      <3> QED BY <1>1, <1>2, <2>1, <3>1
    <2>2. CASE k \in 1..Len(q)
      <3>1. q[k].ev = "Connected" /\ k # Len(r) BY <1>1, <1>4, <2>2
      <3>2. /\ \A m \in 1..(k - 1) : q[m].id # q[k].id
            /\ k = Len(q) => NoId = q[k].id
            /\ k # Len(q) => q[k + 1] = Disc(q[k].id)
        BY <2>2, <3>1 DEF Alternates
      <3>3. q[k].id \in Ids BY <1>1, <2>2 DEF HotplugEvents
      <3>4. k # Len(q) /\ k + 1 \in 1..Len(q) BY <1>1, <2>2, <3>2, <3>3
      <3>5. \A m \in 1..(k - 1) : m \in 1..Len(q) BY <1>1, <2>2
      <3> QED BY <1>1, <2>2, <3>1, <3>2, <3>4, <3>5
    <2> QED BY <1>1, <2>1, <2>2
  <1>5. ASSUME NEW k \in 1..Len(r), r[k].ev = "Disconnected"
        PROVE  /\ k = Len(r) => n = NoId
               /\ k # Len(r) => r[k + 1].ev = "Connected"
    <2>1. k \in 1..Len(q) BY <1>1, <1>5
    <2>2. q[k].ev = "Disconnected" /\ k # Len(r) BY <1>1, <1>5, <2>1
    <2>3. CASE k = Len(q) BY <1>1, <2>2, <2>3
    <2>4. CASE k # Len(q)
      <3>1. k + 1 \in 1..Len(q) /\ q[k + 1].ev = "Connected" BY <1>1, <2>1, <2>2, <2>4 DEF Alternates
      <3> QED BY <1>1, <2>2, <3>1
    <2> QED BY <2>3, <2>4
  <1>6. Alternates(r, n) BY <1>4, <1>5 DEF Alternates
  <1>7. Coming(r) \subseteq Coming(q) \cup {n}
    <2> SUFFICES ASSUME NEW i \in Ids, NEW k \in 1..Len(r), r[k].ev = "Connected", r[k].id = i
                 PROVE  i \in Coming(q) \cup {n}
      BY DEF Coming
    <2>1. CASE k = Len(q) + 1 BY <1>1, <2>1
    <2>2. CASE k \in 1..Len(q) BY <1>1, <2>2 DEF Coming
    <2> QED BY <1>1, <2>1, <2>2
  <1>8. ASSUME NEW c \in Ids, Current(q, NoId, c) PROVE Current(r, n, c)
    <2>1. q # <<>> /\ q[1] = Disc(c) BY <1>8 DEF Current
    <2> QED BY <1>1, <1>3, <2>1 DEF Current
  <1> QED BY <1>6, <1>7, <1>8 DEF r

\* It is pulled.
LEMMA UnplugAlternates ==
    ASSUME NEW q \in Seq(HotplugEvents), NEW p \in Ids, Alternates(q, p), NoId \notin Ids
    PROVE  /\ Alternates(Append(q, Disc(p)), NoId) /\ Coming(Append(q, Disc(p))) \subseteq Coming(q)
           /\ \A c \in Ids : Current(q, p, c) => Current(Append(q, Disc(p)), NoId, c)
  <1> DEFINE e == Disc(p)
  <1> DEFINE r == Append(q, e)
  <1>1. e \in HotplugEvents /\ e.ev = "Disconnected" /\ e.id = p BY DEF Disc, HotplugEvents
  <1> HIDE DEF e
  <1>2. /\ Len(r) = Len(q) + 1 /\ Len(q) \in Nat /\ r[Len(q) + 1] = e
        /\ \A k \in 1..Len(q) : r[k] = q[k] /\ q[k] \in HotplugEvents
    BY <1>1
  <1>3. r # <<>> /\ (q # <<>> => 1 \in 1..Len(q))
    <2>1. r # <<>>
      <3>1. Len(r) # 0 BY <1>2
      <3>2. Len(<<>>) = 0 OBVIOUS
      <3> QED BY <3>1, <3>2, Zenon
    <2>2. q # <<>> => 1 \in 1..Len(q) OBVIOUS
    <2> QED BY <2>1, <2>2
  <1> HIDE DEF r
  <1>4. ASSUME NEW k \in 1..Len(r), r[k].ev = "Connected"
        PROVE  /\ \A m \in 1..(k - 1) : r[m].id # r[k].id
               /\ k = Len(r) => NoId = r[k].id
               /\ k # Len(r) => r[k + 1] = Disc(r[k].id)
    <2>1. k \in 1..Len(q) BY <1>1, <1>2, <1>4
    <2>2. q[k].ev = "Connected" /\ k # Len(r) /\ r[k] = q[k] BY <1>2, <1>4, <2>1
    <2>3. /\ \A m \in 1..(k - 1) : q[m].id # q[k].id
          /\ k = Len(q) => p = q[k].id
          /\ k # Len(q) => q[k + 1] = Disc(q[k].id)
      BY <2>1, <2>2 DEF Alternates
    <2>4. \A m \in 1..(k - 1) : m \in 1..Len(q) BY <1>2, <2>1
    <2>5. CASE k = Len(q)
      <3>1. r[k + 1] = Disc(r[k].id) BY <1>2, <2>2, <2>3, <2>5 DEF e
      <3> QED BY <1>2, <2>2, <2>3, <2>4, <3>1
    <2>6. CASE k # Len(q)
      <3>1. k + 1 \in 1..Len(q) BY <1>2, <2>1, <2>6
      <3> QED BY <1>2, <2>2, <2>3, <2>4, <2>6, <3>1
    <2> QED BY <2>5, <2>6
  <1>5. ASSUME NEW k \in 1..Len(r), r[k].ev = "Disconnected"
        PROVE  /\ k = Len(r) => NoId = NoId
               /\ k # Len(r) => r[k + 1].ev = "Connected"
    <2> SUFFICES ASSUME k # Len(r) PROVE r[k + 1].ev = "Connected" OBVIOUS
    <2>1. k \in 1..Len(q) BY <1>2
    <2>2. q[k].ev = "Disconnected" BY <1>2, <1>5, <2>1
    <2>3. k # Len(q) /\ q[k + 1].ev = "Connected" BY <2>1, <2>2 DEF Alternates
    <2>4. k + 1 \in 1..Len(q) BY <1>2, <2>1, <2>3
    <2> QED BY <1>2, <2>3, <2>4
  <1>6. Alternates(r, NoId) BY <1>4, <1>5 DEF Alternates
  <1>7. Coming(r) \subseteq Coming(q)
    <2> SUFFICES ASSUME NEW i \in Ids, NEW k \in 1..Len(r), r[k].ev = "Connected", r[k].id = i
                 PROVE  i \in Coming(q)
      BY DEF Coming
    <2>1. k \in 1..Len(q) BY <1>1, <1>2
    <2> QED BY <1>2, <2>1 DEF Coming
  <1>8. ASSUME NEW c \in Ids, Current(q, p, c) PROVE Current(r, NoId, c)
    <2>1. CASE q = <<>> /\ p = c
      <3>1. Len(q) = 0 BY <2>1
      <3> QED BY <1>2, <1>3, <2>1, <3>1 DEF Current, e
    <2>2. CASE q # <<>> /\ q[1] = Disc(c) BY <1>2, <1>3, <2>2 DEF Current
    <2> QED BY <1>8, <2>1, <2>2 DEF Current
  <1> QED BY <1>6, <1>7, <1>8 DEF r, e

\* The watcher takes an event.
LEMMA TailAlternates ==
    ASSUME NEW q \in Seq(HotplugEvents), q # <<>>, NEW p \in Ids \cup {NoId}, Alternates(q, p)
    PROVE  /\ Alternates(Tail(q), p) /\ Coming(Tail(q)) \subseteq Coming(q)
           /\ Head(q).id \in Ids /\ Head(q).id \notin Coming(Tail(q)) /\ Head(q) = q[1]
           /\ Head(q).ev = "Connected" => /\ Head(q).id \in Coming(q)
                                          /\ Current(Tail(q), p, Head(q).id)
  <1> DEFINE r == Tail(q)
  <1>1. /\ Len(r) = Len(q) - 1 /\ Len(q) \in Nat \ {0} /\ Head(q) = q[1] /\ r \in Seq(HotplugEvents)
        /\ \A k \in 1..Len(r) : r[k] = q[k + 1]
        /\ \A k \in 1..Len(q) : q[k] \in HotplugEvents
    OBVIOUS
  <1> HIDE DEF r
  <1>2. \A k \in 1..Len(r) : k + 1 \in 1..Len(q) /\ (k = Len(r) <=> k + 1 = Len(q)) /\ 1 \in 1..((k + 1) - 1)
    BY <1>1
  <1>3. 1 \in 1..Len(q) /\ q[1].id \in Ids BY <1>1 DEF HotplugEvents
  <1>4. ASSUME NEW k \in 1..Len(r), r[k].ev = "Connected"
        PROVE  /\ \A m \in 1..(k - 1) : r[m].id # r[k].id
               /\ k = Len(r) => p = r[k].id
               /\ k # Len(r) => r[k + 1] = Disc(r[k].id)
               /\ q[1].id # r[k].id
    <2>1. q[k + 1].ev = "Connected" /\ k + 1 \in 1..Len(q) /\ r[k] = q[k + 1] BY <1>1, <1>2, <1>4
    <2>2. /\ \A m \in 1..((k + 1) - 1) : q[m].id # q[k + 1].id
          /\ k + 1 = Len(q) => p = q[k + 1].id
          /\ k + 1 # Len(q) => q[(k + 1) + 1] = Disc(q[k + 1].id)
      BY <2>1 DEF Alternates
    <2>3. \A m \in 1..(k - 1) : m \in 1..Len(r) /\ m + 1 \in 1..((k + 1) - 1) BY <1>1
    <2>4. k # Len(r) => k + 1 \in 1..Len(r) BY <1>1
    <2>5. \A m \in 1..(k - 1) : r[m].id # r[k].id BY <1>1, <2>1, <2>2, <2>3
    <2>6. k # Len(r) => r[k + 1] = Disc(r[k].id) BY <1>1, <1>2, <2>1, <2>2, <2>4
    <2> QED BY <1>2, <2>1, <2>2, <2>5, <2>6
  <1>5. ASSUME NEW k \in 1..Len(r), r[k].ev = "Disconnected"
        PROVE  /\ k = Len(r) => p = NoId
               /\ k # Len(r) => r[k + 1].ev = "Connected"
    <2>1. q[k + 1].ev = "Disconnected" /\ k + 1 \in 1..Len(q) BY <1>1, <1>2, <1>5
    <2>2. /\ k + 1 = Len(q) => p = NoId
          /\ k + 1 # Len(q) => q[(k + 1) + 1].ev = "Connected"
      BY <2>1 DEF Alternates
    <2>3. k # Len(r) => k + 1 \in 1..Len(r) BY <1>1
    <2> QED BY <1>1, <1>2, <2>2, <2>3
  <1>6. Alternates(r, p) BY <1>4, <1>5 DEF Alternates
  <1>7. Coming(r) \subseteq Coming(q) BY <1>1, <1>2 DEF Coming
  <1>8. q[1].id \notin Coming(r) BY <1>4 DEF Coming
  <1>9. ASSUME q[1].ev = "Connected" PROVE q[1].id \in Coming(q) /\ Current(r, p, q[1].id)
    <2>1. q[1].id \in Coming(q) BY <1>3, <1>9 DEF Coming
    <2>2. (1 = Len(q) => p = q[1].id) /\ (1 # Len(q) => q[1 + 1] = Disc(q[1].id))
      BY <1>3, <1>9 DEF Alternates
    <2>3. CASE 1 = Len(q)
      <3>1. r = <<>> BY <1>1, <2>3
      <3> QED BY <2>1, <2>2, <2>3, <3>1 DEF Current
    <2>4. CASE 1 # Len(q)
      <3>1. 1 \in 1..Len(r) /\ r # <<>> BY <1>1, <2>4
      <3>2. r[1] = Disc(q[1].id) BY <1>1, <2>2, <2>4, <3>1
      <3> QED BY <2>1, <3>1, <3>2 DEF Current
    <2> QED BY <2>3, <2>4
  <1> QED BY <1>1, <1>3, <1>6, <1>7, <1>8, <1>9 DEF r

\* What is plugged is the last device that connects, unless there are no events.
LEMMA PluggedComes ==
    ASSUME NEW q \in Seq(HotplugEvents), NEW p \in Ids, Alternates(q, p), NoId \notin Ids
    PROVE  q = <<>> \/ p \in Coming(q)
  <1> SUFFICES ASSUME q # <<>> PROVE p \in Coming(q) OBVIOUS
  <1>1. Len(q) \in 1..Len(q) /\ q[Len(q)] \in HotplugEvents OBVIOUS
  <1>2. q[Len(q)].ev \in {"Connected", "Disconnected"} BY <1>1 DEF HotplugEvents
  <1>3. q[Len(q)].ev = "Connected" /\ q[Len(q)].id = p BY <1>1, <1>2 DEF Alternates
  <1> QED BY <1>1, <1>3 DEF Coming
------------------------------------------------------------------------------
(* With one source nothing that has left stays shown.                        *)

\* Without cables there is no event of one; with nothing but cables there is no network
\* device.
SourceInv ==
    /\ "usb" \notin setup.sources =>
          usbPc = "idle" /\ plugged = NoId /\ hotplug = <<>> /\ ioErrors = {} /\ Entries("usb") = {}
    /\ setup.sources = {"usb"} =>
          netPc = "idle" /\ id_map = NoId /\ usbNet = NoId /\ addPc = "idle" /\ Entries("net") = {}

\* If no connect event is repeated, an entry is the current device, retain finds nothing
\* to drop, and a device that is opened again is not in the table.
CableInv ==
    ~setup.doubles =>
        /\ Alternates(hotplug, plugged)
        /\ Coming(hotplug) \cap (ioErrors \cup Entries("usb") \cup {usbId}) = {}
        /\ \A c \in Entries("usb") : Current(hotplug, plugged, c)
        /\ usbPc \in {"hide", "retain", "insert"} => /\ Current(hotplug, plugged, usbId)
                                                     /\ Entries("usb") = {}
        /\ usbPc = "reopen" => usbId \notin Entries("usb")

\* A watcher has removed i and not yet said so.
Leaving(i) ==
    \/ usbPc \in {"find", "expose", "detach"} /\ usbId = i
    \/ netPc \in {"dedup", "detach"} /\ netId = i

\* The listener will not know i once it has read what is in the channel.
Gone(i) == LastOf(queue, i, "Detached") \/ (Silent(queue, i) /\ i \notin view)

\* What a watcher is about to announce is in the table, and a device that is not there
\* any more is about to be withdrawn, or was.
GoneInv ==
    OneSource =>
        /\ lpc = "off" => view = {}
        /\ usbPc = "attach" => usbId \in Entries("usb")
        /\ netPc \in {"shadow", "attach"} => netId \in Entries("net")
        /\ Listening => \A i \in Ids : table[i] = "none" => Gone(i) \/ Leaving(i)

\* Steps of others add no entry of a kind.
LEMMA UsbEntriesKept ==
    ASSUME TypeInv, World \/ NetStep \/ AddStep \/ ListenStep \/ UNCHANGED vars
    PROVE  Entries("usb")' \subseteq Entries("usb")
  <1> USE DEF UsbPass, NetPass, AddPass, ListenPass
  <1>1. TypeOK /\ HandIds BY DEF TypeInv
  <1>2. nextId <= setup.ids => nextId \in Ids BY <1>1, SetupFacts
  <1>3. addOld # NoId => addOld \in Ids BY <1>1 DEF TypeOK
  <1>4. table' = table \/ \E i \in Ids : Remove(i) \/ Insert(i, "net")
    <2>1. CASE World
      BY <2>1 DEF World, Plug, Unplug, NetResolved, NetWithdrawn, IoError, HeartbeatFails
    <2>2. CASE NetStep
      BY <1>1, <2>2 DEF HandIds, NetStep, NetConnected, NetInsert, NetShadow, NetAttach, NetCancelled,
                        NetDisconnected, NetDedup, NetDetach
    <2>3. CASE AddStep
      BY <1>1, <1>2, <1>3, <2>3 DEF HandIds, AddStep, AddDevice, AddDetach, AddRemove, AddInserts,
                                    AddRestores, AddShadow, AddAttach
    <2>4. CASE ListenStep \/ UNCHANGED vars
      BY <2>4 DEF ListenStep, Listen, Visit, SnapshotSent, Deliver, ListenEnds, vars
    <2> QED BY <2>1, <2>2, <2>3, <2>4
  <1> QED BY <1>1, <1>4, TableIds

\* The same for the watcher of the cable and network entries.
LEMMA NetEntriesKept ==
    ASSUME TypeInv, World \/ UsbStep \/ ListenStep \/ UNCHANGED vars
    PROVE  Entries("net")' \subseteq Entries("net")
  <1> USE DEF UsbPass, NetPass, ListenPass
  <1>1. TypeOK /\ HandIds BY DEF TypeInv
  <1>2. table' = table \/ UsbRetain \/ \E i \in Ids : Remove(i) \/ Insert(i, "usb")
    <2>1. CASE World
      BY <2>1 DEF World, Plug, Unplug, NetResolved, NetWithdrawn, IoError, HeartbeatFails
    <2>2. CASE UsbStep
      BY <1>1, <2>2 DEF HandIds, UsbStep, UsbOpenFails, UsbConnected, UsbHide, UsbInsert, UsbAttach,
                        UsbDisconnected, UsbFindNetwork, UsbExpose, UsbDetach, UsbNotReopened
    <2>3. CASE ListenStep \/ UNCHANGED vars
      BY <2>3 DEF ListenStep, Listen, Visit, SnapshotSent, Deliver, ListenEnds, vars
    <2> QED BY <2>1, <2>2, <2>3
  <1> QED BY <1>1, <1>2, TableIds

\* A source that is missing stays away.
LEMMA SourceStep == TypeInv /\ SourceInv /\ [Next]_vars => SourceInv'
  <1> SUFFICES ASSUME TypeInv, SourceInv, [Next]_vars PROVE SourceInv' OBVIOUS
  <1> USE DEF UsbPass, NetPass, AddPass, ListenPass, usbVars, netVars, addVars
  <1>1. setup' = setup BY SetupKept
  <1>2. ASSUME "usb" \notin setup.sources
        PROVE  /\ usbPc' = "idle" /\ plugged' = NoId /\ hotplug' = <<>> /\ ioErrors' = {}
               /\ Entries("usb")' = {}
    <2>1. usbPc = "idle" /\ plugged = NoId /\ hotplug = <<>> /\ ioErrors = {} /\ Entries("usb") = {}
      BY <1>2 DEF SourceInv
    <2>2. ~UsbStep
      BY <2>1 DEF UsbStep, UsbOpenFails, UsbConnected, UsbHide, UsbRetain, UsbInsert, UsbAttach,
                  UsbDisconnected, UsbFindNetwork, UsbExpose, UsbDetach, UsbNotReopened
    <2>3. UNCHANGED <<usbPc, plugged, hotplug, ioErrors>>
      <3>1. CASE World
        <4>1. \A i \in Ids : ~IoError(i) BY <2>1 DEF IoError, Entries
        <4> QED BY <1>2, <2>1, <3>1, <4>1
            DEF World, Plug, Unplug, NetResolved, NetWithdrawn, HeartbeatFails
      <3>2. CASE NetStep
        BY <3>2 DEF NetStep, NetConnected, NetInsert, NetShadow, NetAttach, NetCancelled, NetDisconnected,
                    NetDedup, NetDetach
      <3>3. CASE AddStep
        BY <3>3 DEF AddStep, AddDevice, AddDetach, AddRemove, AddInserts, AddRestores, AddShadow,
                    AddAttach
      <3>4. CASE ListenStep \/ UNCHANGED vars
        BY <3>4 DEF ListenStep, Listen, Visit, SnapshotSent, Deliver, ListenEnds, vars
      <3> QED BY <2>2, <3>1, <3>2, <3>3, <3>4 DEF Next
    <2>4. Entries("usb")' = {} BY <2>1, <2>2, UsbEntriesKept DEF Next
    <2> QED BY <2>1, <2>3, <2>4
  <1>3. ASSUME setup.sources = {"usb"}
        PROVE  /\ netPc' = "idle" /\ id_map' = NoId /\ usbNet' = NoId /\ addPc' = "idle"
               /\ Entries("net")' = {}
    <2>1. netPc = "idle" /\ id_map = NoId /\ usbNet = NoId /\ addPc = "idle" /\ Entries("net") = {}
      BY <1>3 DEF SourceInv
    <2>2. ~AddStep
      BY <1>3, <2>1 DEF AddStep, AddDevice, AddDetach, AddRemove, AddInserts, AddRestores, AddShadow,
                        AddAttach
    <2>3. UNCHANGED <<netPc, id_map, usbNet, addPc>> /\ (NetStep => table' = table)
      <3>1. CASE World
        BY <1>3, <2>1, <3>1
        DEF World, Plug, Unplug, NetResolved, NetWithdrawn, HeartbeatFails, IoError,
            NetStep, NetConnected, NetInsert, NetShadow, NetAttach, NetCancelled, NetDisconnected, NetDedup, NetDetach
      <3>2. CASE UsbStep
        <4>1. ~NetStep \/ table' = table
          BY <2>1 DEF NetStep, NetConnected, NetInsert, NetShadow, NetAttach, NetCancelled, NetDisconnected,
                      NetDedup, NetDetach
        <4>2. UNCHANGED <<netPc, id_map, usbNet, addPc>>
          BY <2>1, <3>2
          DEF UsbStep, UsbOpenFails, UsbConnected, UsbHide, UsbRetain, UsbInsert, UsbAttach,
              UsbDisconnected, UsbFindNetwork, UsbExpose, UsbDetach, UsbNotReopened, UsbIdle,
              UsbHandled, FindNetwork
        <4> QED BY <4>1, <4>2
      <3>3. CASE NetStep
        BY <2>1, <3>3 DEF NetStep, NetConnected, NetInsert, NetShadow, NetAttach, NetCancelled, NetDisconnected,
                          NetDedup, NetDetach
      <3>4. CASE ListenStep \/ UNCHANGED vars
        BY <3>4 DEF ListenStep, Listen, Visit, SnapshotSent, Deliver, ListenEnds, vars
      <3> QED BY <2>2, <3>1, <3>2, <3>3, <3>4 DEF Next
    <2>4. Entries("net")' = {}
      <3>1. CASE NetStep BY <2>1, <2>3, <3>1 DEF Entries
      <3>2. CASE ~NetStep BY <2>1, <2>2, <3>2, NetEntriesKept DEF Next
      <3> QED BY <3>1, <3>2
    <2> QED BY <2>1, <2>3, <2>4
  <1> QED BY <1>1, <1>2, <1>3 DEF SourceInv
\* The events of the cable and its entry stay in step.
LEMMA CableStep == TypeInv /\ Apart /\ UsbShown /\ CableInv /\ [Next]_vars => CableInv'
  <1> SUFFICES ASSUME TypeInv, Apart, UsbShown, CableInv, [Next]_vars, ~setup.doubles
               PROVE  /\ Alternates(hotplug', plugged')
                      /\ Coming(hotplug') \cap (ioErrors' \cup Entries("usb")' \cup {usbId'}) = {}
                      /\ \A c \in Entries("usb")' : Current(hotplug', plugged', c)
                      /\ usbPc' \in {"hide", "retain", "insert"} =>
                            Current(hotplug', plugged', usbId') /\ Entries("usb")' = {}
                      /\ usbPc' = "reopen" => usbId' \notin Entries("usb")'
    BY SetupKept DEF CableInv, Alternates, Coming, Current
  <1> USE DEF UsbPass, NetPass, AddPass, ListenPass, usbVars
  <1>1. /\ TypeOK /\ HandIds /\ hotplug \in Seq(HotplugEvents) /\ NoId \notin Ids
        /\ plugged \in Ids \cup {NoId} /\ usbId \in Ids \cup {NoId}
        /\ \A c \in Entries("usb") : c \in Ids
    BY SetupFacts DEF TypeInv, TypeOK, HotplugEvents, Entries
  <1>2. /\ Alternates(hotplug, plugged)
        /\ Coming(hotplug) \cap (ioErrors \cup Entries("usb") \cup {usbId}) = {}
        /\ \A c \in Entries("usb") : Current(hotplug, plugged, c)
        /\ usbPc \in {"hide", "retain", "insert"} => /\ Current(hotplug, plugged, usbId)
                                                     /\ Entries("usb") = {}
        /\ usbPc = "reopen" => usbId \notin Entries("usb")
        /\ NoId \notin Coming(hotplug)
    BY <1>1 DEF CableInv, Coming
  <1>3. usbPc \in {"find", "expose", "detach"} => usbId \notin Entries("usb") BY DEF UsbShown
  <1>4. hotplug # <<>> =>
          /\ Alternates(Tail(hotplug), plugged) /\ Coming(Tail(hotplug)) \subseteq Coming(hotplug)
          /\ Head(hotplug).id \in Ids /\ Head(hotplug).id \notin Coming(Tail(hotplug))
          /\ Head(hotplug) = hotplug[1]
          /\ Head(hotplug).ev = "Connected" => /\ Head(hotplug).id \in Coming(hotplug)
                                               /\ Current(Tail(hotplug), plugged, Head(hotplug).id)
    BY <1>1, <1>2, TailAlternates
  <1>5. hotplug # <<>> => \A c \in Entries("usb") : Head(hotplug) = Disc(c)
    BY <1>2, <1>4 DEF Current
  <1>6. \A c : Disc(c).ev = "Disconnected" /\ Disc(c).id = c BY DEF Disc
  <1> HIDE DEF UsbShown, CableInv
  <1>7. CASE Plug
    <2> DEFINE e == [ev |-> "Connected", id |-> nextId]
    <2>1. /\ nextId \in Ids /\ plugged = NoId /\ plugged' = nextId /\ hotplug' = Append(hotplug, e)
          /\ UNCHANGED <<usbPc, usbId, ioErrors, table>>
      BY <1>1, <1>7, SetupFacts DEF Plug
    <2>2. e \in HotplugEvents /\ e.ev = "Connected" /\ e.id = nextId BY <2>1 DEF HotplugEvents
    <2> HIDE DEF e
    <2>3. nextId \notin UsbIds BY <2>1 DEF Apart, Ids
    <2>4. nextId \notin HotIds(hotplug) \cup ioErrors \cup Entries("usb") \cup {usbId}
      BY <2>3 DEF UsbIds, HotIds
    <2>5. /\ Alternates(hotplug', nextId) /\ Coming(hotplug') \subseteq Coming(hotplug) \cup {nextId}
          /\ \A c \in Ids : Current(hotplug, NoId, c) => Current(hotplug', nextId, c)
      BY <1>1, <1>2, <2>1, <2>2, <2>4, PlugAlternates
    <2>6. Entries("usb")' = Entries("usb") BY <1>1, <2>1, TableIds
    <2>7. usbPc \in {"hide", "retain", "insert"} => usbId \in Ids BY <1>1 DEF HandIds
    <2>8. /\ Coming(hotplug') \cap (ioErrors' \cup Entries("usb")' \cup {usbId'}) = {}
      BY <1>2, <2>1, <2>4, <2>5, <2>6
    <2> QED BY <1>1, <1>2, <2>1, <2>5, <2>6, <2>7, <2>8
  <1>8. CASE Unplug
    <2>1. /\ plugged \in Ids /\ plugged' = NoId /\ hotplug' = Append(hotplug, Disc(plugged))
          /\ UNCHANGED <<usbPc, usbId, ioErrors, table>>
      BY <1>1, <1>8 DEF Unplug, Disc
    <2>2. /\ Alternates(hotplug', NoId) /\ Coming(hotplug') \subseteq Coming(hotplug)
          /\ \A c \in Ids : Current(hotplug, plugged, c) => Current(hotplug', NoId, c)
      BY <1>1, <1>2, <2>1, UnplugAlternates
    <2>3. Entries("usb")' = Entries("usb") BY <1>1, <2>1, TableIds
    <2>4. usbPc \in {"hide", "retain", "insert"} => usbId \in Ids BY <1>1 DEF HandIds
    <2> QED BY <1>1, <1>2, <2>1, <2>2, <2>3, <2>4
  <1>9. CASE \E i \in Ids : IoError(i)
    <2>1. PICK i \in Ids : IoError(i) BY <1>9
    <2>2. /\ i \in Entries("usb") /\ ioErrors' = ioErrors \cup {i}
          /\ UNCHANGED <<hotplug, plugged, usbPc, usbId, table>>
      BY <2>1 DEF IoError, Entries
    <2>3. Entries("usb")' = Entries("usb") BY <1>1, <2>2, TableIds
    <2> QED BY <1>2, <2>2, <2>3
  <1>10. CASE UsbStep
    <2>1. CASE UsbOpenFails
      <3>1. /\ usbPc = "idle" /\ hotplug # <<>> /\ Head(hotplug).ev = "Connected"
            /\ hotplug' = Tail(hotplug) /\ UNCHANGED <<plugged, usbPc, usbId, ioErrors, table>>
        BY <2>1 DEF UsbOpenFails
      <3>2. Entries("usb") = {} BY <1>5, <1>6, <3>1
      <3>3. Entries("usb")' = {} BY <1>1, <3>1, <3>2, TableIds
      <3> QED BY <1>2, <1>4, <3>1, <3>3
    <2>2. CASE UsbConnected
      <3>1. usbPc' = "hide" /\ UNCHANGED <<plugged, ioErrors, table>> BY <2>2 DEF UsbConnected
      <3>2. Entries("usb")' = Entries("usb") BY <1>1, <3>1, TableIds
      <3>3. CASE /\ usbPc = "idle" /\ hotplug # <<>> /\ Head(hotplug).ev = "Connected"
                 /\ usbId' = Head(hotplug).id /\ hotplug' = Tail(hotplug)
        <4>1. Entries("usb") = {} BY <1>5, <1>6, <3>3
        <4> QED BY <1>2, <1>4, <3>1, <3>2, <3>3, <4>1
      <3>4. CASE usbPc = "reopen" /\ plugged = usbId /\ UNCHANGED <<usbId, hotplug>>
        <4>1. usbId \in Ids BY <1>1, <3>4 DEF HandIds
        <4>2. hotplug = <<>> BY <1>1, <1>2, <3>4, <4>1, PluggedComes
        <4>3. Entries("usb") = {} BY <1>2, <3>4, <4>2 DEF Current
        <4>4. Current(hotplug, plugged, usbId) BY <3>4, <4>2 DEF Current
        <4> QED BY <1>2, <3>1, <3>2, <3>4, <4>3, <4>4
      <3> QED BY <2>2, <3>3, <3>4 DEF UsbConnected
    <2>3. CASE UsbHide \/ UsbFindNetwork \/ UsbExpose
      <3>1. /\ UNCHANGED <<hotplug, plugged, usbId, ioErrors, table>>
            /\ usbPc' # "reopen"
            /\ usbPc' \in {"hide", "retain", "insert"} => usbPc \in {"hide", "retain", "insert"}
        BY <2>3 DEF UsbHide, UsbFindNetwork, UsbExpose
      <3>2. Entries("usb")' = Entries("usb") BY <1>1, <3>1, TableIds
      <3> QED BY <1>2, <3>1, <3>2
    <2>4. CASE UsbRetain
      <3>1. UNCHANGED <<hotplug, plugged, usbId, ioErrors>> /\ usbPc = "retain" /\ usbPc' = "insert"
        BY <2>4 DEF UsbRetain
      <3>2. Entries("usb")' = {} BY <1>1, <2>4, TableIds
      <3> QED BY <1>2, <3>1, <3>2
    <2>5. CASE UsbInsert
      <3>1. /\ UNCHANGED <<hotplug, plugged, usbId, ioErrors>> /\ usbPc = "insert" /\ usbPc' = "attach"
            /\ usbId \in Ids /\ Insert(usbId, "usb")
        BY <1>1, <2>5 DEF UsbInsert, HandIds
      <3>2. Entries("usb")' = {usbId} BY <1>1, <1>2, <3>1, TableIds
      <3> QED BY <1>2, <3>1, <3>2
    <2>6. CASE UsbAttach \/ UsbNotReopened \/ UsbDetach
      <3>1. /\ UNCHANGED <<hotplug, plugged, ioErrors, table>>
            /\ \/ usbPc' = "idle" /\ usbId' = NoId
               \/ usbPc = "detach" /\ usbPc' = "reopen" /\ usbId' = usbId
        BY <2>6 DEF UsbAttach, UsbNotReopened, UsbDetach, UsbHandled, UsbIdle
      <3>2. Entries("usb")' = Entries("usb") BY <1>1, <3>1, TableIds
      <3>3. Coming(hotplug) \cap (ioErrors' \cup Entries("usb")' \cup {usbId'}) = {}
        BY <1>2, <3>1, <3>2
      <3> QED BY <1>2, <1>3, <3>1, <3>2, <3>3
    <2>7. CASE UsbDisconnected
      <3>1. PICK i \in Ids, io \in BOOLEAN :
              /\ \/ /\ ~io /\ hotplug # <<>> /\ Head(hotplug) = Disc(i)
                    /\ hotplug' = Tail(hotplug) /\ UNCHANGED ioErrors
                 \/ /\ io /\ i \in ioErrors
                    /\ ioErrors' = ioErrors \ {i} /\ UNCHANGED hotplug
              /\ Remove(i)
              /\ \/ usbPc' \in {"find", "reopen"} /\ usbId' = i
                 \/ usbPc' = "idle" /\ usbId' = usbId
        BY <2>7 DEF UsbDisconnected, Disc
      <3>2. plugged' = plugged BY <2>7 DEF UsbDisconnected
      <3>3. Entries("usb")' = Entries("usb") \ {i} BY <1>1, <3>1, TableIds
      <3>4. CASE hotplug # <<>> /\ Head(hotplug) = Disc(i) /\ hotplug' = Tail(hotplug) /\ UNCHANGED ioErrors
        <4>1. Entries("usb")' = {} BY <1>5, <1>6, <3>3, <3>4
        <4>2. i \notin Coming(hotplug') BY <1>4, <1>6, <3>4
        <4> QED BY <1>2, <1>4, <3>1, <3>2, <3>4, <4>1, <4>2
      <3>5. CASE i \in ioErrors /\ ioErrors' = ioErrors \ {i} /\ UNCHANGED hotplug
        BY <1>2, <3>1, <3>2, <3>3, <3>5
      <3> QED BY <3>1, <3>4, <3>5
    <2> QED BY <1>10, <2>1, <2>2, <2>3, <2>4, <2>5, <2>6, <2>7 DEF UsbStep
  <1>11. CASE NetResolved \/ NetWithdrawn \/ (\E i \in Ids : HeartbeatFails(i))
    <2>1. UNCHANGED <<hotplug, plugged, usbPc, usbId, ioErrors>>
      BY <1>11 DEF NetResolved, NetWithdrawn, HeartbeatFails
    <2>2. Entries("usb")' \subseteq Entries("usb") BY <1>11, UsbEntriesKept DEF World
    <2> QED BY <1>2, <2>1, <2>2
  <1>12. CASE NetStep \/ AddStep \/ ListenStep \/ UNCHANGED vars
    <2>1. UNCHANGED <<hotplug, plugged, usbPc, usbId, ioErrors>>
      <3>1. CASE NetStep
        BY <3>1 DEF NetStep, NetConnected, NetInsert, NetShadow, NetAttach, NetCancelled, NetDisconnected,
                    NetDedup, NetDetach
      <3>2. CASE AddStep
        BY <3>2 DEF AddStep, AddDevice, AddDetach, AddRemove, AddInserts, AddRestores, AddShadow,
                    AddAttach
      <3>3. CASE ListenStep \/ UNCHANGED vars
        BY <3>3 DEF ListenStep, Listen, Visit, SnapshotSent, Deliver, ListenEnds, vars
      <3> QED BY <1>12, <3>1, <3>2, <3>3
    <2>2. Entries("usb")' \subseteq Entries("usb") BY <1>12, UsbEntriesKept
    <2> QED BY <1>2, <2>1, <2>2
  <1> QED BY <1>7, <1>8, <1>9, <1>10, <1>11, <1>12 DEF Next, World
\* Sending an event about another device, or a withdrawal, leaves i gone.
LEMMA GoneSend ==
    ASSUME TypeOK, NEW i \in Ids, NEW j \in Ids, NEW ev \in {"Attached", "Detached"},
           Send(ev, j), UNCHANGED clientVars, Listening', Listening => Gone(i) \/ i = j,
           i = j => ev = "Detached"
    PROVE  Gone(i)'
  <1> DEFINE e == [ev |-> ev, id |-> j]
  <1>1. Listening /\ queue' = Append(queue, e) BY SendQueues DEF clientVars
  <1>2. queue \in Seq(Events) /\ e \in Events /\ e.id = j /\ e.ev = ev BY DEF TypeOK, Events
  <1>3. view' = view BY DEF clientVars
  <1> HIDE DEF e
  <1>4. CASE i = j
    <2>1. LastOf(queue', i, "Detached") BY <1>1, <1>2, <1>4, LastAppend
    <2> QED BY <2>1 DEF Gone
  <1>5. CASE i # j
    <2>1. Gone(i) BY <1>1, <1>5
    <2>2. CASE LastOf(queue, i, "Detached")
      <3>1. LastOf(queue', i, "Detached") BY <1>1, <1>2, <1>5, <2>2, LastAppend
      <3> QED BY <3>1 DEF Gone
    <2>3. CASE Silent(queue, i) /\ i \notin view
      <3>1. Silent(queue', i) BY <1>1, <1>2, <1>5, <2>3, LastAppend
      <3> QED BY <1>3, <2>3, <3>1 DEF Gone
    <2> QED BY <2>1, <2>2, <2>3 DEF Gone
  <1> QED BY <1>4, <1>5

\* So does a step that neither sends nor reads.
LEMMA GoneFrame ==
    ASSUME NEW i \in Ids, UNCHANGED <<busVars, clientVars>>, Listening'
    PROVE  Listening /\ (Gone(i) => Gone(i)')
  BY DEF Gone, busVars, clientVars, Listening

\* The listener finds nothing of i in its snapshot and reads nothing that brings it back.
LEMMA GoneListen ==
    ASSUME TypeOK, ClientInv, NEW i \in Ids, ListenStep, Listening', Listening => Gone(i),
           lpc = "off" => view = {}, table[i] = "none"
    PROVE  Gone(i)'
  <1>1. CASE Listen
    <2>1. queue' = <<>> /\ view' = {} BY <1>1 DEF Listen, ClientInv, busVars
    <2>2. Silent(queue', i) BY <2>1 DEF Silent
    <2> QED BY <2>1, <2>2 DEF Gone
  <1>2. ASSUME NEW j \in Ids, Visit(j) PROVE Gone(i)'
    <2>1. /\ lpc = "snapshot" /\ queue' = queue /\ lagged' = lagged
          /\ view' = IF table[j] # "none" /\ ~is_shadowed(j) THEN view \cup {j} ELSE view
      BY <1>2 DEF Visit, busVars
    <2>2. Gone(i) BY <2>1 DEF Listening
    <2>3. i \notin view => i \notin view' BY <2>1
    <2> QED BY <2>1, <2>2, <2>3 DEF Gone
  <1>3. CASE SnapshotSent
    <2>1. lpc = "snapshot" /\ UNCHANGED <<queue, lagged, view>> BY <1>3 DEF SnapshotSent, busVars
    <2>2. Gone(i) BY <2>1 DEF Listening
    <2> QED BY <2>1, <2>2 DEF Gone
  <1>4. CASE Deliver
    <2> DEFINE e == Head(queue)
    <2>1. /\ lpc = "live" /\ ~lagged /\ queue # <<>> /\ queue' = Tail(queue)
          /\ view' = IF e.ev = "Detached" THEN view \ {e.id}
                     ELSE IF table[e.id] # "none" THEN view \cup {e.id} ELSE view
      BY <1>4 DEF Deliver
    <2>2. Gone(i) BY <2>1 DEF Listening
    <2>3. queue \in Seq(Events) BY DEF TypeOK
    <2>4. CASE LastOf(queue, i, "Detached")
      <3>1. LastOf(queue', i, "Detached") \/ (e.id = i /\ e.ev = "Detached" /\ Silent(queue', i))
        BY <2>1, <2>3, <2>4, LastTail
      <3>2. CASE LastOf(queue', i, "Detached") BY <3>2 DEF Gone
      <3>3. CASE e.id = i /\ e.ev = "Detached" /\ Silent(queue', i)
        <4>1. i \notin view' BY <2>1, <3>3
        <4> QED BY <3>3, <4>1 DEF Gone
      <3> QED BY <3>1, <3>2, <3>3
    <2>5. CASE Silent(queue, i) /\ i \notin view
      <3>1. Silent(queue', i) BY <2>1, <2>3, <2>5, LastTail
      <3>2. i \notin view' BY <2>1, <2>5
      <3> QED BY <3>1, <3>2 DEF Gone
    <2> QED BY <2>2, <2>4, <2>5 DEF Gone
  <1>5. CASE ListenEnds BY <1>5 DEF ListenEnds, Listening
  <1> QED BY <1>1, <1>2, <1>3, <1>4, <1>5 DEF ListenStep

\* What has left the table is withdrawn and never announced again.
LEMMA GoneStep ==
    TypeInv /\ UsbInv /\ ClientInv /\ SourceInv /\ CableInv /\ NetKnown /\ GoneInv /\ [Next]_vars
        => GoneInv'
  <1> SUFFICES ASSUME TypeInv, UsbInv, ClientInv, SourceInv, CableInv, NetKnown, GoneInv, [Next]_vars,
                      OneSource
               PROVE  /\ lpc' = "off" => view' = {}
                      /\ usbPc' = "attach" => usbId' \in Entries("usb")'
                      /\ netPc' \in {"shadow", "attach"} => netId' \in Entries("net")'
                      /\ Listening' => \A i \in Ids : table'[i] = "none" => Gone(i)' \/ Leaving(i)'
    BY SetupKept DEF GoneInv, OneSource
  <1> USE DEF UsbPass, NetPass, AddPass, ListenPass, usbVars, netVars, addVars
  <1>1. TypeOK /\ HandIds /\ table \in [Ids -> {"none", "usb", "net"}] BY DEF TypeInv, TypeOK
  <1>2. /\ lpc = "off" => view = {}
        /\ usbPc = "attach" => usbId \in Entries("usb")
        /\ netPc \in {"shadow", "attach"} => netId \in Entries("net")
        /\ Listening => \A i \in Ids : table[i] = "none" => Gone(i) \/ Leaving(i)
    BY DEF GoneInv
  <1>3. \/ /\ setup.sources = {"usb"} /\ netPc = "idle" /\ id_map = NoId /\ usbNet = NoId
           /\ addPc = "idle" /\ Entries("net") = {}
        \/ /\ setup.sources = {"mdns"} /\ usbPc = "idle" /\ plugged = NoId /\ hotplug = <<>>
           /\ ioErrors = {} /\ Entries("usb") = {}
    BY DEF OneSource, SourceInv
  <1>4. usbPc = "retain" => Entries("usb") = {} BY DEF CableInv, OneSource
  <1>5. ~AddStep
    <2>1. addPc = "idle" BY DEF NetKnown, OneSource
    <2> QED BY <1>3, <2>1 DEF AddStep, AddDevice, AddDetach, AddRemove, AddInserts, AddRestores,
                              AddShadow, AddAttach
  <1> HIDE DEF GoneInv, CableInv, SourceInv, NetKnown, UsbInv
  <1> DEFINE Goal == /\ lpc' = "off" => view' = {}
                     /\ usbPc' = "attach" => usbId' \in Entries("usb")'
                     /\ netPc' \in {"shadow", "attach"} => netId' \in Entries("net")'
                     /\ Listening' => \A i \in Ids : table'[i] = "none" => Gone(i)' \/ Leaving(i)'
  <1> SUFFICES Goal OBVIOUS
  <1>6. ASSUME UNCHANGED <<busVars, clientVars>>,
               \A i \in Ids : table'[i] = "none" => table[i] = "none" \/ Leaving(i)',
               \A i \in Ids : Leaving(i) => Leaving(i)',
               usbPc' = "attach" => usbId' \in Entries("usb")',
               netPc' \in {"shadow", "attach"} => netId' \in Entries("net")'
        PROVE  Goal
    <2>1. lpc' = "off" => view' = {} BY <1>2, <1>6 DEF clientVars
    <2>2. ASSUME Listening', NEW i \in Ids, table'[i] = "none" PROVE Gone(i)' \/ Leaving(i)'
      BY <1>2, <1>6, <2>2, GoneFrame
    <2> QED BY <1>6, <2>1, <2>2
  <1>7. ASSUME UNCHANGED <<clientVars, table>>, NEW ev \in {"Attached", "Detached"}, NEW j \in Ids,
               Send(ev, j), ev = "Attached" => table[j] # "none", \A i \in Ids : Leaving(i) => i = j,
               ev = "Attached" => \A i \in Ids : ~Leaving(i),
               usbPc' # "attach", netPc' \notin {"shadow", "attach"}
        PROVE  Goal
    <2>1. lpc' = "off" => view' = {} BY <1>2, <1>7 DEF clientVars
    <2>2. ASSUME Listening', NEW i \in Ids, table'[i] = "none" PROVE Gone(i)'
      <3>1. Listening => Gone(i) \/ i = j BY <1>2, <1>7, <2>2
      <3>2. i = j => ev = "Detached" BY <1>7, <2>2
      <3> QED BY <1>1, <1>7, <2>2, <3>1, <3>2, GoneSend
    <2> QED BY <1>7, <2>1, <2>2
  <1> HIDE DEF Goal
  <1>8. CASE World
    <2>1. /\ UNCHANGED <<busVars, clientVars, table, usbPc, usbId>>
          /\ UNCHANGED <<netPc, netId>> \/ (netPc = "idle" /\ netPc' \in {"skip", "remove"})
      BY <1>8 DEF World, Plug, Unplug, NetResolved, NetWithdrawn, IoError, HeartbeatFails
    <2>2. Entries("usb")' = Entries("usb") /\ Entries("net")' = Entries("net") BY <1>1, <2>1, TableIds
    <2>3. \A i \in Ids : Leaving(i) => Leaving(i)' BY <2>1 DEF Leaving
    <2> QED BY <1>2, <1>6, <2>1, <2>2, <2>3
  <1>9. CASE UsbStep
    <2>1. /\ setup.sources = {"usb"} /\ netPc = "idle" /\ usbNet = NoId /\ Entries("net") = {}
      BY <1>3, <1>9 DEF UsbStep, UsbOpenFails, UsbConnected, UsbHide, UsbRetain, UsbInsert, UsbAttach,
           UsbDisconnected, UsbFindNetwork, UsbExpose, UsbDetach, UsbNotReopened
    <2>2. UNCHANGED <<clientVars, netPc, netId>>
      BY <1>9 DEF UsbStep, UsbOpenFails, UsbConnected, UsbHide, UsbRetain, UsbInsert, UsbAttach,
           UsbDisconnected, UsbFindNetwork, UsbExpose, UsbDetach, UsbNotReopened
    <2>3. CASE UsbOpenFails \/ UsbConnected \/ UsbHide \/ UsbFindNetwork \/ UsbExpose \/ UsbNotReopened
      <3>1. /\ UNCHANGED <<busVars, table>> /\ usbPc' # "attach"
            /\ usbPc \in {"find", "expose", "detach"} =>
                  usbPc' \in {"find", "expose", "detach"} /\ usbId' = usbId
        BY <2>1, <2>3 DEF UsbOpenFails, UsbConnected, UsbHide, UsbFindNetwork, UsbExpose,
                          UsbNotReopened, UsbIdle
      <3>2. \A i \in Ids : Leaving(i) => Leaving(i)' BY <2>1, <2>2, <3>1 DEF Leaving
      <3> QED BY <1>6, <2>1, <2>2, <3>1, <3>2
    <2>4. CASE UsbRetain
      <3>1. UNCHANGED busVars /\ usbPc = "retain" /\ usbPc' = "insert" BY <2>4 DEF UsbRetain
      <3>2. \A i \in Ids : table[i] # "usb" BY <1>4, <3>1 DEF Entries
      <3>3. \A i \in Ids : table'[i] = "none" => table[i] = "none" BY <1>1, <2>4, <3>2 DEF UsbRetain
      <3>4. \A i \in Ids : ~Leaving(i) BY <2>1, <3>1 DEF Leaving
      <3> QED BY <1>6, <2>1, <2>2, <3>1, <3>3, <3>4
    <2>5. CASE UsbInsert
      <3>1. /\ UNCHANGED busVars /\ usbPc = "insert" /\ usbPc' = "attach" /\ usbId' = usbId
            /\ usbId \in Ids /\ Insert(usbId, "usb")
        BY <1>1, <2>5 DEF UsbInsert, HandIds
      <3>2. usbId' \in Entries("usb")' BY <1>1, <3>1, TableIds
      <3>3. \A i \in Ids : table'[i] = "none" => table[i] = "none" BY <1>1, <3>1 DEF Insert
      <3>4. \A i \in Ids : ~Leaving(i) BY <2>1, <3>1 DEF Leaving
      <3> QED BY <1>6, <2>1, <2>2, <3>1, <3>2, <3>3, <3>4
    <2>6. CASE UsbAttach
      <3>1. /\ UNCHANGED table /\ usbPc = "attach" /\ usbPc' = "idle" /\ usbId \in Ids
            /\ Send("Attached", usbId)
        BY <1>1, <2>6 DEF UsbAttach, UsbIdle, HandIds
      <3>2. table[usbId] # "none" BY <1>2, <3>1 DEF Entries
      <3>3. \A i \in Ids : ~Leaving(i) BY <2>1, <3>1 DEF Leaving
      <3> QED BY <1>7, <2>1, <2>2, <3>1, <3>2, <3>3
    <2>7. CASE UsbDisconnected
      <3>1. PICK j \in Ids : /\ Remove(j)
                             /\ (table[j] = "none" /\ usbPc' # "attach") \/ (usbPc' = "find" /\ usbId' = j)
        BY <2>7 DEF UsbDisconnected
      <3>2. UNCHANGED busVars /\ usbPc = "idle" BY <2>7 DEF UsbDisconnected
      <3>3. \A i \in Ids : table'[i] = "none" => table[i] = "none" \/ Leaving(i)'
        BY <1>1, <3>1 DEF Remove, Leaving
      <3>4. \A i \in Ids : ~Leaving(i) BY <2>1, <3>2 DEF Leaving
      <3> QED BY <1>6, <2>1, <2>2, <3>1, <3>2, <3>3, <3>4
    <2>8. CASE UsbDetach
      <3>1. /\ UNCHANGED table /\ usbPc = "detach" /\ usbPc' \in {"reopen", "idle"} /\ usbId \in Ids
            /\ Send("Detached", usbId)
        BY <1>1, <2>8 DEF UsbDetach, UsbHandled, UsbIdle, HandIds
      <3>2. \A i \in Ids : Leaving(i) => i = usbId BY <2>1 DEF Leaving
      <3> QED BY <1>7, <2>1, <2>2, <3>1, <3>2
    <2> QED BY <1>9, <2>3, <2>4, <2>5, <2>6, <2>7, <2>8 DEF UsbStep
  <1>10. CASE NetStep
    <2> USE DEF NetIdle
    <2>1. UNCHANGED <<clientVars, usbPc, usbId>>
      BY <1>10 DEF NetStep, NetConnected, NetInsert, NetShadow, NetAttach, NetCancelled, NetDisconnected,
           NetDedup, NetDetach
    <2>2. CASE setup.sources = {"usb"} /\ netPc = "idle" /\ id_map = NoId
      <3>1. UNCHANGED <<busVars, table, netPc, netId>>
        BY <1>10, <2>2 DEF NetStep, NetConnected, NetInsert, NetShadow, NetAttach, NetCancelled, NetDisconnected,
             NetDedup, NetDetach
      <3>2. Entries("usb")' = Entries("usb") BY <1>1, <3>1, TableIds
      <3>3. \A i \in Ids : Leaving(i) => Leaving(i)' BY <2>1, <3>1 DEF Leaving
      <3> QED BY <1>2, <1>6, <2>1, <2>2, <3>1, <3>2, <3>3
    <2>3. ASSUME usbPc = "idle", Entries("usb") = {} PROVE Goal
      <3>1. usbPc' # "attach" BY <2>1, <2>3
      <3>2. CASE NetConnected
        <4>1. /\ netPc = "skip" /\ netPc' \in {"idle", "insert"} /\ UNCHANGED <<busVars, table>>
          BY <3>2 DEF NetConnected
        <4>2. \A i \in Ids : ~Leaving(i) BY <2>3, <4>1 DEF Leaving
        <4> QED BY <1>6, <2>1, <3>1, <4>1, <4>2
      <3>3. CASE NetShadow
        <4>1. /\ netPc = "shadow" /\ netPc' = "attach" /\ netId' = netId /\ UNCHANGED <<busVars, table>>
          BY <2>3, <3>3 DEF NetShadow, has_usb_with_udid
        <4>2. Entries("net")' = Entries("net") BY <1>1, <4>1, TableIds
        <4>3. \A i \in Ids : ~Leaving(i) BY <2>3, <4>1 DEF Leaving
        <4> QED BY <1>2, <1>6, <2>1, <3>1, <4>1, <4>2, <4>3
      <3>4. CASE NetAttach
        <4>1. /\ netPc = "attach" /\ netPc' = "idle" /\ netId \in Ids /\ UNCHANGED table
              /\ Send("Attached", netId)
          BY <1>1, <3>4 DEF NetAttach, HandIds
        <4>2. table[netId] # "none" BY <1>2, <4>1 DEF Entries
        <4>3. \A i \in Ids : ~Leaving(i) BY <2>3, <4>1 DEF Leaving
        <4> QED BY <1>7, <2>1, <3>1, <4>1, <4>2, <4>3
      <3>5. CASE NetCancelled
        <4>1. netPc = "idle" /\ netPc' \in {"idle", "remove"} /\ UNCHANGED <<busVars, table>>
          BY <3>5 DEF NetCancelled
        <4>2. \A i \in Ids : ~Leaving(i) BY <2>3, <4>1 DEF Leaving
        <4> QED BY <1>6, <2>1, <3>1, <4>1, <4>2
      <3>6. CASE NetDisconnected
        <4>1. /\ netPc = "remove" /\ netId \in Ids /\ Remove(netId) /\ UNCHANGED busVars
              /\ \/ netPc' = "dedup" /\ netId' = netId
                 \/ table[netId] = "none" /\ netPc' = "idle"
          BY <1>1, <3>6 DEF NetDisconnected, HandIds
        <4>2. \A i \in Ids : table'[i] = "none" => table[i] = "none" \/ Leaving(i)'
          BY <1>1, <4>1 DEF Remove, Leaving
        <4>3. \A i \in Ids : ~Leaving(i) BY <2>3, <4>1 DEF Leaving
        <4> QED BY <1>6, <2>1, <3>1, <4>1, <4>2, <4>3
      <3>7. CASE NetDedup
        <4>1. netPc = "dedup" /\ netPc' = "detach" /\ netId' = netId /\ UNCHANGED <<busVars, table>>
          BY <2>3, <3>7 DEF NetDedup, has_usb_with_udid
        <4>2. \A i \in Ids : Leaving(i) => Leaving(i)' BY <2>1, <4>1 DEF Leaving
        <4> QED BY <1>6, <2>1, <3>1, <4>1, <4>2
      <3>8. CASE NetDetach
        <4>1. /\ netPc = "detach" /\ netPc' = "idle" /\ netId \in Ids /\ UNCHANGED table
              /\ Send("Detached", netId)
          BY <1>1, <3>8 DEF NetDetach, HandIds
        <4>2. \A i \in Ids : Leaving(i) => i = netId BY <2>3 DEF Leaving
        <4> QED BY <1>7, <2>1, <3>1, <4>1, <4>2
      <3>9. CASE NetInsert
        <4>1. /\ netPc = "insert" /\ netId \in Ids /\ UNCHANGED busVars
              /\ Insert(netId, "net") /\ netPc' = "shadow" /\ UNCHANGED netId
          BY <1>1, <3>9 DEF NetInsert, HandIds
        <4>2. \A i \in Ids : ~Leaving(i) BY <2>3, <4>1 DEF Leaving
        <4>3. netId' \in Entries("net")' BY <1>1, <4>1, TableIds
        <4>4. \A i \in Ids : table'[i] = "none" => table[i] = "none" BY <1>1, <4>1 DEF Insert
        <4> QED BY <1>6, <2>1, <3>1, <4>1, <4>2, <4>3, <4>4
      <3> QED BY <1>10, <3>2, <3>3, <3>4, <3>5, <3>6, <3>7, <3>8, <3>9 DEF NetStep
    <2> QED BY <1>3, <2>2, <2>3
  <1>11. CASE ListenStep
    <2>1. UNCHANGED <<table, usbPc, usbId, netPc, netId>>
      BY <1>11 DEF ListenStep, Listen, Visit, SnapshotSent, Deliver, ListenEnds
    <2>2. Entries("usb")' = Entries("usb") /\ Entries("net")' = Entries("net") BY <1>1, <2>1, TableIds
    <2>3. lpc' # "off" BY <1>11 DEF ListenStep, Listen, Visit, SnapshotSent, Deliver, ListenEnds
    <2>4. ASSUME Listening', NEW i \in Ids, table'[i] = "none" PROVE Gone(i)' \/ Leaving(i)'
      <3>1. table[i] = "none" BY <2>1, <2>4
      <3>2. CASE Leaving(i) BY <2>1, <3>2 DEF Leaving
      <3>3. CASE ~Leaving(i)
        <4>1. Listening => Gone(i) BY <1>2, <3>1, <3>3
        <4> QED BY <1>1, <1>2, <1>11, <2>4, <3>1, <4>1, GoneListen
      <3> QED BY <3>2, <3>3
    <2> QED BY <1>2, <2>1, <2>2, <2>3, <2>4 DEF Goal
  <1>12. CASE UNCHANGED vars
    <2>1. UNCHANGED <<busVars, clientVars, table, usbPc, usbId, netPc, netId>> BY <1>12 DEF vars
    <2>2. Entries("usb")' = Entries("usb") /\ Entries("net")' = Entries("net") BY <1>1, <2>1, TableIds
    <2>3. \A i \in Ids : Leaving(i) => Leaving(i)' BY <2>1 DEF Leaving
    <2> QED BY <1>2, <1>6, <2>1, <2>2, <2>3
  <1> QED BY <1>5, <1>8, <1>9, <1>10, <1>11, <1>12 DEF Next

\* The inductive invariant of ListenerExact.
ExactInv == ShownInv /\ SourceInv /\ CableInv /\ GoneInv

\* At the start nothing has left.
LEMMA ExactInit == Init => ExactInv
  <1> SUFFICES ASSUME Init PROVE ExactInv OBVIOUS
  <1>1. ShownInv BY ShownInit
  <1>2. Entries("usb") = {} /\ Entries("net") = {} BY DEF Init, Entries
  <1>3. SourceInv BY <1>2 DEF Init, SourceInv
  <1>4. CableInv
    <2>1. hotplug = <<>> /\ usbPc = "idle" BY DEF Init
    <2>2. Alternates(hotplug, plugged) /\ Coming(hotplug) = {} BY <2>1 DEF Alternates, Coming
    <2> QED BY <1>2, <2>1, <2>2 DEF CableInv
  <1>5. GoneInv BY DEF Init, GoneInv, Listening
  <1> QED BY <1>1, <1>3, <1>4, <1>5 DEF ExactInv

\* With the cable or mDNS alone, a listener that has read its events knows exactly the
\* devices of the table: no snapshot misses a device, and no late event brings one back.
THEOREM ListenerIsExact == Spec => []ListenerExact
  <1>1. ExactInv /\ [Next]_vars => ExactInv'
    BY ShownStep, SourceStep, CableStep, GoneStep DEF ExactInv, ShownInv
  <1>2. ExactInv => ListenerExact
    <2> SUFFICES ASSUME ExactInv, Quiet, OneSource PROVE view = Exposed BY DEF ListenerExact
    <2> USE DEF ExactInv
    <2>1. /\ TypeOK /\ Listening /\ usbPc = "idle" /\ netPc = "idle"
          /\ queue = <<>> /\ "manual" \notin setup.sources
      BY DEF ShownInv, TypeInv, Quiet, Listening, OneSource
    <2>2. Exposed \subseteq view
      <3>1. ShownInv => ExposedIsShown BY ShownExposes
      <3> QED BY <2>1, <3>1 DEF ExposedIsShown
    <2>3. ASSUME NEW i \in view PROVE i \in Exposed
      <3>1. i \in Ids BY <2>1, <2>3 DEF TypeOK
      <3>2. ~Gone(i) BY <2>1, <2>3 DEF Gone, LastOf
      <3>3. table[i] # "none" BY <2>1, <3>1, <3>2 DEF GoneInv, Leaving
      <3>4. ~is_shadowed(i)
        <4>1. Entries("usb") = {} \/ Entries("net") = {} BY DEF SourceInv, OneSource
        <4> QED BY <3>1, <4>1 DEF is_shadowed, has_usb_with_udid, Entries
      <3> QED BY <3>1, <3>3, <3>4 DEF Exposed
    <2> QED BY <2>2, <2>3
  <1> QED BY <1>1, <1>2, ExactInit, PTL DEF Spec
=============================================================================
