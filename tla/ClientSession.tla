---------------------------- MODULE ClientSession ----------------------------
(***************************************************************************)
(* The sessions of the daemon's clients, from handle_client's loop to the   *)
(* modes a session may turn into, composed with a network device, with the  *)
(* files below LOCKDOWN_PATH and with the network watcher that puts the     *)
(* device into the table and takes it out.                                  *)
(*                                                                          *)
(* A request is named by what its handler does with it.  A client writes    *)
(* one request at a time and may close its socket at any time.  Every       *)
(* message of the daemon is a step of its own: a write to a client that     *)
(* does not read waits, and whoever holds a guard of the table meanwhile    *)
(* keeps it.                                                                *)
(***************************************************************************)
EXTENDS NetworkDevice, PairRecords, Sequences

CONSTANTS
    Clients,
    Setups      \* bound: the environments to look at, see SetupType

\* Requests that change nothing, and their answers.  A plist that is not one and a
\* binary payload are not answered.
Answers ==
    [list      |-> <<"DeviceList">>,
     listeners |-> <<"ListenerList">>,
     othertype |-> <<"BadCommand">>,
     invalid   |-> <<"InvalidInput">>,
     nodevice  |-> <<"BadDevice">>,
     noport    |-> <<"BadCommand">>,
     badid     |-> <<"BadCommand">>,
     badplist  |-> <<>>,
     binary    |-> <<>>]

\* Requests about files, and the operation they begin with.
FileRequests ==
    [readbuid |-> "exists", read |-> "get", save |-> "put", savedev |-> "put",
     delete |-> "remove"]

Requests ==
    DOMAIN Answers \cup DOMAIN FileRequests \cup {"badheader", "connect", "listen"}

\* requests: what clients ask for; each: how often each of them does; net, pf: there is a network device,
\* a phone to pair with; crashes: how often the daemon is killed and started again.
SetupType ==
    [requests : SUBSET Requests, each : [Clients -> Nat], net : BOOLEAN, pf : BOOLEAN, crashes : Nat]

ASSUME SessionAssumption ==
    Clients = Actors \ {Preflight} /\ Setups \subseteq SetupType

VARIABLES
    setup,
    pc,        \* where a session is
    inbox,     \* a request in the client's socket, or none
    left,      \* requests the client may still send
    closed,    \* the client has closed its socket
    sync,      \* the daemon reads headers where headers are
    req,       \* the request being handled
    out,       \* messages still to be written
    next,      \* where the session goes on after them
    ev,        \* events of the hotplug channel not yet received
    inTable,   \* the network device is in CONNECTED_DEVICES
    crashes

inVars   == <<inbox, left, closed>>
sessVars == <<pc, sync, req, out, next>>
vars == <<setup, inVars, sessVars, ev, inTable, crashes, devVars, recVars>>

Messages ==
    {"DeviceList", "ListenerList", "BadCommand", "InvalidInput", "OK", "BadDevice", "Refused",
     "BUID", "PairRecordData", "Paired", "Attached", "Detached"}

TypeOK ==
    /\ DevTypeOK /\ RecTypeOK
    /\ setup \in Setups
    /\ pc \in [Clients -> {"header", "swallow", "file", "lookup", "connecting", "copy",
                           "snap", "events", "write", "ended"}]
    /\ inbox \in [Clients -> Requests \cup {"none"}] /\ left \in [Clients -> Nat]
    /\ closed \in [Clients -> BOOLEAN] /\ sync \in [Clients -> BOOLEAN]
    /\ req \in [Clients -> Requests \cup {"none"}]
    /\ out \in [Clients -> Seq(Messages)] /\ \A c \in Clients : Len(out[c]) <= 2
    /\ next \in [Clients -> {"header", "ended", "copy", "snap", "events"}]
    /\ ev \in [Clients -> Seq({"Attached", "Detached"})] /\ \A c \in Clients : Len(ev[c]) <= 2
    /\ inTable \in BOOLEAN /\ crashes \in 0..setup.crashes

Init ==
    /\ setup \in Setups
    /\ DevInit /\ RecInit
    /\ setup.net => buid = 1 /\ record = "good"
    /\ pc = [c \in Clients |-> IF setup.each[c] = 0 THEN "ended" ELSE "header"]
    /\ inbox = [c \in Clients |-> "none"]
    /\ left = setup.each /\ closed = [c \in Clients |-> FALSE]
    /\ sync = [c \in Clients |-> TRUE] /\ req = [c \in Clients |-> "none"]
    /\ out = [c \in Clients |-> <<>>] /\ next = [c \in Clients |-> "header"]
    /\ ev = [c \in Clients |-> <<>>] /\ inTable = FALSE /\ crashes = 0

------------------------------------------------------------------------------
(* The client's side of the socket.                                          *)

SendRequest(c) ==
    /\ ~closed[c] /\ left[c] > 0 /\ inbox[c] = "none" /\ pc[c] # "ended"
    /\ \E r \in setup.requests : inbox' = [inbox EXCEPT ![c] = r]
    /\ left' = [left EXCEPT ![c] = @ - 1]
    /\ UNCHANGED <<setup, closed, sessVars, ev, inTable, crashes, devVars, recVars>>

ClientCloses(c) ==
    /\ ~closed[c] /\ pc[c] # "ended"
    /\ closed' = [closed EXCEPT ![c] = TRUE]
    /\ UNCHANGED <<setup, inbox, left, sessVars, ev, inTable, crashes, devVars, recVars>>

------------------------------------------------------------------------------
(* Steps of a session.                                                       *)

SessionPass == UNCHANGED <<setup, left, closed, inTable, crashes, devVars, pfVars>>

SessionGoto(c, to) == pc' = [pc EXCEPT ![c] = to]

Keep(c, r, nxt) == req' = [req EXCEPT ![c] = r] /\ next' = [next EXCEPT ![c] = nxt]

Forget(c) == Keep(c, "none", "header")

\* The messages that answer r are written one by one, then the session goes on at nxt.
Respond(c, r, msgs, nxt) ==
    /\ out' = [out EXCEPT ![c] = msgs]
    /\ IF msgs = <<>>
       THEN SessionGoto(c, nxt) /\ Forget(c)
       ELSE SessionGoto(c, "write") /\ Keep(c, r, nxt)

\* The end of the stream is an error like any other.
ReadEofContinues(c) ==
    /\ pc[c] \in {"header", "swallow"} /\ closed[c] /\ inbox[c] = "none"
    /\ UNCHANGED vars

\* from_reader meets the end of the stream, before or inside a packet.  An error that
\* handle_client does not list as an end, such as ConnectionAborted, is passed over and
\* changes nothing; the socket is taken to report it once and its end at the next read.
ReadEof(c) ==
    /\ pc[c] \in {"header", "swallow"} /\ closed[c] /\ inbox[c] = "none"
    /\ SessionGoto(c, "ended")
    /\ UNCHANGED <<inbox, sync, req, out, next, ev, fileVars>> /\ SessionPass

\* A header with an unknown version or type or too small a length is an error that the
\* loop passes over; the payload behind it is read as the next header.
BadHeader(c) ==
    /\ pc[c] = "header" /\ sync[c] /\ inbox[c] = "badheader"
    /\ inbox' = [inbox EXCEPT ![c] = "none"] /\ sync' = [sync EXCEPT ![c] = FALSE]
    /\ UNCHANGED <<pc, req, out, next, ev, fileVars>> /\ SessionPass

\* From there on a header is an error again, or by chance one with a payload to wait for.
ReadGarbage(c) ==
    /\ pc[c] \in {"header", "swallow"} /\ ~sync[c] /\ inbox[c] # "none"
    /\ inbox' = [inbox EXCEPT ![c] = "none"]
    /\ \E to \in {"header", "swallow"} : SessionGoto(c, to)
    /\ UNCHANGED <<sync, req, out, next, ev, fileVars>> /\ SessionPass

\* handle_message
Dispatch(c) ==
    LET r == inbox[c] IN
    /\ pc[c] = "header" /\ sync[c] /\ r \notin {"none", "badheader"}
    /\ inbox' = [inbox EXCEPT ![c] = "none"]
    /\ \/ /\ r \in DOMAIN Answers
          /\ Respond(c, r, Answers[r], "header") /\ UNCHANGED <<ev, fileVars>>
       \/ /\ r \in DOMAIN FileRequests
          /\ Begin(c, FileRequests[r]) /\ SessionGoto(c, "file")
          /\ Keep(c, r, "header") /\ UNCHANGED <<out, ev>>
       \/ /\ r = "connect"
          /\ SessionGoto(c, "lookup") /\ UNCHANGED <<req, out, next, ev, fileVars>>
       \/ /\ r = "listen"       \* subscribed before the answer is written
          /\ ev' = [ev EXCEPT ![c] = <<>>]
          /\ Respond(c, r, <<"OK">>, "snap") /\ UNCHANGED fileVars
    /\ UNCHANGED sync /\ SessionPass

\* What the handlers of files answer to an outcome; other errors are only logged.
BuidAnswer(res) ==
    CASE res = "ok" -> <<"BUID">> [] res \in {"denied", "error"} -> <<"BadDevice">> [] OTHER -> <<>>

\* The record is sent as it is.
ReadAnswer(res) ==
    CASE res \in {"ok", "bad"} -> <<"PairRecordData">>
      [] res \in {"missing", "denied"} -> <<"BadDevice">>
      [] OTHER -> <<>>

\* A request that names the device gets a message of its own.
Paired == <<"Paired">>

SaveAnswer(res, paired) ==
    CASE res = "ok" -> paired \o <<"OK">> [] res = "denied" -> <<"BadDevice">> [] OTHER -> <<>>

DeleteAnswer(res) ==
    CASE res = "ok" -> <<"OK">> [] res = "missing" -> <<"BadDevice">> [] OTHER -> <<>>

FileAnswer(r, res) ==
    CASE r = "readbuid" -> BuidAnswer(res)
      [] r = "read"     -> ReadAnswer(res)
      [] r = "save"     -> SaveAnswer(res, <<>>)
      [] r = "savedev"  -> SaveAnswer(res, Paired)
      [] r = "delete"   -> DeleteAnswer(res)

FileDone(c) ==
    /\ pc[c] = "file" /\ fop[c] = "idle"
    /\ Respond(c, req[c], FileAnswer(req[c], fres[c]), "header")
    /\ fres' = [fres EXCEPT ![c] = "none"]
    /\ UNCHANGED <<inbox, sync, ev, buid, made, settled, record, fop>> /\ SessionPass

\* connect: the guard of the table is held until the connection is there or not.
Lookup(c) ==
    /\ pc[c] = "lookup"
    /\ \/ inTable /\ SessionGoto(c, "connecting") /\ UNCHANGED <<req, out, next>>
       \/ ~inTable /\ Respond(c, "connect", <<"BadDevice">>, "ended")
    /\ UNCHANGED <<inbox, sync, ev, fileVars>> /\ SessionPass

Connected(c) ==
    /\ pc[c] = "connecting"
    /\ \/ reachable /\ Respond(c, "connect", <<"OK">>, "copy")
       \/ Respond(c, "connect", <<"Refused">>, "ended")
    /\ UNCHANGED <<inbox, sync, ev, fileVars>> /\ SessionPass

\* handle_network_device_connect: the token ends the copying, also when it was
\* cancelled before it began ...
CopyCancelled(c) ==
    /\ pc[c] = "copy" /\ token
    /\ SessionGoto(c, "ended")
    /\ UNCHANGED <<inbox, sync, req, out, next, ev, fileVars>> /\ SessionPass

\* ... or it ends by itself: both sides have closed, or one is broken.
CopyEnds(c) ==
    /\ pc[c] = "copy" /\ (closed[c] \/ ~reachable)
    /\ SessionGoto(c, "ended")
    /\ UNCHANGED <<inbox, sync, req, out, next, ev, fileVars>> /\ SessionPass

\* send_currently_connected
Snapshot(c) ==
    /\ pc[c] = "snap"
    /\ Respond(c, "listen", IF inTable THEN <<"Attached">> ELSE <<>>, "events")
    /\ UNCHANGED <<inbox, sync, ev, fileVars>> /\ SessionPass

\* A device that is gone again is not announced.
RecvEvent(c) ==
    /\ pc[c] = "events" /\ ev[c] # <<>>
    /\ ev' = [ev EXCEPT ![c] = Tail(@)]
    /\ LET gone == Head(ev[c]) = "Attached" /\ ~inTable IN
       Respond(c, "listen", IF gone THEN <<>> ELSE <<Head(ev[c])>>, "events")
    /\ UNCHANGED <<inbox, sync, fileVars>> /\ SessionPass

\* The client has room for the message.
Write(c) ==
    /\ pc[c] = "write" /\ ~closed[c]
    /\ Respond(c, req[c], Tail(out[c]), next[c])
    /\ UNCHANGED <<inbox, sync, ev, fileVars>> /\ SessionPass

\* A disconnect ends the session, except that handle_read_buid ignores it.
WriteFails(c) ==
    /\ pc[c] = "write" /\ closed[c]
    /\ out' = [out EXCEPT ![c] = <<>>]
    /\ SessionGoto(c, IF req[c] = "readbuid" /\ Head(out[c]) = "BadDevice"
                      THEN "header" ELSE "ended")
    /\ Forget(c)
    /\ UNCHANGED <<inbox, sync, ev, fileVars>> /\ SessionPass

SessionStep(c) ==
    \/ ReadEof(c) \/ BadHeader(c) \/ ReadGarbage(c) \/ Dispatch(c) \/ FileDone(c)
    \/ Lookup(c) \/ Connected(c) \/ CopyCancelled(c)
    \/ Snapshot(c) \/ RecvEvent(c) \/ Write(c) \/ WriteFails(c)

------------------------------------------------------------------------------
(* The table.                                                                *)

Guards == {c \in Clients : \/ pc[c] = "connecting"
                           \/ pc[c] = "write" /\ Head(out[c]) = "Attached"}

Subscribed(c) == pc[c] \in {"snap", "events"} \/ (pc[c] = "write" /\ next[c] \in {"snap", "events"})

Announce(event) == ev' = [c \in Clients |-> IF Subscribed(c) THEN Append(ev[c], event) ELSE ev[c]]

\* watch_network_daemon, NetworkEvent::Connected
InsertDevice ==
    /\ dev = "up" /\ ~inTable
    /\ inTable' = TRUE /\ Announce("Attached")
    /\ UNCHANGED <<setup, inVars, sessVars, crashes, devVars, recVars>>

\* NetworkEvent::Disconnected
RemoveDevice ==
    /\ inTable /\ Guards = {}
    /\ inTable' = FALSE /\ Announce("Detached")
    /\ DropDevice
    /\ UNCHANGED <<setup, inVars, sessVars, crashes, recVars>>

\* watch_network: mDNS withdraws the service, which it may never do, ...
Withdrawn == ~reachable /\ RemoveDevice

\* ... or the token is cancelled.
Cancelled == token /\ RemoveDevice

DevicePass == UNCHANGED <<setup, inVars, sessVars, ev, inTable, crashes, recVars>>

Heartbeat == setup.net /\ HbStep /\ DevicePass

\* Opening the device and renewing its assertion need a pair record.
DeviceStep ==
    /\ setup.net
    /\ \/ NetworkChanges \/ OpenFails \/ OpenDone
       \/ record = "good" /\ (ConnectHeartbeat \/ Renewed)
       \/ RenewWakes \/ RenewSwap \/ RenewFails
    /\ DevicePass

RecordPass == UNCHANGED <<setup, inVars, sessVars, ev, inTable, crashes, devVars>>

BlockingPool(a) == FileStep(a) /\ UNCHANGED pfVars /\ RecordPass

PreflightTask == setup.pf /\ PreflightStep /\ RecordPass

Phone == setup.pf /\ (PreflightCancelled \/ UserDecides) /\ RecordPass

\* The daemon is killed and started again: only the files are left.  Clients that have
\* something to ask come back.
Crash ==
    /\ crashes < setup.crashes
    /\ crashes' = crashes + 1
    /\ fop' = [a \in Actors |-> "idle"]
    /\ ppc' = "off" /\ note' = FALSE
    /\ pc' = [c \in Clients |-> IF left[c] = 0 \/ closed[c] THEN "ended" ELSE "header"]
    /\ inbox' = [c \in Clients |-> "none"]
    /\ sync' = [c \in Clients |-> TRUE] /\ req' = [c \in Clients |-> "none"]
    /\ out' = [c \in Clients |-> <<>>] /\ next' = [c \in Clients |-> "header"]
    /\ ev' = [c \in Clients |-> <<>>] /\ inTable' = FALSE
    /\ dev' = "off" /\ hb' = "off" /\ failed' = FALSE /\ strikes' = 0 /\ byHb' = FALSE
    /\ token' = FALSE /\ renew' = "off" /\ held' = 0
    /\ UNCHANGED <<setup, left, closed, envVars, buid, made, settled, record, fres, user>>

Next ==
    \/ \E c \in Clients : SendRequest(c) \/ ClientCloses(c) \/ SessionStep(c) \/ CopyEnds(c)
    \/ \E a \in Actors : BlockingPool(a)
    \/ InsertDevice \/ Withdrawn \/ Cancelled \/ Heartbeat \/ DeviceStep \/ PreflightTask \/ Phone \/ Crash

\* Tasks run when they can, file operations and connection attempts end, and a client
\* reads what it is sent as long as its socket is open.
Fairness ==
    /\ \A c \in Clients : WF_vars(SessionStep(c))
    /\ \A a \in Actors : WF_vars(BlockingPool(a))
    /\ WF_vars(PreflightTask) /\ WF_vars(Heartbeat)
    /\ WF_vars(InsertDevice) /\ WF_vars(Cancelled)

Spec == Init /\ [][Next]_vars /\ Fairness

------------------------------------------------------------------------------

\* A device whose token is cancelled, or that has left the network for good, leaves the
\* table: two heartbeats fail, and no connect, snapshot or attach message holds its
\* guard for ever.
DeadDeviceLeaves ==
    inTable /\ (token \/ (~reachable /\ changes = MaxChanges)) ~> ~inTable

\* A session that must end: its client has gone, or its device has.
Doomed(c) == closed[c] \/ (token /\ pc[c] \in {"connecting", "copy"})

\* The two modes that do not look at the client's socket.
Unnoticed(c) ==
    \/ pc[c] = "copy" /\ ~token
    \/ pc[c] = "events" /\ \A i \in DOMAIN ev[c] : ev[c][i] # "Detached"

\* The session of a client that has gone ends whatever it was doing (a copy at the latest
\* with the device's token, a listener with the next Detached event); copying ends with the
\* token even if that was cancelled while the connection was made; and a preflight ends
\* once the user has denied or a notification of his trust is on its way.
TasksEnd ==
    /\ \A c \in Clients : Doomed(c) ~> (pc[c] = "ended" \/ Unnoticed(c))
    /\ ppc = "wait" /\ (user = "denied" \/ note) ~> ppc # "wait"
=============================================================================
