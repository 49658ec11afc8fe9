------------------------- MODULE ClientSession_proofs -------------------------
(***************************************************************************)
(* Sessions, the network device and the files below LOCKDOWN_PATH, proved   *)
(* for any number of clients, requests, network changes and crashes.        *)
(***************************************************************************)
EXTENDS ClientSession, TLAPS

(* The inductive invariant.                                                  *)

\* The heartbeat task counts to two, and has cancelled the token only if it has; a device
\* that is not open has no task.
HeartInv ==
    /\ hb # "ended" => ~byHb /\ (failed => strikes = 1) /\ (~failed => strikes = 0)
    /\ byHb => strikes = 2
    /\ dev \in {"off", "asserting"} => hb = "off"

\* One power assertion, and a second one only until they are swapped.
PowerInv == renew # "swap" => held <= 1

\* There is an identifier only once one was made, and nobody makes another while the one
\* there is has settled.
BuidInv ==
    /\ buid = NoFile => made = 0 /\ \A a \in Actors : fop[a] # "fill"
    /\ settled # 0 => /\ buid = settled /\ settled > 0
                      /\ \A a \in Actors : fop[a] \notin {"create", "fill"}

\* A session that writes has something to write, one that waits for a file has a request
\* about files.
WorkInv ==
    /\ pc \in [Clients -> {"header", "swallow", "file", "lookup", "connecting", "copy",
                           "snap", "events", "write", "ended"}]
    /\ req \in [Clients -> Requests \cup {"none"}]
    /\ out \in [Clients -> Seq(Messages)]
    /\ next \in [Clients -> {"header", "ended", "copy", "snap", "events"}]
    /\ \A c \in Clients : Len(out[c]) <= 2
    /\ \A c \in Clients : pc[c] = "write" => out[c] # <<>>
    /\ \A c \in Clients : pc[c] = "file" => req[c] \in DOMAIN FileRequests

\* The events a listener has not received yet are those of one device's life; a device
\* in the table is open.
EventInv ==
    /\ ev \in [Clients -> Seq({"Attached", "Detached"})] /\ inTable \in BOOLEAN
    /\ \A c \in Clients : Len(ev[c]) <= 2
    /\ inTable => dev = "up" /\ \A c \in Clients : Len(ev[c]) <= 1
    /\ ~inTable /\ dev # "dropped" => \A c \in Clients : ev[c] = <<>>

\* What clients have sent and may send, and the number of crashes.
InputInv ==
    /\ setup \in Setups
    /\ inbox \in [Clients -> Requests \cup {"none"}] /\ left \in [Clients -> Nat]
    /\ closed \in [Clients -> BOOLEAN] /\ sync \in [Clients -> BOOLEAN]
    /\ crashes \in 0..setup.crashes

SessionInv == TypeOK /\ HeartInv /\ PowerInv /\ BuidInv /\ WorkInv /\ EventInv /\ InputInv

------------------------------------------------------------------------------
(* The network device.                                                       *)

DevInv == DevTypeOK /\ HeartInv /\ PowerInv

\* The daemon is killed: there is no device any more.
DeviceLost ==
    /\ dev' = "off" /\ hb' = "off" /\ failed' = FALSE /\ strikes' = 0 /\ byHb' = FALSE
    /\ token' = FALSE /\ renew' = "off" /\ held' = 0 /\ UNCHANGED envVars

\* A failure of the heartbeat is its first, or its second and last one.
LEMMA StrikeInv ==
    ASSUME DevInv, NEW to \in {"marco", "polo"}, hb \in {"marco", "polo"}, Strike(to), HbPass
    PROVE  DevInv'
  <1> USE DEF DevInv, DevTypeOK, HeartInv, PowerInv
  <1>1. strikes \in {0, 1} /\ strikes' = strikes + 1 BY DEF Strike
  <1>2. dev \notin {"off", "asserting"} OBVIOUS
  <1>3. UNCHANGED <<envVars, dev, renew, held>> BY DEF HbPass
  <1>4. CASE failed
    <2>1. strikes' = 2 BY <1>1, <1>4
    <2>2. token' = TRUE /\ byHb' = TRUE /\ hb' = "ended" /\ UNCHANGED failed BY <1>4 DEF Strike
    <2> QED BY <1>2, <1>3, <2>1, <2>2 DEF envVars
  <1>5. CASE ~failed
    <2>1. strikes' = 1 BY <1>1, <1>5
    <2>2. failed' = TRUE /\ hb' = to /\ UNCHANGED <<token, byHb>> BY <1>5 DEF Strike
    <2> QED BY <1>2, <1>3, <2>1, <2>2 DEF envVars
  <1> QED BY <1>4, <1>5

\* The heartbeat task.
LEMMA HeartbeatInv == DevInv /\ HbStep => DevInv'
  <1> SUFFICES ASSUME DevInv, HbStep PROVE DevInv' OBVIOUS
  <1>1. CASE Marco
    <2>1. CASE Strike("polo") BY <1>1, <2>1, StrikeInv DEF Marco
    <2>2. CASE failed' = FALSE /\ strikes' = 0 /\ hb' = "polo" /\ UNCHANGED <<byHb, token>>
      <3>1. hb = "marco" /\ ~byHb /\ dev \notin {"off", "asserting"} BY <1>1 DEF Marco, DevInv, HeartInv
      <3>2. UNCHANGED <<reachable, changes, dev, renew, held>> BY <1>1 DEF Marco, HbPass, envVars
      <3>3. DevTypeOK'
        <4>1. failed' \in BOOLEAN BY <2>2, Zenon
        <4>2. strikes' \in 0..2 BY <2>2
        <4>3. hb' = "polo" /\ byHb' = byHb /\ token' = token BY <2>2
        <4> QED BY <3>2, <4>1, <4>2, <4>3 DEF DevInv, DevTypeOK
      <3>4. HeartInv' BY <2>2, <3>1, <3>2 DEF HeartInv
      <3> QED BY <3>2, <3>3, <3>4 DEF DevInv, PowerInv
    <2> QED BY <1>1, <2>1, <2>2 DEF Marco
  <1>2. CASE Polo
    <2>1. CASE Strike("marco") BY <1>2, <2>1, StrikeInv DEF Polo
    <2>2. CASE hb' = "marco" /\ UNCHANGED <<failed, strikes, byHb, token>>
      BY <1>2, <2>2 DEF Polo, HbPass, envVars, DevInv, DevTypeOK, HeartInv, PowerInv
    <2> QED BY <1>2, <2>1, <2>2 DEF Polo
  <1> QED BY <1>1, <1>2 DEF HbStep

\* The network, opening the device, the renewal task and the end of the device.
LEMMA DeviceInv ==
    ASSUME DevInv,
           \/ NetworkChanges \/ OpenFails \/ OpenDone \/ ConnectHeartbeat
           \/ Renewed \/ RenewWakes \/ RenewSwap \/ RenewFails
           \/ DropDevice \/ DeviceLost \/ UNCHANGED devVars
    PROVE  DevInv'
  <1> USE DEF DevInv, DevTypeOK, HeartInv, PowerInv, envVars, hbVars, RenewPass
  <1>1. CASE NetworkChanges BY <1>1, DeviceAssumption DEF NetworkChanges
  <1>2. CASE OpenFails BY <1>2 DEF OpenFails
  <1>3. CASE OpenDone BY <1>3 DEF OpenDone
  <1>4. CASE ConnectHeartbeat BY <1>4 DEF ConnectHeartbeat
  <1>5. CASE Renewed BY <1>5 DEF Renewed
  <1>6. CASE RenewWakes BY <1>6 DEF RenewWakes
  <1>7. CASE RenewSwap BY <1>7 DEF RenewSwap
  <1>8. CASE RenewFails BY <1>8 DEF RenewFails
  <1>9. CASE DropDevice BY <1>9 DEF DropDevice
  <1>10. CASE DeviceLost 
    <2>1. DevTypeOK'
      <3>1. failed' \in BOOLEAN /\ byHb' \in BOOLEAN /\ token' \in BOOLEAN BY <1>10, Zenon DEF DeviceLost
      <3>2. strikes' \in 0..2 /\ held' \in 0..2 BY <1>10 DEF DeviceLost
      <3>3. dev' = "off" /\ hb' = "off" /\ renew' = "off" /\ UNCHANGED <<reachable, changes>>
        BY <1>10 DEF DeviceLost
      <3> QED BY <3>1, <3>2, <3>3
    <2>2. HeartInv' BY <1>10, Zenon DEF DeviceLost
    <2>3. PowerInv' BY <1>10 DEF DeviceLost
    <2> QED BY <2>1, <2>2, <2>3
  <1>11. CASE UNCHANGED devVars BY <1>11 DEF devVars
  <1> QED BY <1>1, <1>2, <1>3, <1>4, <1>5, <1>6, <1>7, <1>8, <1>9, <1>10, <1>11

\* A step of a session is no step of the device, and touches of the files only its own
\* operation.
LEMMA SessionLeavesDevice ==
    ASSUME NEW c \in Clients, SessionStep(c) \/ CopyEnds(c)
    PROVE  SessionPass
  BY DEF SessionStep, ReadEof, BadHeader, ReadGarbage, Dispatch, FileDone, Lookup, Connected,
         CopyCancelled, Snapshot, RecvEvent, Write, WriteFails, CopyEnds

\* Every step keeps what is said about the device.
LEMMA DevStep == DevInv /\ [Next]_vars => DevInv'
  <1> SUFFICES ASSUME DevInv, [Next]_vars PROVE DevInv' OBVIOUS
  <1>1. ASSUME NEW c \in Clients, SendRequest(c) \/ ClientCloses(c) PROVE DevInv'
    BY <1>1, DeviceInv DEF SendRequest, ClientCloses
  <1>2. ASSUME NEW c \in Clients, SessionStep(c) \/ CopyEnds(c) PROVE DevInv'
    BY <1>2, SessionLeavesDevice, DeviceInv DEF SessionPass
  <1>3. ASSUME NEW a \in Actors, BlockingPool(a) PROVE DevInv'
    BY <1>3, DeviceInv DEF BlockingPool, RecordPass
  <1>4. CASE InsertDevice \/ PreflightTask \/ Phone
    BY <1>4, DeviceInv DEF InsertDevice, PreflightTask, Phone, RecordPass
  <1>5. CASE Withdrawn \/ Cancelled BY <1>5, DeviceInv DEF Withdrawn, Cancelled, RemoveDevice
  <1>6. CASE Heartbeat BY <1>6, HeartbeatInv DEF Heartbeat
  <1>7. CASE DeviceStep BY <1>7, DeviceInv DEF DeviceStep
  <1>8. CASE Crash
    <2>1. DeviceLost BY <1>8 DEF Crash, DeviceLost
    <2> QED BY <2>1, DeviceInv
  <1>9. CASE UNCHANGED vars BY <1>9, DeviceInv DEF vars
  <1> QED BY <1>1, <1>2, <1>3, <1>4, <1>5, <1>6, <1>7, <1>8, <1>9 DEF Next

------------------------------------------------------------------------------
(* The files.                                                                *)

RecInv == RecTypeOK /\ BuidInv

\* The types of what a file operation does not decide.
PfTypeOK ==
    /\ ppc \in {"off", "record", "remove", "buid", "connect", "pair",
                "observe", "wait", "again", "verify", "save", "ended"}
    /\ user \in {"undecided", "trusted", "denied"} /\ note \in BOOLEAN

\* A step that neither begins, ends nor disturbs the making of an identifier.
LEMMA NoMaking ==
    ASSUME RecInv, UNCHANGED <<buid, made>>,
           record' \in {"none", "empty", "bad", "good"},
           fop' \in [Actors -> FileOps], fres' \in [Actors -> Outcomes],
           PfTypeOK',
           \A a \in Actors : fop'[a] \in {"create", "fill"} => fop'[a] = fop[a],
           \/ settled' = settled
           \/ settled' = buid /\ buid > 0 /\ \A a \in Actors : fop'[a] \notin {"create", "fill"}
    PROVE  RecInv'
  <1>1. settled' \in 0..made
    <2>1. made \in Nat /\ settled \in 0..made /\ buid \in {NoFile, Empty} \cup 1..made
      BY DEF RecInv, RecTypeOK
    <2>2. buid > 0 => buid \in 0..made BY <2>1 DEF NoFile, Empty
    <2> QED BY <2>1, <2>2
  <1>2. RecTypeOK' BY <1>1 DEF RecInv, RecTypeOK, PfTypeOK
  <1>3. (buid = NoFile => made = 0 /\ \A a \in Actors : fop[a] # "fill")' BY DEF RecInv, BuidInv
  <1>4. (settled # 0 => /\ buid = settled /\ settled > 0
                        /\ \A a \in Actors : fop[a] \notin {"create", "fill"})'
    <2>1. CASE settled' = settled BY <2>1 DEF RecInv, BuidInv
    <2>2. CASE settled' = buid /\ buid > 0 /\ \A a \in Actors : fop'[a] \notin {"create", "fill"}
      BY <2>2
    <2> QED BY <2>1, <2>2
  <1> QED BY <1>2, <1>3, <1>4 DEF RecInv, BuidInv

\* An operation that ends without having made an identifier.
LEMMA OperationEnds ==
    ASSUME RecInv, NEW a \in Actors, NEW res \in Outcomes, UNCHANGED <<buid, made, pfVars>>,
           record' \in {"none", "empty", "bad", "good"}, fop' \in [Actors -> FileOps],
           fop'[a] = "idle",
           \A b \in Actors \ {a} : fop'[b] \in {"create", "fill"} => fop'[b] = fop[b],
           Outcome(a, res)
    PROVE  RecInv'
  <1>1. fres' \in [Actors -> Outcomes] BY DEF RecInv, RecTypeOK, Outcome
  <1>2. PfTypeOK' BY DEF RecInv, RecTypeOK, PfTypeOK, pfVars
  <1>3. settled' = settled \/ (settled' = buid /\ buid > 0 /\ ~OthersAtIt(a)) BY DEF Outcome
  <1>4. ~OthersAtIt(a) => \A b \in Actors : fop'[b] \notin {"create", "fill"} BY DEF OthersAtIt
  <1>5. \A b \in Actors : fop'[b] \in {"create", "fill"} => fop'[b] = fop[b] OBVIOUS
  <1> QED BY <1>1, <1>2, <1>3, <1>4, <1>5, NoMaking

\* read_system_buid finds the file or not.
LEMMA ExistsInv ==
    ASSUME RecInv, NEW a \in Actors, Exists(a), UNCHANGED pfVars
    PROVE  RecInv'
  <1> USE DEF RecInv
  <1>1. /\ fop \in [Actors -> FileOps] /\ UNCHANGED <<buid, made, settled, record, fres>>
        /\ fop' = [fop EXCEPT ![a] = IF buid = NoFile THEN "create" ELSE "load"]
    BY DEF RecTypeOK, Exists
  <1>2. fop' \in [Actors -> FileOps] BY <1>1 DEF FileOps
  <1>3. PfTypeOK' BY DEF RecTypeOK, PfTypeOK, pfVars
  <1>4. CASE buid = NoFile
    <2>1. made = 0 /\ settled = 0 /\ \A b \in Actors : fop[b] # "fill" BY <1>4 DEF BuidInv, NoFile
    <2>2. RecTypeOK' BY <1>1, <1>2, <1>3 DEF RecTypeOK, PfTypeOK
    <2>3. \A b \in Actors : fop'[b] # "fill" BY <1>1, <1>4, <2>1
    <2> QED BY <1>1, <2>1, <2>2, <2>3 DEF BuidInv
  <1>5. CASE buid # NoFile
    <2>1. \A b \in Actors : fop'[b] \in {"create", "fill"} => fop'[b] = fop[b] BY <1>1, <1>5
    <2>2. record' \in {"none", "empty", "bad", "good"} /\ fres' \in [Actors -> Outcomes]
      BY <1>1 DEF RecTypeOK
    <2> QED BY <1>1, <1>2, <1>3, <2>1, <2>2, NoMaking
  <1> QED BY <1>4, <1>5

\* The test for the file fails: nothing is settled from there on.
LEMMA ExistsFailsInv ==
    ASSUME RecInv, NEW a \in Actors, ExistsFails(a), UNCHANGED pfVars
    PROVE  RecInv'
  <1> USE DEF RecInv
  <1>1. /\ fop \in [Actors -> FileOps] /\ UNCHANGED <<buid, made, record, fres>>
        /\ fop' = [fop EXCEPT ![a] = "create"] /\ settled' = 0
    BY DEF RecTypeOK, ExistsFails
  <1>2. fop' \in [Actors -> FileOps] BY <1>1 DEF FileOps
  <1>3. settled' \in 0..made' BY <1>1 DEF RecTypeOK
  <1>4. RecTypeOK' BY <1>1, <1>2, <1>3 DEF RecTypeOK, pfVars
  <1>5. \A b \in Actors : fop'[b] = "fill" => fop[b] = "fill" BY <1>1
  <1> QED BY <1>1, <1>4, <1>5 DEF BuidInv

\* The file is truncated or created empty.
LEMMA CreateInv ==
    ASSUME RecInv, NEW a \in Actors, Create(a), UNCHANGED pfVars
    PROVE  RecInv'
  <1> USE DEF RecInv
  <1>1. /\ fop \in [Actors -> FileOps] /\ fop[a] = "create" /\ UNCHANGED <<made, settled, record, fres>>
        /\ fop' = [fop EXCEPT ![a] = "fill"] /\ buid' = Empty
    BY DEF RecTypeOK, Create
  <1>2. fop' \in [Actors -> FileOps] BY <1>1 DEF FileOps
  <1>3. settled = 0 BY <1>1 DEF BuidInv
  <1>4. buid' # NoFile BY <1>1 DEF Empty, NoFile
  <1>5. RecTypeOK' BY <1>1, <1>2 DEF RecTypeOK, pfVars
  <1> QED BY <1>1, <1>3, <1>4, <1>5 DEF BuidInv

\* A new identifier is written.
LEMMA FillInv ==
    ASSUME RecInv, NEW a \in Actors, Fill(a), UNCHANGED pfVars
    PROVE  RecInv'
  <1> USE DEF RecInv
  <1>1. /\ fop \in [Actors -> FileOps] /\ fres \in [Actors -> Outcomes] /\ fop[a] = "fill"
        /\ UNCHANGED record /\ made' = made + 1 /\ buid' = made + 1
        /\ fop' = [fop EXCEPT ![a] = "idle"] /\ fres' = [fres EXCEPT ![a] = "ok"]
    BY DEF RecTypeOK, Fill, Returns, Outcome
  <1>2. settled = 0 BY <1>1 DEF BuidInv
  <1>3. settled' = IF buid' > 0 /\ ~OthersAtIt(a) THEN buid' ELSE 0
    BY <1>2 DEF Fill, Returns, Outcome
  <1>4. made \in Nat BY DEF RecTypeOK
  <1>5. settled' \in {0, made + 1} /\ buid' > 0 /\ buid' # NoFile
    BY <1>1, <1>3, <1>4 DEF NoFile
  <1>6. fop' \in [Actors -> FileOps] /\ fres' \in [Actors -> Outcomes]
    BY <1>1 DEF FileOps, Outcomes
  <1>7. RecTypeOK'
    <2>1. made' \in Nat /\ settled' \in 0..made' BY <1>1, <1>4, <1>5
    <2>2. buid' \in 1..made' BY <1>1, <1>4
    <2> QED BY <1>1, <1>6, <2>1, <2>2 DEF RecTypeOK, pfVars
  <1>8. settled' # 0 => /\ buid' = settled' /\ settled' > 0
                        /\ \A b \in Actors : fop'[b] \notin {"create", "fill"}
    BY <1>1, <1>3, <1>4 DEF OthersAtIt
  <1> QED BY <1>5, <1>7, <1>8 DEF BuidInv

\* The blocking pool.
LEMMA FileStepInv ==
    ASSUME RecInv, NEW a \in Actors, FileStep(a), UNCHANGED pfVars
    PROVE  RecInv'
  <1>1. /\ fop \in [Actors -> FileOps] /\ fres \in [Actors -> Outcomes]
        /\ record \in {"none", "empty", "bad", "good"}
    BY DEF RecInv, RecTypeOK
  <1>2. CASE Exists(a) BY <1>2, ExistsInv
  <1>3. CASE Create(a) BY <1>3, CreateInv
  <1>4. CASE Fill(a) BY <1>4, FillInv
  <1>5. ASSUME NEW res \in Outcomes, Returns(a, res), UNCHANGED <<buid, made>>,
               record' \in {"none", "empty", "bad", "good"}
        PROVE  RecInv'
    <2>1. fop' = [fop EXCEPT ![a] = "idle"] /\ Outcome(a, res) BY <1>5 DEF Returns
    <2>2. fop' \in [Actors -> FileOps] /\ fop'[a] = "idle" BY <1>1, <2>1 DEF FileOps
    <2>3. \A b \in Actors \ {a} : fop'[b] = fop[b] BY <1>1, <2>1
    <2> QED BY <1>5, <2>1, <2>2, <2>3, OperationEnds
  <1>6. CASE Load(a)
    <2>1. \E res \in Outcomes : Returns(a, res) BY <1>6 DEF Load, Outcomes
    <2> QED BY <1>1, <1>5, <1>6, <2>1 DEF Load
  <1>7. CASE Get(a)
    <2>1. \E res \in Outcomes : Returns(a, res) BY <1>7 DEF Get, Outcomes
    <2> QED BY <1>1, <1>5, <1>7, <2>1 DEF Get
  <1>8. CASE Put(a)
    <2>1. /\ record' = "empty" /\ fop' = [fop EXCEPT ![a] = "putfill"]
          /\ UNCHANGED <<buid, made, settled, fres>>
      BY <1>8 DEF Put
    <2>2. fop' \in [Actors -> FileOps] /\ PfTypeOK'
      BY <1>1, <2>1 DEF FileOps, RecInv, RecTypeOK, PfTypeOK, pfVars
    <2>3. \A b \in Actors : fop'[b] \in {"create", "fill"} => fop'[b] = fop[b] BY <1>1, <2>1
    <2> QED BY <1>1, <2>1, <2>2, <2>3, NoMaking
  <1>9. CASE PutFill(a)
    <2>1. "ok" \in Outcomes BY DEF Outcomes
    <2> QED BY <1>5, <1>9, <2>1 DEF PutFill
  <1>10. CASE PutLost(a)
    <2>1. "ok" \in Outcomes BY DEF Outcomes
    <2> QED BY <1>1, <1>5, <1>10, <2>1 DEF PutLost
  <1>11. CASE RemoveFile(a)
    <2>1. \E res \in Outcomes : Outcome(a, res) BY <1>11 DEF RemoveFile, Outcomes
    <2>2. fop' = [b \in Actors |-> CASE b = a -> "idle"
                                   [] fop[b] = "putfill" -> "putlost"
                                   [] OTHER -> fop[b]]
      BY <1>11 DEF RemoveFile
    <2>3. \A b \in Actors : fop'[b] \in {"idle", "putlost", fop[b]} BY <2>2
    <2>4. fop'[a] = "idle"
      <3>1. fop[a] = "remove" BY <1>11 DEF RemoveFile
      <3> QED BY <2>2, <3>1
    <2>5. fop' \in [Actors -> FileOps] BY <1>1, <2>2 DEF FileOps
    <2>6. \A b \in Actors \ {a} : fop'[b] \in {"create", "fill"} => fop'[b] = fop[b] BY <2>3
    <2> QED BY <1>11, <2>1, <2>4, <2>5, <2>6, OperationEnds DEF RemoveFile
  <1>12. CASE ExistsFails(a) BY <1>12, ExistsFailsInv
  <1>13. CASE FileFails(a)
    <2>1. \E res \in Outcomes : Returns(a, res) BY <1>13 DEF FileFails, Outcomes
    <2> QED BY <1>1, <1>5, <1>13, <2>1 DEF FileFails
  <1> QED
    BY <1>2, <1>3, <1>4, <1>6, <1>7, <1>8, <1>9, <1>10, <1>11, <1>12, <1>13 DEF FileStep

\* A task that begins an operation on a file, which is never to write an identifier.
LEMMA BeginInv ==
    ASSUME RecInv, NEW a \in Actors, NEW op \in {"exists", "get", "put", "remove"},
           Begin(a, op), PfTypeOK'
    PROVE  RecInv'
  <1>1. /\ fop \in [Actors -> FileOps] /\ fres \in [Actors -> Outcomes]
        /\ record \in {"none", "empty", "bad", "good"}
    BY DEF RecInv, RecTypeOK
  <1>2. /\ fop' = [fop EXCEPT ![a] = op] /\ fres' = [fres EXCEPT ![a] = "none"]
        /\ UNCHANGED <<buid, made, settled, record>>
    BY DEF Begin
  <1>3. fop' \in [Actors -> FileOps] /\ fres' \in [Actors -> Outcomes]
    BY <1>1, <1>2 DEF FileOps, Outcomes
  <1>4. \A b \in Actors : fop'[b] \in {"create", "fill"} => fop'[b] = fop[b] BY <1>1, <1>2
  <1> QED BY <1>1, <1>2, <1>3, <1>4, NoMaking

\* A step that only moves the preflight task.
LEMMA PfInv == ASSUME RecInv, UNCHANGED fileVars, PfTypeOK' PROVE RecInv'
  BY NoMaking DEF RecInv, RecTypeOK, fileVars

\* The preflight task and the user of the phone.
LEMMA PreflightInv ==
    ASSUME RecInv, PreflightStep \/ PreflightCancelled \/ UserDecides
    PROVE  RecInv'
  <1> DEFINE Ppcs == {"off", "record", "remove", "buid", "connect", "pair",
                      "observe", "wait", "again", "verify", "save", "ended"}
  <1>1. PfTypeOK /\ Preflight \in Actors BY RecordAssumption DEF RecInv, RecTypeOK, PfTypeOK
  <1>2. ASSUME NEW to \in Ppcs, Goto(to) PROVE PfTypeOK' BY <1>1, <1>2 DEF Goto, PfTypeOK
  <1>3. ASSUME NEW to \in Ppcs, NEW op \in {"exists", "get", "put", "remove"}, Await(op, to)
        PROVE  RecInv'
    BY <1>1, <1>2, <1>3, BeginInv DEF Await
  <1>4. ASSUME NEW to \in Ppcs, Goto(to), UNCHANGED fileVars PROVE RecInv'
    BY <1>2, <1>4, PfInv
  <1>5. CASE Spawn BY <1>3, <1>5 DEF Spawn
  <1>6. CASE RecordRead BY <1>3, <1>4, <1>6 DEF RecordRead
  <1>7. CASE RecordRemoved BY <1>3, <1>4, <1>7 DEF RecordRemoved
  <1>8. CASE BuidRead BY <1>4, <1>8 DEF BuidRead
  <1>9. CASE Lockdown BY <1>4, <1>9 DEF Lockdown
  <1>10. CASE PairOnce BY <1>4, <1>10 DEF PairOnce
  <1>11. CASE Observe BY <1>4, <1>11 DEF Observe
  <1>12. CASE RequestPair
    <2>1. PfTypeOK' BY <1>1, <1>12, Zenon DEF RequestPair, PfTypeOK
    <2> QED BY <1>12, <2>1, PfInv DEF RequestPair
  <1>13. CASE Timer BY <1>4, <1>13 DEF Timer
  <1>14. CASE PairAgain BY <1>4, <1>14 DEF PairAgain
  <1>15. CASE Verify BY <1>3, <1>4, <1>15 DEF Verify
  <1>16. CASE Saved BY <1>4, <1>16 DEF Saved
  <1>17. CASE PreflightCancelled
    <2>1. /\ fop' = [fop EXCEPT ![Preflight] = IF @ \in {"exists", "get", "load"} THEN "idle" ELSE @]
          /\ UNCHANGED <<buid, made, settled, record, fres>>
      BY <1>17 DEF PreflightCancelled
    <2>2. /\ fop \in [Actors -> FileOps] /\ fres \in [Actors -> Outcomes]
          /\ record \in {"none", "empty", "bad", "good"}
      BY DEF RecInv, RecTypeOK
    <2>3. fop' \in [Actors -> FileOps] BY <2>1, <2>2 DEF FileOps
    <2>4. \A b \in Actors : fop'[b] \in {"create", "fill"} => fop'[b] = fop[b] BY <1>1, <2>1, <2>2
    <2>5. PfTypeOK' BY <1>2, <1>17 DEF PreflightCancelled
    <2> QED BY <2>1, <2>2, <2>3, <2>4, <2>5, NoMaking
  <1>18. CASE UserDecides
    <2>1. note' \in BOOLEAN BY <1>1, <1>18, Zenon DEF UserDecides, PfTypeOK
    <2>2. user' \in {"trusted", "denied"} /\ ppc' = ppc /\ UNCHANGED fileVars
      BY <1>18 DEF UserDecides
    <2>3. PfTypeOK' BY <1>1, <2>1, <2>2 DEF PfTypeOK
    <2> QED BY <2>2, <2>3, PfInv
  <1> QED
    BY <1>5, <1>6, <1>7, <1>8, <1>9, <1>10, <1>11, <1>12, <1>13, <1>14, <1>15, <1>16, <1>17, <1>18
    DEF PreflightStep

\* A session leaves the files alone, begins an operation, or takes the outcome of one.
LEMMA SessionFiles ==
    ASSUME NEW c \in Clients, SessionStep(c) \/ CopyEnds(c)
    PROVE  \/ UNCHANGED fileVars
           \/ \E r \in DOMAIN FileRequests : Begin(c, FileRequests[r])
           \/ /\ fres' = [fres EXCEPT ![c] = "none"]
              /\ UNCHANGED <<buid, made, settled, record, fop>>
  BY DEF SessionStep, ReadEof, BadHeader, ReadGarbage, Dispatch, FileDone, Lookup, Connected,
         CopyCancelled, Snapshot, RecvEvent, Write, WriteFails, CopyEnds

\* Every step keeps what is said about the files.
LEMMA RecStep == RecInv /\ [Next]_vars => RecInv'
  <1> SUFFICES ASSUME RecInv, [Next]_vars PROVE RecInv' OBVIOUS
  <1>1. UNCHANGED recVars => RecInv'
    <2> SUFFICES ASSUME UNCHANGED recVars PROVE RecInv' OBVIOUS
    <2>1. UNCHANGED fileVars /\ PfTypeOK' BY DEF RecInv, RecTypeOK, PfTypeOK, recVars, pfVars
    <2> QED BY <2>1, PfInv
  <1>2. ASSUME NEW c \in Clients, SendRequest(c) \/ ClientCloses(c) PROVE RecInv'
    BY <1>1, <1>2 DEF SendRequest, ClientCloses
  <1>3. ASSUME NEW c \in Clients, SessionStep(c) \/ CopyEnds(c) PROVE RecInv'
    <2>1. c \in Actors BY SessionAssumption
    <2>2. UNCHANGED pfVars BY <1>3, SessionLeavesDevice DEF SessionPass
    <2>3. PfTypeOK' BY <2>2 DEF RecInv, RecTypeOK, PfTypeOK, pfVars
    <2>4. CASE UNCHANGED fileVars BY <2>3, <2>4, PfInv
    <2>5. ASSUME NEW r \in DOMAIN FileRequests, Begin(c, FileRequests[r]) PROVE RecInv'
      <3>1. FileRequests[r] \in {"exists", "get", "put", "remove"} BY DEF FileRequests
      <3> QED BY <2>1, <2>3, <2>5, <3>1, BeginInv
    <2>6. CASE fres' = [fres EXCEPT ![c] = "none"] /\ UNCHANGED <<buid, made, settled, record, fop>>
      <3>1. fres' \in [Actors -> Outcomes] BY <2>6 DEF RecInv, RecTypeOK, Outcomes
      <3> QED BY <2>3, <2>6, <3>1, NoMaking DEF RecInv, RecTypeOK
    <2> QED BY <1>3, <2>4, <2>5, <2>6, SessionFiles
  <1>4. ASSUME NEW a \in Actors, BlockingPool(a) PROVE RecInv' BY <1>4, FileStepInv DEF BlockingPool
  <1>5. CASE InsertDevice \/ Withdrawn \/ Cancelled
    BY <1>1, <1>5 DEF InsertDevice, Withdrawn, Cancelled, RemoveDevice
  <1>6. CASE Heartbeat \/ DeviceStep BY <1>1, <1>6 DEF Heartbeat, DeviceStep, DevicePass
  <1>7. CASE PreflightTask \/ Phone BY <1>7, PreflightInv DEF PreflightTask, Phone
  <1>8. CASE Crash
    <2>1. /\ fop' = [a \in Actors |-> "idle"] /\ ppc' = "off" /\ note' = FALSE
          /\ UNCHANGED <<buid, made, settled, record, fres, user>>
      BY <1>8 DEF Crash
    <2>2. fop' \in [Actors -> FileOps] /\ \A a \in Actors : fop'[a] \notin {"create", "fill"}
      BY <2>1 DEF FileOps
    <2>3. note' \in BOOLEAN BY <2>1, Zenon
    <2>4. PfTypeOK' BY <2>1, <2>3 DEF RecInv, RecTypeOK, PfTypeOK
    <2> QED BY <2>1, <2>2, <2>4, NoMaking DEF RecInv, RecTypeOK
  <1>9. CASE UNCHANGED vars BY <1>1, <1>9 DEF vars
  <1> QED BY <1>2, <1>3, <1>4, <1>5, <1>6, <1>7, <1>8, <1>9 DEF Next

------------------------------------------------------------------------------
(* The sessions.                                                             *)

\* What handlers answer are one or two messages, or none.
LEMMA AnswersAreMessages ==
    \A r \in DOMAIN Answers : Answers[r] \in Seq(Messages) /\ Len(Answers[r]) <= 2
  <1>1. \A m \in Messages : <<m>> \in Seq(Messages) /\ Len(<<m>>) <= 2 OBVIOUS
  <1>2. <<>> \in Seq(Messages) /\ Len(<<>>) <= 2 OBVIOUS
  <1>3. \A r \in DOMAIN Answers : Answers[r] = <<>> \/ \E m \in Messages : Answers[r] = <<m>>
    <2>1. DOMAIN Answers = {"list", "listeners", "othertype", "invalid", "nodevice", "noport",
                            "badid", "badplist", "binary"}
      BY DEF Answers
    <2>2. /\ Answers["list"] = <<"DeviceList">> /\ Answers["listeners"] = <<"ListenerList">>
          /\ Answers["othertype"] = <<"BadCommand">> /\ Answers["invalid"] = <<"InvalidInput">>
          /\ Answers["nodevice"] = <<"BadDevice">> /\ Answers["noport"] = <<"BadCommand">>
          /\ Answers["badid"] = <<"BadCommand">>
          /\ Answers["badplist"] = <<>> /\ Answers["binary"] = <<>>
      BY DEF Answers
    <2>3. {"DeviceList", "ListenerList", "BadCommand", "InvalidInput", "BadDevice"} \subseteq Messages
      BY DEF Messages
    <2> HIDE DEF Answers
    <2> QED BY <2>1, <2>2, <2>3, Zenon
  <1> QED BY <1>1, <1>2, <1>3

\* The answers of the handlers that use files.
LEMMA FileAnswersAreMessages ==
    ASSUME NEW r \in DOMAIN FileRequests, NEW res \in Outcomes
    PROVE  FileAnswer(r, res) \in Seq(Messages) /\ Len(FileAnswer(r, res)) <= 2
  <1>1. \A m \in Messages : <<m>> \in Seq(Messages) /\ Len(<<m>>) <= 2 OBVIOUS
  <1>2. <<>> \in Seq(Messages) /\ Len(<<>>) <= 2 OBVIOUS
  <1>3. Paired \o <<"OK">> \in Seq(Messages) /\ Len(Paired \o <<"OK">>) <= 2
    BY SMT DEF Paired, Messages
  <1>4. <<>> \o <<"OK">> \in Seq(Messages) /\ Len(<<>> \o <<"OK">>) <= 2 BY SMT DEF Messages
  <1>5. r \in {"readbuid", "read", "save", "savedev", "delete"} BY DEF FileRequests
  <1> QED
    BY <1>1, <1>2, <1>3, <1>4, <1>5
    DEF FileAnswer, BuidAnswer, ReadAnswer, SaveAnswer, DeleteAnswer, Messages, Outcomes

\* The session of c answers: it writes, or goes on when there is nothing to write.
LEMMA RespondInv ==
    ASSUME WorkInv, NEW c \in Clients, NEW r \in Requests \cup {"none"},
           NEW msgs \in Seq(Messages), Len(msgs) <= 2,
           NEW nxt \in {"header", "ended", "copy", "snap", "events"},
           Respond(c, r, msgs, nxt)
    PROVE  WorkInv'
  <1> USE DEF WorkInv
  <1>1. out' = [out EXCEPT ![c] = msgs] BY DEF Respond
  <1>2. CASE msgs = <<>>
    <2>1. /\ pc' = [pc EXCEPT ![c] = nxt] /\ req' = [req EXCEPT ![c] = "none"]
          /\ next' = [next EXCEPT ![c] = "header"]
      BY <1>2 DEF Respond, SessionGoto, Forget, Keep
    <2> QED BY <1>1, <2>1
  <1>3. CASE msgs # <<>>
    <2>1. /\ pc' = [pc EXCEPT ![c] = "write"] /\ req' = [req EXCEPT ![c] = r]
          /\ next' = [next EXCEPT ![c] = nxt]
      BY <1>3 DEF Respond, SessionGoto, Keep
    <2> QED BY <1>1, <1>3, <2>1
  <1> QED BY <1>2, <1>3

\* It goes somewhere where it has nothing to write.
LEMMA GotoInv ==
    ASSUME WorkInv, NEW c \in Clients,
           NEW to \in {"header", "swallow", "lookup", "connecting", "copy", "snap", "events", "ended"},
           SessionGoto(c, to), UNCHANGED <<req, out, next>>
    PROVE  WorkInv'
  BY DEF WorkInv, SessionGoto

\* Steps of a session keep what is said about its work.
LEMMA SessionWork ==
    ASSUME WorkInv, RecTypeOK, InputInv, EventInv, NEW c \in Clients, SessionStep(c) \/ CopyEnds(c)
    PROVE  WorkInv'
  <1>1. \A m \in Messages : <<m>> \in Seq(Messages) /\ Len(<<m>>) <= 2 OBVIOUS
  <1>2. <<>> \in Seq(Messages) /\ Len(<<>>) <= 2 OBVIOUS
  <1>3. {"connect", "listen"} \subseteq Requests BY DEF Requests
  <1>4. CASE ReadEof(c) \/ ReadGarbage(c) \/ CopyCancelled(c) \/ CopyEnds(c)
    BY <1>4, GotoInv DEF ReadEof, ReadGarbage, CopyCancelled, CopyEnds
  <1>5. CASE BadHeader(c) BY <1>5 DEF BadHeader, WorkInv
  <1>6. CASE Dispatch(c)
    <2> DEFINE r == inbox[c]
    <2>1. r \in Requests \cup {"none"} BY DEF InputInv
    <2>2. CASE r \in DOMAIN Answers /\ Respond(c, r, Answers[r], "header")
      BY <2>1, <2>2, AnswersAreMessages, RespondInv
    <2>3. CASE /\ r \in DOMAIN FileRequests
               /\ SessionGoto(c, "file") /\ Keep(c, r, "header") /\ UNCHANGED out
      <3>1. /\ pc' = [pc EXCEPT ![c] = "file"] /\ req' = [req EXCEPT ![c] = r]
            /\ next' = [next EXCEPT ![c] = "header"] /\ out' = out
        BY <2>3 DEF SessionGoto, Keep
      <3> HIDE DEF r
      <3> QED BY <2>1, <2>3, <3>1 DEF WorkInv
    <2>4. CASE SessionGoto(c, "lookup") /\ UNCHANGED <<req, out, next>> BY <2>4, GotoInv
    <2>5. CASE r = "listen" /\ Respond(c, r, <<"OK">>, "snap")
      <3>1. <<"OK">> \in Seq(Messages) /\ Len(<<"OK">>) <= 2 BY <1>1 DEF Messages
      <3> QED BY <2>1, <2>5, <3>1, RespondInv
    <2> QED BY <1>6, <2>2, <2>3, <2>4, <2>5 DEF Dispatch
  <1>7. CASE FileDone(c)
    <2> DEFINE a == FileAnswer(req[c], fres[c])
    <2>1. req[c] \in DOMAIN FileRequests /\ req[c] \in Requests \cup {"none"}
      BY <1>7 DEF FileDone, WorkInv
    <2>2. fres[c] \in Outcomes BY SessionAssumption DEF RecTypeOK
    <2>3. a \in Seq(Messages) /\ Len(a) <= 2 BY <2>1, <2>2, FileAnswersAreMessages
    <2>4. Respond(c, req[c], a, "header") BY <1>7 DEF FileDone
    <2> HIDE DEF a
    <2> QED BY <2>1, <2>3, <2>4, RespondInv
  <1>8. CASE Lookup(c)
    <2>1. <<"BadDevice">> \in Seq(Messages) /\ Len(<<"BadDevice">>) <= 2 BY <1>1 DEF Messages
    <2>2. CASE SessionGoto(c, "connecting") /\ UNCHANGED <<req, out, next>> BY <2>2, GotoInv
    <2>3. CASE Respond(c, "connect", <<"BadDevice">>, "ended") BY <1>3, <2>1, <2>3, RespondInv
    <2> QED BY <1>8, <2>2, <2>3 DEF Lookup
  <1>9. CASE Connected(c)
    <2>1. /\ <<"OK">> \in Seq(Messages) /\ Len(<<"OK">>) <= 2
          /\ <<"Refused">> \in Seq(Messages) /\ Len(<<"Refused">>) <= 2
      BY <1>1 DEF Messages
    <2>2. CASE Respond(c, "connect", <<"OK">>, "copy") BY <1>3, <2>1, <2>2, RespondInv
    <2>3. CASE Respond(c, "connect", <<"Refused">>, "ended") BY <1>3, <2>1, <2>3, RespondInv
    <2> QED BY <1>9, <2>2, <2>3 DEF Connected
  <1>10. CASE Snapshot(c)
    <2> DEFINE a == IF inTable THEN <<"Attached">> ELSE <<>>
    <2>1. <<"Attached">> \in Seq(Messages) /\ Len(<<"Attached">>) <= 2 BY <1>1 DEF Messages
    <2>2. a \in Seq(Messages) /\ Len(a) <= 2 BY <1>2, <2>1
    <2>3. Respond(c, "listen", a, "events") BY <1>10 DEF Snapshot
    <2> HIDE DEF a
    <2> QED BY <1>3, <2>2, <2>3, RespondInv
  <1>11. CASE RecvEvent(c)
    <2>1. Head(ev[c]) \in {"Attached", "Detached"}
      <3>1. ev[c] \in Seq({"Attached", "Detached"}) /\ ev[c] # <<>> BY <1>11 DEF RecvEvent, EventInv
      <3> QED BY <3>1
    <2> DEFINE g == Head(ev[c]) = "Attached" /\ ~inTable
               a == IF g THEN <<>> ELSE <<Head(ev[c])>>
    <2>2. <<Head(ev[c])>> \in Seq(Messages) /\ Len(<<Head(ev[c])>>) <= 2
      BY <1>1, <2>1 DEF Messages
    <2>3. a \in Seq(Messages) /\ Len(a) <= 2 BY <1>2, <2>2
    <2>4. Respond(c, "listen", a, "events") BY <1>11 DEF RecvEvent
    <2> HIDE DEF a
    <2> QED BY <1>3, <2>3, <2>4, RespondInv
  <1>12. CASE Write(c)
    <2>1. /\ out[c] \in Seq(Messages) /\ out[c] # <<>> /\ Len(out[c]) <= 2
          /\ req[c] \in Requests \cup {"none"}
          /\ next[c] \in {"header", "ended", "copy", "snap", "events"}
      BY <1>12 DEF Write, WorkInv
    <2>2. Tail(out[c]) \in Seq(Messages) /\ Len(Tail(out[c])) <= 2 BY <2>1
    <2>3. Respond(c, req[c], Tail(out[c]), next[c]) BY <1>12 DEF Write
    <2> QED BY <2>1, <2>2, <2>3, RespondInv
  <1>13. CASE WriteFails(c)
    <2>1. /\ out' = [out EXCEPT ![c] = <<>>] /\ req' = [req EXCEPT ![c] = "none"]
          /\ next' = [next EXCEPT ![c] = "header"]
          /\ \E to \in {"header", "ended"} : pc' = [pc EXCEPT ![c] = to]
      BY <1>13 DEF WriteFails, SessionGoto, Forget, Keep
    <2> QED BY <1>2, <2>1 DEF WorkInv
  <1> QED
    BY <1>4, <1>5, <1>6, <1>7, <1>8, <1>9, <1>10, <1>11, <1>12, <1>13 DEF SessionStep

\* Steps of a session keep what is said about events and input.
LEMMA SessionInput ==
    ASSUME EventInv, InputInv, NEW c \in Clients, SessionStep(c) \/ CopyEnds(c)
    PROVE  EventInv' /\ InputInv'
  <1>1. /\ UNCHANGED <<setup, left, closed, inTable, crashes, dev>>
    BY SessionLeavesDevice DEF SessionPass, devVars
  <1>2. /\ inbox' = inbox \/ inbox' = [inbox EXCEPT ![c] = "none"]
        /\ sync' = sync \/ sync' = [sync EXCEPT ![c] = FALSE]
    BY DEF SessionStep, ReadEof, BadHeader, ReadGarbage, Dispatch, FileDone, Lookup, Connected,
           CopyCancelled, Snapshot, RecvEvent, Write, WriteFails, CopyEnds
  <1>3. \/ ev' = ev
        \/ ev' = [ev EXCEPT ![c] = <<>>]
        \/ ev[c] # <<>> /\ ev' = [ev EXCEPT ![c] = Tail(ev[c])]
    BY DEF SessionStep, ReadEof, BadHeader, ReadGarbage, Dispatch, FileDone, Lookup, Connected,
           CopyCancelled, Snapshot, RecvEvent, Write, WriteFails, CopyEnds
  <1>4. InputInv'
    <2>1. sync' \in [Clients -> BOOLEAN] BY <1>2 DEF InputInv
    <2>2. inbox' \in [Clients -> Requests \cup {"none"}] BY <1>2 DEF InputInv
    <2> QED BY <1>1, <2>1, <2>2 DEF InputInv
  <1>5. EventInv'
    <2>1. CASE ev' = ev BY <1>1, <2>1 DEF EventInv
    <2>2. CASE ev' = [ev EXCEPT ![c] = <<>>] BY <1>1, <2>2 DEF EventInv
    <2>3. CASE ev[c] # <<>> /\ ev' = [ev EXCEPT ![c] = Tail(ev[c])]
      <3> DEFINE t == Tail(ev[c])
      <3>1. ev[c] \in Seq({"Attached", "Detached"}) /\ ev[c] # <<>> BY <2>3 DEF EventInv
      <3>2. t \in Seq({"Attached", "Detached"}) /\ Len(t) = Len(ev[c]) - 1 /\ Len(ev[c]) \in Nat
        BY <3>1
      <3>3. ev' = [ev EXCEPT ![c] = t] BY <2>3
      <3> HIDE DEF t
      <3>4. ev' \in [Clients -> Seq({"Attached", "Detached"})] BY <3>2, <3>3 DEF EventInv
      <3>5. \A d \in Clients : d # c => ev'[d] = ev[d] BY <3>3 DEF EventInv
      <3>6. ev'[c] = t BY <3>3 DEF EventInv
      <3>7. inTable \/ dev = "dropped" BY <2>3 DEF EventInv
      <3>8. \A d \in Clients : \A n \in {1, 2} : Len(ev[d]) <= n => Len(ev'[d]) <= n
        BY <3>2, <3>5, <3>6
      <3> QED BY <1>1, <3>4, <3>7, <3>8 DEF EventInv
    <2> QED BY <1>3, <2>1, <2>2, <2>3
  <1> QED BY <1>4, <1>5

\* An event goes to every listener.
LEMMA AnnounceFacts ==
    ASSUME EventInv, NEW event \in {"Attached", "Detached"}, Announce(event)
    PROVE  /\ ev' \in [Clients -> Seq({"Attached", "Detached"})]
           /\ \A c \in Clients : Len(ev[c]) \in Nat /\ ev'[c] \in {ev[c], Append(ev[c], event)}
           /\ \A c \in Clients : Len(Append(ev[c], event)) = Len(ev[c]) + 1
  <1>1. \A c \in Clients : ev[c] \in Seq({"Attached", "Detached"}) BY DEF EventInv
  <1>2. \A c \in Clients : /\ Append(ev[c], event) \in Seq({"Attached", "Detached"})
                           /\ Len(Append(ev[c], event)) = Len(ev[c]) + 1 /\ Len(ev[c]) \in Nat
    BY <1>1
  <1> QED BY <1>1, <1>2 DEF Announce

\* The watcher puts the device into the table and takes it out.
LEMMA TableEvents ==
    ASSUME EventInv, InsertDevice \/ RemoveDevice
    PROVE  EventInv'
  <1>1. CASE InsertDevice
    <2>1. \A c \in Clients : ev[c] = <<>> BY <1>1 DEF InsertDevice, EventInv
    <2>2. dev = "up" /\ dev' = dev /\ inTable' = TRUE /\ Announce("Attached")
      BY <1>1 DEF InsertDevice, devVars
    <2>3. ev' \in [Clients -> Seq({"Attached", "Detached"})] BY <2>2, AnnounceFacts
    <2>4. \A c \in Clients : Len(ev'[c]) <= 1 /\ Len(ev'[c]) <= 2
      <3> SUFFICES ASSUME NEW c \in Clients PROVE Len(ev'[c]) <= 1 /\ Len(ev'[c]) <= 2 OBVIOUS
      <3>1. /\ ev'[c] = ev[c] \/ ev'[c] = Append(ev[c], "Attached")
            /\ Len(Append(ev[c], "Attached")) = Len(ev[c]) + 1
        BY <2>2, AnnounceFacts
      <3>2. Len(ev[c]) = 0 BY <2>1
      <3> DEFINE l == Len(ev'[c])
      <3>3. l = Len(ev[c]) \/ l = Len(ev[c]) + 1 BY <3>1
      <3> HIDE DEF l
      <3>4. l <= 1 /\ l <= 2 BY <3>2, <3>3
      <3> QED BY <3>4 DEF l
    <2> QED BY <2>2, <2>3, <2>4 DEF EventInv
  <1>2. CASE RemoveDevice
    <2>1. \A c \in Clients : Len(ev[c]) <= 1 BY <1>2 DEF RemoveDevice, EventInv
    <2>2. dev' = "dropped" /\ inTable' = FALSE /\ Announce("Detached")
      BY <1>2 DEF RemoveDevice, DropDevice
    <2>3. ev' \in [Clients -> Seq({"Attached", "Detached"})] BY <2>2, AnnounceFacts
    <2>4. \A c \in Clients : Len(ev'[c]) <= 2
      <3> SUFFICES ASSUME NEW c \in Clients PROVE Len(ev'[c]) <= 2 OBVIOUS
      <3>1. /\ ev'[c] = ev[c] \/ ev'[c] = Append(ev[c], "Detached")
            /\ Len(Append(ev[c], "Detached")) = Len(ev[c]) + 1 /\ Len(ev[c]) \in Nat
        BY <2>2, AnnounceFacts
      <3>2. Len(ev'[c]) = Len(ev[c]) \/ Len(ev'[c]) = Len(ev[c]) + 1 BY <3>1
      <3> QED BY <2>1, <3>1, <3>2
    <2> QED BY <2>2, <2>3, <2>4 DEF EventInv
  <1> QED BY <1>1, <1>2

\* Every step keeps what is said about the sessions.
LEMMA SessStep ==
    RecTypeOK /\ WorkInv /\ EventInv /\ InputInv /\ [Next]_vars => WorkInv' /\ EventInv' /\ InputInv'
  <1> SUFFICES ASSUME RecTypeOK, WorkInv, EventInv, InputInv, [Next]_vars
               PROVE  WorkInv' /\ EventInv' /\ InputInv'
    OBVIOUS
  <1> USE DEF inVars, sessVars
  <1>1. setup \in SetupType BY SessionAssumption DEF InputInv
  <1>2. setup.requests \subseteq Requests /\ setup.crashes \in Nat BY <1>1 DEF SetupType
  <1>3. ASSUME UNCHANGED sessVars PROVE WorkInv' BY <1>3 DEF WorkInv
  <1>4. ASSUME UNCHANGED <<setup, inVars, sync, crashes>> PROVE InputInv' BY <1>4 DEF InputInv
  <1>5. ASSUME UNCHANGED <<ev, inTable, dev>> PROVE EventInv' BY <1>5 DEF EventInv
  <1>6. ASSUME NEW c \in Clients, SendRequest(c) PROVE WorkInv' /\ EventInv' /\ InputInv'
    <2>1. UNCHANGED <<setup, closed, sessVars, ev, inTable, crashes, dev>>
      BY <1>6 DEF SendRequest, devVars
    <2>2. \E r \in setup.requests : inbox' = [inbox EXCEPT ![c] = r] BY <1>6 DEF SendRequest
    <2>3. inbox' \in [Clients -> Requests \cup {"none"}] BY <1>2, <2>2 DEF InputInv
    <2>4. left' \in [Clients -> Nat] BY <1>6 DEF SendRequest, InputInv
    <2> QED BY <1>3, <1>5, <2>1, <2>3, <2>4 DEF InputInv
  <1>7. ASSUME NEW c \in Clients, ClientCloses(c) PROVE WorkInv' /\ EventInv' /\ InputInv'
    <2>1. /\ UNCHANGED <<setup, inbox, left, sessVars, ev, inTable, crashes, dev>>
          /\ closed' = [closed EXCEPT ![c] = TRUE]
      BY <1>7 DEF ClientCloses, devVars
    <2>2. closed' \in [Clients -> BOOLEAN] BY <2>1 DEF InputInv
    <2> QED BY <1>3, <1>5, <2>1, <2>2 DEF InputInv
  <1>8. ASSUME NEW c \in Clients, SessionStep(c) \/ CopyEnds(c) PROVE WorkInv' /\ EventInv' /\ InputInv'
    BY <1>8, SessionWork, SessionInput
  <1>9. ASSUME NEW a \in Actors, BlockingPool(a) PROVE WorkInv' /\ EventInv' /\ InputInv'
    BY <1>3, <1>4, <1>5, <1>9 DEF BlockingPool, RecordPass, devVars
  <1>10. CASE PreflightTask \/ Phone
    BY <1>3, <1>4, <1>5, <1>10 DEF PreflightTask, Phone, RecordPass, devVars
  <1>11. CASE InsertDevice \/ Withdrawn \/ Cancelled
    <2>1. InsertDevice \/ RemoveDevice BY <1>11 DEF Withdrawn, Cancelled
    <2>2. UNCHANGED <<setup, inVars, sessVars, crashes>> BY <2>1 DEF InsertDevice, RemoveDevice
    <2> QED BY <1>3, <1>4, <2>1, <2>2, TableEvents
  <1>12. CASE Heartbeat \/ DeviceStep
    <2>1. DevicePass BY <1>12 DEF Heartbeat, DeviceStep
    <2>2. /\ dev = "up" => dev' = "up"
          /\ dev' # "dropped" => dev # "dropped"
      BY <1>12
      DEF Heartbeat, HbStep, Marco, Polo, HbPass, DeviceStep, NetworkChanges, OpenFails, OpenDone,
          ConnectHeartbeat, Renewed, RenewWakes, RenewSwap, RenewFails, RenewPass
    <2>3. EventInv' BY <2>1, <2>2 DEF EventInv, DevicePass
    <2> QED BY <1>3, <1>4, <2>1, <2>3 DEF DevicePass
  <1>13. CASE Crash
    <2>1. /\ crashes < setup.crashes /\ crashes' = crashes + 1 /\ UNCHANGED <<setup, left, closed>>
          /\ pc' = [c \in Clients |-> IF left[c] = 0 \/ closed[c] THEN "ended" ELSE "header"]
          /\ inbox' = [c \in Clients |-> "none"]
          /\ sync' = [c \in Clients |-> TRUE] /\ req' = [c \in Clients |-> "none"]
          /\ out' = [c \in Clients |-> <<>>] /\ next' = [c \in Clients |-> "header"]
          /\ ev' = [c \in Clients |-> <<>>] /\ inTable' = FALSE /\ dev' = "off"
      BY <1>13 DEF Crash
    <2>2. WorkInv' BY <2>1 DEF WorkInv
    <2>3. EventInv'
      <3>1. inTable' \in BOOLEAN /\ ~inTable' BY <2>1, Zenon
      <3>2. ev' \in [Clients -> Seq({"Attached", "Detached"})] BY <2>1
      <3>3. \A c \in Clients : ev'[c] = <<>> /\ Len(ev'[c]) <= 2 BY <2>1
      <3> QED BY <3>1, <3>2, <3>3 DEF EventInv
    <2>4. crashes' \in 0..setup.crashes BY <1>2, <2>1 DEF InputInv
    <2>5. inbox' \in [Clients -> Requests \cup {"none"}] /\ sync' \in [Clients -> BOOLEAN] BY <2>1
    <2> QED BY <2>1, <2>2, <2>3, <2>4, <2>5 DEF InputInv
  <1>14. CASE UNCHANGED vars BY <1>3, <1>4, <1>5, <1>14 DEF vars, devVars
  <1> QED BY <1>6, <1>7, <1>8, <1>9, <1>10, <1>11, <1>12, <1>13, <1>14 DEF Next

------------------------------------------------------------------------------
(* The theorems.                                                             *)

\* The parts of the invariant give the types.
LEMMA Parts == SessionInv <=> DevInv /\ RecInv /\ WorkInv /\ EventInv /\ InputInv
  BY DEF SessionInv, TypeOK, DevInv, RecInv, WorkInv, EventInv, InputInv

\* The invariant holds when the daemon starts.
LEMMA InitInv == Init => SessionInv
  <1> SUFFICES ASSUME Init PROVE SessionInv OBVIOUS
  <1>1. DevInv
    <2>1. HeartInv BY DEF Init, DevInit, HeartInv
    <2>2. PowerInv BY DEF Init, DevInit, PowerInv
    <2>3. /\ failed \in BOOLEAN /\ byHb \in BOOLEAN /\ token \in BOOLEAN /\ reachable \in BOOLEAN
      BY Zenon DEF Init, DevInit
    <2>4. changes \in 0..MaxChanges /\ strikes \in 0..2 /\ held \in 0..2
      BY DeviceAssumption DEF Init, DevInit
    <2> QED BY <2>1, <2>2, <2>3, <2>4 DEF DevInv, DevTypeOK, Init, DevInit
  <1>2. RecInv
    <2>1. /\ made \in {0, 1} /\ buid = made /\ settled = made
          /\ record \in {"none", "bad", "good"}
          /\ fop = [a \in Actors |-> "idle"] /\ fres = [a \in Actors |-> "none"]
          /\ ppc = "off" /\ user = "undecided" /\ note = FALSE
      BY DEF Init, RecInit
    <2>2. note \in BOOLEAN BY <2>1, Zenon
    <2>3. fop \in [Actors -> FileOps] /\ fres \in [Actors -> Outcomes] BY <2>1 DEF FileOps, Outcomes
    <2>4. /\ made \in Nat /\ settled \in 0..made /\ buid \in {NoFile, Empty} \cup 1..made
      BY <2>1 DEF NoFile
    <2> QED BY <2>1, <2>2, <2>3, <2>4 DEF RecInv, RecTypeOK, BuidInv, NoFile
  <1>3. setup \in SetupType BY SessionAssumption DEF Init
  <1>4. setup.each \in [Clients -> Nat] /\ setup.crashes \in Nat BY <1>3 DEF SetupType
  <1>5. WorkInv BY DEF Init, WorkInv
  <1>6. EventInv
    <2>1. inTable \in BOOLEAN /\ ~inTable BY Zenon DEF Init
    <2>2. ev \in [Clients -> Seq({"Attached", "Detached"})] BY DEF Init
    <2>3. \A c \in Clients : ev[c] = <<>> /\ Len(ev[c]) <= 2 BY DEF Init
    <2> QED BY <2>1, <2>2, <2>3 DEF EventInv
  <1>7. InputInv
    <2>1. sync \in [Clients -> BOOLEAN] /\ closed \in [Clients -> BOOLEAN] BY DEF Init
    <2>2. crashes \in 0..setup.crashes BY <1>4 DEF Init
    <2> QED BY <1>4, <2>1, <2>2 DEF Init, InputInv
  <1> QED BY <1>1, <1>2, <1>5, <1>6, <1>7, Parts

\* It is inductive.
LEMMA InvStep == SessionInv /\ [Next]_vars => SessionInv'
  <1> SUFFICES ASSUME SessionInv, [Next]_vars PROVE SessionInv' OBVIOUS
  <1>1. DevInv /\ RecInv /\ WorkInv /\ EventInv /\ InputInv BY Parts
  <1>2. DevInv' BY <1>1, DevStep
  <1>3. RecInv' BY <1>1, RecStep
  <1>4. WorkInv' /\ EventInv' /\ InputInv' BY <1>1, SessStep DEF RecInv
  <1> QED
    BY <1>2, <1>3, <1>4 DEF SessionInv, TypeOK, DevInv, RecInv, WorkInv, EventInv, InputInv

\* It holds in every state.
LEMMA Invariant == Spec => []SessionInv
  BY InitInv, InvStep, PTL DEF Spec

\* Sessions, events, files and the device keep their types: a listener has at most the two
\* events of one device in front of it, a handler at most two messages to write, the phone
\* grants at most two power assertions, and the file holds an identifier that was generated,
\* over any number of crashes.
THEOREM TypeCorrect == Spec => []TypeOK
  <1>1. SessionInv => TypeOK BY DEF SessionInv
  <1> QED BY <1>1, Invariant, PTL

\* The heartbeat closes a device only after two failures with no marco between them.
THEOREM ClosedByTwoStrikes == Spec => []TwoStrikes
  <1>1. SessionInv => TwoStrikes BY DEF SessionInv, HeartInv, TwoStrikes
  <1> QED BY <1>1, Invariant, PTL

\* read_system_buid: an identifier that nobody was in the middle of replacing is the
\* system's identifier until a test for its file fails, whatever tasks read it, whatever
\* other file operations fail and however often the daemon is killed.
THEOREM IdentifierIsStable == Spec => []BuidStable
  <1>1. SessionInv => BuidStable BY DEF SessionInv, BuidInv, BuidStable
  <1> QED BY <1>1, Invariant, PTL
=============================================================================
