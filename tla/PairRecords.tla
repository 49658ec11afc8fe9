----------------------------- MODULE PairRecords -----------------------------
(***************************************************************************)
(* The files below LOCKDOWN_PATH (the system identifier and the pair record *)
(* of one phone), the file operations of the sessions and of the preflight  *)
(* task, and the preflight's pairing dialogue with the phone and its user.  *)
(*                                                                          *)
(* tokio::fs runs an operation on the blocking pool: a write truncates the  *)
(* file and fills it in two steps, and goes on when the task that awaits it *)
(* is dropped.  ClientSession composes this module with the sessions.       *)
(***************************************************************************)
EXTENDS Integers

CONSTANTS
    Actors,     \* tasks that use the files
    Preflight   \* the one among them that is the phone's preflight task

ASSUME RecordAssumption == Preflight \in Actors

VARIABLES
    buid,      \* SystemConfiguration.plist: NoFile, Empty, or an identifier > 0
    made,      \* identifiers generated so far
    settled,   \* history: the identifier since nobody was making one, 0 if there is none
               \* or a test for the file has failed since
    record,    \* the phone's pair record: none, empty, bad, good
    fop,       \* the file operation an actor awaits
    fres,      \* the outcome of its last one
    ppc,       \* where the preflight task is
    user,      \* what the phone's user has decided about this host
    note       \* a request_pair notification is on its way to the preflight

fileVars == <<buid, made, settled, record, fop, fres>>
pfVars   == <<ppc, user, note>>
recVars  == <<fileVars, pfVars>>

NoFile == 0
Empty  == -1

FileOps  == {"idle", "exists", "create", "fill", "load", "get", "put", "putfill", "putlost", "remove"}
Outcomes == {"none", "ok", "bad", "missing", "denied", "error"}

RecTypeOK ==
    /\ made \in Nat /\ buid \in {NoFile, Empty} \cup 1..made /\ settled \in 0..made
    /\ record \in {"none", "empty", "bad", "good"}
    /\ fop \in [Actors -> FileOps] /\ fres \in [Actors -> Outcomes]
    /\ ppc \in {"off", "record", "remove", "buid", "connect", "pair",
                "observe", "wait", "again", "verify", "save", "ended"}
    /\ user \in {"undecided", "trusted", "denied"} /\ note \in BOOLEAN

RecInit ==
    /\ made \in {0, 1} /\ buid = made /\ settled = made
    /\ record \in {"none", "bad", "good"}
    /\ fop = [a \in Actors |-> "idle"] /\ fres = [a \in Actors |-> "none"]
    /\ ppc = "off" /\ user = "undecided" /\ note = FALSE

------------------------------------------------------------------------------
(* File operations.                                                          *)

Begin(a, op) ==
    /\ fop' = [fop EXCEPT ![a] = op] /\ fres' = [fres EXCEPT ![a] = "none"]
    /\ UNCHANGED <<buid, made, settled, record>>

\* A task other than a is between its test for the file and the end of its write.
OthersAtIt(a) == \E b \in Actors \ {a} : fop[b] \in {"exists", "create", "fill"}

Outcome(a, res) ==
    /\ fres' = [fres EXCEPT ![a] = res]
    /\ settled' = IF settled = 0 /\ buid' > 0 /\ ~OthersAtIt(a) THEN buid' ELSE settled

Returns(a, res) == fop' = [fop EXCEPT ![a] = "idle"] /\ Outcome(a, res)

\* Without the test for the file.
ExistsForgotten(a) ==
    /\ fop[a] = "exists"
    /\ fop' = [fop EXCEPT ![a] = "create"]
    /\ UNCHANGED <<buid, made, settled, record, fres>>

\* read_system_buid: the file is created when it is not there.
Exists(a) ==
    /\ fop[a] = "exists"
    /\ fop' = [fop EXCEPT ![a] = IF buid = NoFile THEN "create" ELSE "load"]
    /\ UNCHANGED <<buid, made, settled, record, fres>>

\* An error of try_exists is taken for an absent file: what is there is replaced.
ExistsFails(a) ==
    /\ fop[a] = "exists"
    /\ fop' = [fop EXCEPT ![a] = "create"]
    /\ settled' = 0
    /\ UNCHANGED <<buid, made, record, fres>>

Create(a) ==
    /\ fop[a] = "create"
    /\ buid' = Empty
    /\ fop' = [fop EXCEPT ![a] = "fill"]
    /\ UNCHANGED <<made, settled, record, fres>>

Fill(a) ==
    /\ fop[a] = "fill"
    /\ made' = made + 1 /\ buid' = made + 1
    /\ Returns(a, "ok")
    /\ UNCHANGED record

\* An empty file is not a plist.
Load(a) ==
    /\ fop[a] = "load"
    /\ UNCHANGED <<buid, made, record>>
    /\ Returns(a, IF buid = Empty THEN "bad" ELSE "ok")

Get(a) ==
    /\ fop[a] = "get"
    /\ UNCHANGED <<buid, made, record>>
    /\ Returns(a, CASE record = "none" -> "missing" [] record = "good" -> "ok" [] OTHER -> "bad")

Put(a) ==
    /\ fop[a] = "put"
    /\ record' = "empty"
    /\ fop' = [fop EXCEPT ![a] = "putfill"]
    /\ UNCHANGED <<buid, made, settled, fres>>

\* Two writes between which the file is not truncated may mix.
PutFill(a) ==
    /\ fop[a] = "putfill"
    /\ UNCHANGED <<buid, made>>
    /\ \/ record' = "good"
       \/ record # "empty" /\ record' = "bad"
    /\ Returns(a, "ok")

\* The file was removed after it had been opened.
PutLost(a) ==
    /\ fop[a] = "putlost"
    /\ UNCHANGED <<buid, made, record>>
    /\ Returns(a, "ok")

RemoveFile(a) ==
    /\ fop[a] = "remove"
    /\ UNCHANGED <<buid, made>>
    /\ record' = "none"
    /\ fop' = [b \in Actors |-> CASE b = a -> "idle"
                                [] fop[b] = "putfill" -> "putlost"
                                [] OTHER -> fop[b]]
    /\ Outcome(a, IF record = "none" THEN "missing" ELSE "ok")

\* No permission, a full disk and the like; for the test of the file see ExistsFails.
FileFails(a) ==
    /\ fop[a] \notin {"idle", "exists"}
    /\ UNCHANGED <<buid, made, record>>
    /\ \E res \in {"denied", "error"} : Returns(a, res)

FileStep(a) ==
    \/ Exists(a) \/ ExistsFails(a) \/ Create(a) \/ Fill(a) \/ Load(a)
    \/ Get(a) \/ Put(a) \/ PutFill(a) \/ PutLost(a) \/ RemoveFile(a) \/ FileFails(a)

------------------------------------------------------------------------------
(* The preflight task.  Any answer of the phone may be an error, which ends  *)
(* it.                                                                       *)

Goto(to) == ppc' = to /\ UNCHANGED <<user, note>>

Await(op, to) == Goto(to) /\ Begin(Preflight, op)

Done == fop[Preflight] = "idle"

Got == fres[Preflight]

Spawn == ppc = "off" /\ Await("get", "record")

\* A record that cannot be parsed is removed.
RecordRead ==
    /\ ppc = "record" /\ Done
    /\ \/ Got \in {"ok", "missing"} /\ Await("exists", "buid")
       \/ Got = "bad" /\ Await("remove", "remove")
       \/ Got \in {"denied", "error"} /\ Goto("ended") /\ UNCHANGED fileVars

RecordRemoved ==
    /\ ppc = "remove" /\ Done
    /\ \/ Got = "ok" /\ Await("exists", "buid")
       \/ Got # "ok" /\ Goto("ended") /\ UNCHANGED fileVars

BuidRead ==
    /\ ppc = "buid" /\ Done
    /\ Goto(IF Got = "ok" THEN "connect" ELSE "ended")
    /\ UNCHANGED fileVars

\* preflight up to pair_once.  It ends in restore mode, or when a record was read and a
\* session with it works; without one, or with one that is of no use, it goes on.
Lockdown ==
    /\ ppc = "connect"
    /\ \E to \in {"pair", "ended"} : Goto(to)
    /\ UNCHANGED fileVars

\* pair_once: a phone that does not know the host yet asks its user and says so; only
\* some can notify of the answer.
PairOnce ==
    /\ ppc = "pair"
    /\ \/ user # "denied" /\ Goto("verify")
       \/ user = "undecided" /\ Goto("observe")
       \/ Goto("ended")
    /\ UNCHANGED fileVars

\* connect_notifications
Observe ==
    /\ ppc = "observe"
    /\ \E to \in {"wait", "ended"} : Goto(to)
    /\ UNCHANGED fileVars

\* wait_for_pair_request, first branch
RequestPair ==
    /\ ppc = "wait" /\ note
    /\ ppc' = "again" /\ note' = FALSE
    /\ UNCHANGED <<user, fileVars>>

\* second branch, every 30 s: a pair_once whose only result that counts is a denial;
\* a success is discarded and the wait goes on.
Timer ==
    /\ ppc = "wait" /\ user = "denied"
    /\ Goto("ended")
    /\ UNCHANGED fileVars

PairAgain ==
    /\ ppc = "again"
    /\ \/ user = "trusted" /\ Goto("verify")
       \/ Goto("ended")
    /\ UNCHANGED fileVars

\* The new record is tried, then saved.
Verify ==
    /\ ppc = "verify"
    /\ \/ Await("put", "save")
       \/ Goto("ended") /\ UNCHANGED fileVars

Saved == ppc = "save" /\ Done /\ Goto("ended") /\ UNCHANGED fileVars

PreflightStep ==
    \/ Spawn \/ RecordRead \/ RecordRemoved \/ BuidRead
    \/ Lockdown \/ PairOnce
    \/ Observe \/ RequestPair \/ Timer \/ PairAgain \/ Verify \/ Saved

\* The device's token is cancelled: the task is dropped, a write it has begun is not.
PreflightCancelled ==
    /\ ppc \notin {"off", "ended"}
    /\ Goto("ended")
    /\ fop' = [fop EXCEPT ![Preflight] = IF @ \in {"exists", "get", "load"} THEN "idle" ELSE @]
    /\ UNCHANGED <<buid, made, settled, record, fres>>

\* The dialog is on the phone's screen.  A notification reaches those who observe.
UserDecides ==
    /\ ppc \in {"observe", "wait"} /\ user = "undecided"
    /\ \/ user' = "trusted" /\ note' = (ppc = "wait")
       \/ user' = "denied" /\ UNCHANGED note
    /\ UNCHANGED <<ppc, fileVars>>

------------------------------------------------------------------------------

\* read_system_buid: once there was an identifier and no task was in the middle of making
\* one, it stays until a test for its file fails: every later reader, in this run of the
\* daemon or after a crash, gets the one earlier readers were told, however the other
\* file operations fail.  After such a test the same holds of the next identifier.
BuidStable == settled # 0 => buid = settled
=============================================================================
