---------------------------- MODULE NetworkDevice ----------------------------
(***************************************************************************)
(* A device on the network: opening it, its heartbeat task, its power       *)
(* assertion with the renewal task, and the token that ends its             *)
(* connections.  ClientSession composes it with the table and the clients.  *)
(***************************************************************************)
EXTENDS Integers

CONSTANT MaxChanges    \* bound: how often the device leaves the network or comes back

ASSUME DeviceAssumption == MaxChanges \in Nat

VARIABLES
    reachable, changes,
    dev,        \* off, asserting (heartbeat connected), up, dropped
    hb,         \* the heartbeat task: off, marco, polo, ended
    failed,     \* its local variable
    strikes,    \* history: failures since the last marco that was answered
    byHb,       \* history: the heartbeat cancelled the token
    token,      \* the CancellationToken is cancelled
    renew,      \* the renewal task: off, sleep, connect, swap, stopped
    held        \* power assertions the device has granted and not ended

envVars == <<reachable, changes>>
hbVars  == <<hb, failed, strikes, byHb>>
devVars == <<envVars, dev, hbVars, token, renew, held>>

DevTypeOK ==
    /\ reachable \in BOOLEAN /\ changes \in 0..MaxChanges
    /\ dev \in {"off", "asserting", "up", "dropped"}
    /\ hb \in {"off", "marco", "polo", "ended"} /\ failed \in BOOLEAN
    /\ strikes \in 0..2 /\ byHb \in BOOLEAN /\ token \in BOOLEAN
    /\ renew \in {"off", "sleep", "connect", "swap", "stopped"}
    /\ held \in 0..2

DevInit ==
    /\ reachable = TRUE /\ changes = 0
    /\ dev = "off" /\ hb = "off" /\ failed = FALSE /\ strikes = 0 /\ byHb = FALSE
    /\ token = FALSE /\ renew = "off" /\ held = 0

\* The phone leaves the network or comes back; its assertions go with its connections.
NetworkChanges ==
    /\ changes < MaxChanges
    /\ changes' = changes + 1 /\ reachable' = ~reachable
    /\ held' = IF reachable THEN 0 ELSE held
    /\ UNCHANGED <<dev, hbVars, token, renew>>

------------------------------------------------------------------------------
(* NetworkDevice::new.                                                       *)

\* The pairing file is read and one of the two addresses answers.
ConnectHeartbeat ==
    /\ dev = "off" /\ reachable
    /\ dev' = "asserting"
    /\ UNCHANGED <<envVars, hbVars, token, renew, held>>

OpenFails ==
    /\ dev = "asserting"
    /\ dev' = "off"
    /\ UNCHANGED <<envVars, hbVars, token, renew, held>>

\* The first assertion is granted and both tasks start.
OpenDone ==
    /\ dev = "asserting" /\ reachable
    /\ dev' = "up" /\ hb' = "marco" /\ renew' = "sleep" /\ held' = 1
    /\ UNCHANGED <<envVars, failed, strikes, byHb, token>>

------------------------------------------------------------------------------
(* The heartbeat task.                                                       *)

HbPass == UNCHANGED <<envVars, dev, renew, held>>

\* The first failure is the last.
StrikeOut(to) ==
    /\ strikes' = strikes + 1
    /\ token' = TRUE /\ byHb' = TRUE /\ hb' = "ended" /\ UNCHANGED failed

\* The task ends and tells nobody.
StrikeQuiet(to) ==
    /\ strikes' = strikes + 1
    /\ \/ failed /\ hb' = "ended" /\ UNCHANGED <<failed, token, byHb>>
       \/ ~failed /\ failed' = TRUE /\ hb' = to /\ UNCHANGED <<token, byHb>>

\* The second failure in a row cancels the token and ends the task.
Strike(to) ==
    /\ strikes' = strikes + 1
    /\ \/ failed /\ token' = TRUE /\ byHb' = TRUE /\ hb' = "ended" /\ UNCHANGED failed
       \/ ~failed /\ failed' = TRUE /\ hb' = to /\ UNCHANGED <<token, byHb>>

\* get_marco with a timeout: a marco forgives the failure before it.
Marco ==
    /\ hb = "marco"
    /\ \/ /\ reachable
          /\ failed' = FALSE /\ strikes' = 0 /\ hb' = "polo"
          /\ UNCHANGED <<byHb, token>>
       \/ Strike("polo")
    /\ HbPass

\* send_polo, also after a marco that did not come.
Polo ==
    /\ hb = "polo"
    /\ \/ reachable /\ hb' = "marco" /\ UNCHANGED <<failed, strikes, byHb, token>>
       \/ Strike("marco")
    /\ HbPass

------------------------------------------------------------------------------
(* PowerAssertion.                                                           *)

RenewPass == UNCHANGED <<envVars, dev, hbVars, token>>

RenewWakes ==
    /\ renew = "sleep"
    /\ renew' = "connect"
    /\ UNCHANGED held
    /\ RenewPass

\* A second assertion is granted ...
Renewed ==
    /\ renew = "connect" /\ reachable
    /\ renew' = "swap" /\ held' = held + 1
    /\ RenewPass

\* The first is kept as well.
RenewSwapKeeps ==
    /\ renew = "swap"
    /\ renew' = "sleep"
    /\ UNCHANGED held
    /\ RenewPass

\* ... before the first is dropped.
RenewSwap ==
    /\ renew = "swap"
    /\ renew' = "sleep" /\ held' = IF held > 1 THEN held - 1 ELSE held
    /\ RenewPass

\* One failure ends the renewals; the assertion in hand is dropped with the task.
RenewFails ==
    /\ renew = "connect"
    /\ renew' = "stopped" /\ held' = 0
    /\ RenewPass

------------------------------------------------------------------------------

\* Drop for NetworkDevice: both tasks are aborted, the token is cancelled.
DropDevice ==
    /\ dev' = "dropped" /\ hb' = "ended" /\ token' = TRUE
    /\ renew' = "stopped" /\ held' = 0
    /\ UNCHANGED <<envVars, failed, strikes, byHb>>

HbStep == Marco \/ Polo

\* The heartbeat closes a device only after two failures between which no marco came.
TwoStrikes == byHb => strikes = 2
=============================================================================
