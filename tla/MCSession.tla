------------------------------ MODULE MCSession ------------------------------
(***************************************************************************)
(* ClientSession for TLC: a network device and its users, malformed input,  *)
(* the identifier, the pair record, and both with a crash.                  *)
(***************************************************************************)
EXTENDS ClientSession

One == CHOOSE c \in Clients : TRUE

All(n) == [c \in Clients |-> n]
Only(n) == [c \in Clients |-> IF c = One THEN n ELSE 0]

Setup(requests, each, net, pf, kills) ==
    [requests |-> requests, each |-> each, net |-> net, pf |-> pf, crashes |-> kills]

Network    == Setup({"connect", "listen"}, All(1), TRUE, FALSE, 0)
Input      == Setup(DOMAIN Answers \cup {"badheader", "connect"}, Only(3), FALSE, FALSE, 0)
Identifier == Setup({"readbuid"}, All(1), FALSE, FALSE, 0)
Records    == Setup({"read", "save", "savedev", "delete"}, Only(2), FALSE, TRUE, 0)
Restart    == Setup({"readbuid"}, Only(2), FALSE, TRUE, 1)

AllSetups == {Network, Input, Identifier, Records, Restart}
=============================================================================
