------------------------------- MODULE BytePipe -------------------------------
(***************************************************************************)
(* What a stream over the cable promises its user: two byte streams, each   *)
(* delivered in order and without a gap, until the device's end goes away.  *)
(* Bytes are their positions in the stream, counted from 1.                 *)
(***************************************************************************)
EXTENDS Integers, Sequences

VARIABLES
    accepted,   \* number of bytes the user was told are written
    arrived,    \* bytes the device has, in the order it got them
    produced,   \* number of bytes the device has sent
    got,        \* bytes the user has read, in the order it got them
    closed      \* the device's end is gone

vars == <<accepted, arrived, produced, got, closed>>

\* The n bytes of a stream from position a on.
Run(a, n) == [i \in 1..n |-> a + i - 1]

Init ==
    /\ accepted = 0 /\ arrived = <<>>
    /\ produced = 0 /\ got = <<>>
    /\ closed = FALSE

Accept ==
    /\ accepted' \in Nat /\ accepted' > accepted
    /\ UNCHANGED <<arrived, produced, got, closed>>

Arrive ==
    /\ ~closed
    /\ \E n \in 0..(accepted - Len(arrived)) : arrived' = arrived \o Run(Len(arrived) + 1, n)
    /\ UNCHANGED <<accepted, produced, got, closed>>

Produce ==
    /\ ~closed
    /\ produced' \in Nat /\ produced' > produced
    /\ UNCHANGED <<accepted, arrived, got, closed>>

Deliver ==
    /\ \E n \in 0..(produced - Len(got)) : got' = got \o Run(Len(got) + 1, n)
    /\ UNCHANGED <<accepted, arrived, produced, closed>>

Close ==
    /\ closed' = TRUE
    /\ UNCHANGED <<accepted, arrived, produced, got>>

Next == Accept \/ Arrive \/ Produce \/ Deliver \/ Close

Spec == Init /\ [][Next]_vars
=============================================================================
