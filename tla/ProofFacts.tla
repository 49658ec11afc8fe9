------------------------------ MODULE ProofFacts ------------------------------
(***************************************************************************)
(* What the proofs of several components need: remainders, and sequences    *)
(* that grow at the end and shrink at the front.                            *)
(***************************************************************************)
EXTENDS Integers, Sequences, SequenceTheorems, TLAPS

(* Arithmetic modulo the width of a counter.                                 *)

\* Quotient and remainder, as the provers know them.
LEMMA DivMod ==
    ASSUME NEW a \in Int, NEW m \in Nat, m > 0
    PROVE  a = m * (a \div m) + (a % m) /\ a % m \in 0..m-1 /\ a \div m \in Int
  BY SMT

\* Multiples of m that differ are at least m apart.
LEMMA MulMono ==
    ASSUME NEW p \in Int, NEW q \in Int, NEW m \in Nat, p + 1 <= q
    PROVE  m * p + m <= m * q
  <1>1. PICK d \in Nat : q = p + 1 + d BY SMT
  <1>2. m * q = m * p + m + m * d BY <1>1, SMT
  <1>3. m * d >= 0 BY SMT
  <1> QED BY <1>2, <1>3, SMT

\* The remainder of a division is unique.
LEMMA RemainderUnique ==
    ASSUME NEW m \in Nat, m > 0, NEW p \in Int, NEW q \in Int,
           NEW r \in 0..m-1, NEW s \in 0..m-1, m * p + r = m * q + s
    PROVE  r = s
  <1>1. ~(p + 1 <= q)
    <2> SUFFICES ASSUME p + 1 <= q PROVE FALSE OBVIOUS
    <2>1. m * p + m <= m * q BY MulMono
    <2>2. m * p \in Int /\ m * q \in Int BY SMT
    <2> QED BY <2>1, <2>2, SMT
  <1>2. ~(q + 1 <= p)
    <2> SUFFICES ASSUME q + 1 <= p PROVE FALSE OBVIOUS
    <2>1. m * q + m <= m * p BY MulMono
    <2>2. m * p \in Int /\ m * q \in Int BY SMT
    <2> QED BY <2>1, <2>2, SMT
  <1>3. p = q BY <1>1, <1>2, SMT
  <1> QED BY <1>3, SMT

\* How the value of % is established.
LEMMA ModIs ==
    ASSUME NEW m \in Nat, m > 0, NEW a \in Int, NEW p \in Int, NEW r \in 0..m-1, a = m * p + r
    PROVE  a % m = r
  BY DivMod, RemainderUnique

\* wrapping_sub of two wrapped counters is their true distance, when that is
\* smaller than the width of the counters.
LEMMA ModDiff ==
    ASSUME NEW a \in Nat, NEW b \in Nat, NEW m \in Nat, m > 0, b <= a, a - b < m
    PROVE  ((a % m) - (b % m)) % m = a - b
  <1> DEFINE p == a \div m
             q == b \div m
             c == (a % m) - (b % m)
  <1>1. a = m * p + (a % m) /\ b = m * q + (b % m) BY DivMod
  <1>2. p \in Int /\ q \in Int /\ a % m \in Int /\ b % m \in Int BY DivMod
  <1>3. c = m * (q - p) + (a - b) BY <1>1, <1>2, SMT
  <1>4. a - b \in 0..m-1 /\ q - p \in Int /\ c \in Int BY <1>2, SMT
  <1> HIDE DEF p, q
  <1> QED BY <1>3, <1>4, ModIs

\* fetch_add on a wrapped counter is the wrapped sum.
LEMMA ModAdd ==
    ASSUME NEW a \in Nat, NEW b \in Nat, NEW m \in Nat, m > 0
    PROVE  ((a % m) + b) % m = (a + b) % m
  <1> DEFINE p == a \div m
             q == (a + b) \div m
             r == (a + b) % m
  <1>1. a = m * p + (a % m) /\ a + b = m * q + r BY DivMod, a + b \in Int
  <1>2. p \in Int /\ q \in Int /\ a % m \in Int /\ r \in 0..m-1 BY DivMod, a + b \in Int
  <1>3. (a % m) + b = m * (q - p) + r BY <1>1, <1>2, SMT
  <1>4. q - p \in Int /\ (a % m) + b \in Int BY <1>2, SMT
  <1> HIDE DEF p, q, r
  <1>5. ((a % m) + b) % m = r BY <1>2, <1>3, <1>4, ModIs
  <1> QED BY <1>5 DEF r

------------------------------------------------------------------------------
(* Channels.                                                                 *)

\* The first packet leaves a channel.
LEMMA TailFacts ==
    ASSUME NEW S, NEW q \in Seq(S), q # <<>>
    PROVE  /\ Tail(q) \in Seq(S) /\ Len(Tail(q)) = Len(q) - 1 /\ Len(q) \in Nat \ {0}
           /\ Head(q) = q[1] /\ q[1] \in S /\ 1 \in 1..Len(q)
           /\ \A i \in 1..Len(Tail(q)) : Tail(q)[i] = q[i+1] /\ i + 1 \in 1..Len(q)
  BY SMT

\* A packet enters a channel.
LEMMA AppendFacts ==
    ASSUME NEW S, NEW q \in Seq(S), NEW e \in S
    PROVE  /\ Append(q, e) \in Seq(S) /\ Len(Append(q, e)) = Len(q) + 1 /\ Len(q) \in Nat
           /\ \A i \in 1..Len(q) : Append(q, e)[i] = q[i]
           /\ Append(q, e)[Len(q) + 1] = e
  BY SMT

\* Appending a packet is concatenating a buffer that holds just this packet.
LEMMA ConcatOne ==
    ASSUME NEW S, NEW q \in Seq(S), NEW e \in S
    PROVE  q \o <<e>> = Append(q, e)
  BY AppendIsConcat
=============================================================================
