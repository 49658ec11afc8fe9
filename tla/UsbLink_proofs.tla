---------------------------- MODULE UsbLink_proofs ----------------------------
(***************************************************************************)
(* The byte link to a device, proved for all header, payload and transfer   *)
(* sizes, sequence ranges and capacities: the writer loop's transfers and    *)
(* numbers, and the parser's place in the stream.                           *)
(***************************************************************************)
EXTENDS UsbLink, ProofFacts

(* The inductive invariant of the write side.                                *)

\* Packets the writer loop has taken from the channel ...
Taken == queued - Len(chan)

\* ... and those it is done with.
Done == IF writer = "submit" THEN Taken - 1 ELSE Taken

\* The opening packets are flushed before the loops start.
PhaseInv ==
    /\ phase = "running" <=> writer # "off"
    /\ phase = "running" <=> reader # "off"
    /\ wpending # "none" => phase \in {"flush", "flush2"}
    /\ phase # "running" => queued = 0 /\ chan = <<>> /\ ~stale

\* The writer's buffer holds the packet being submitted and nothing else.
BufferInv ==
    /\ writer # "stalled"
    /\ writer # "submit" => wbuf = <<>> /\ wlen = 0
    /\ writer = "submit" =>
          /\ wbuf = <<wbuf[1]>> /\ wlen = wbuf[1].len
          /\ wbuf[1].stale = stale
          /\ wbuf[1].n = Taken /\ wbuf[1].n > 0 /\ wbuf[1].send = wbuf[1].n % SeqRange

\* Every packet in the channel fits the buffer; the first of a device has no payload.
ChanInv ==
    /\ Len(chan) <= queued
    /\ \A i \in 1..Len(chan) : chan[i] \in 1..MAX_PACKET_SIZE
    /\ Taken = 0 /\ chan # <<>> => chan[1] = HEADERS_LEN_V2

\* The packets w carry ascending numbers up to d, and these are their sequence numbers.
Numbered(w, d) ==
    /\ \A i \in 1..Len(w) : w[i].n <= d
    /\ \A i, j \in 1..Len(w) : i < j /\ w[j].n > 0 => w[i].n < w[j].n
    /\ \A i \in 1..Len(w) : w[i].n > 0 => w[i].send = w[i].n % SeqRange

\* None is missing in w.
Gapless(w) == \A i \in 1..Len(w)-1 : w[i+1].n <= w[i].n + 1

\* Packets are numbered in the order in which they were taken.
NumberInv ==
    /\ writer # "panicked" => send_seq = (Taken + 1) % SeqRange
    /\ Numbered(wire, Done)
    /\ faults = 0 /\ plugged =>
          /\ Gapless(wire)
          /\ writer # "panicked" /\ wire # <<>> => wire[Len(wire)].n = Done

\* How many of the packets had arrived when the k-th transfer began, and when the last
\* one ended.
BeginOf(e, k) == IF k = 1 THEN 0 ELSE e[k - 1]
LastEnd(e) == IF e = <<>> THEN 0 ELSE e[Len(e)]

\* One packet per transfer, with packets w and ends of transfers e, where s: the last
\* write failed.  A transfer that is still open has a packet that followed a failed
\* write, or the next one is going to be such a packet.
Whole(w, e, s) ==
    /\ \A k \in 1..Len(e) :
          /\ e[k] \in 1..Len(w)
          /\ \/ e[k] = BeginOf(e, k) + 1
             \/ \E i \in BeginOf(e, k)+1..e[k] : w[i].stale
             \/ k > 1 /\ e[k] = BeginOf(e, k) /\ w[e[k]].stale
    /\ \/ LastEnd(e) = Len(w)
       \/ s
       \/ \E i \in LastEnd(e)+1..Len(w) : w[i].stale

TransferInv == Whole(wire, ends, stale)

\* current_transfer_len counts the opening packets until the first packet is
\* submitted, and what failed writes have left.
LengthInv ==
    /\ phase = "version" => current_transfer_len = 0
    /\ phase \in {"flush", "await", "setup"} => current_transfer_len = VersionPacket
    /\ phase = "flush2" => current_transfer_len = VersionPacket + SetupPacket
    /\ phase = "running" /\ ~stale /\ writer # "panicked" =>
          \/ current_transfer_len = 0
          \/ /\ current_transfer_len = VersionPacket + SetupPacket
             /\ Taken = 0 \/ (Taken = 1 /\ writer = "submit" /\ wlen = HEADERS_LEN_V2)

WriteInv == PhaseInv /\ BufferInv /\ ChanInv /\ NumberInv /\ TransferInv /\ LengthInv

------------------------------------------------------------------------------
(* The inductive invariant of the read side.                                 *)

\* Where the packet that is being read starts.
Base == IF stage = "v1" THEN (pos + need) - V1Size ELSE hpos

\* The packets a device sends.
Shape(p) ==
    \/ p.proto = "Version" /\ ~p.opts /\ p.length = p.size /\ p.length > V1Size
    \/ p.proto = "Control" /\ ~p.opts /\ p.length = p.size /\ p.length > V2Size
    \/ p.proto = "Control" /\ ~p.opts /\ p.length < V2Size /\ p.size = V2Size
    \/ p.proto = "Tcp" /\ p.length = p.size /\ p.length >= HEADERS_LEN_V2
    \/ p.proto = "unknown" /\ p.length = p.size /\ p.size > V1Size

\* The stream is the packets one after the other.
SentInv ==
    /\ \A k \in 1..Len(sent) : Shape(sent[k]) /\ sent[k].start + sent[k].size <= StreamEnd
    /\ \A k \in 1..Len(sent) :
          k < Len(sent) => sent[k+1].start = sent[k].start + sent[k].size
    /\ \A i, j \in 1..Len(sent) : i < j => sent[i].start + sent[i].size <= sent[j].start
    /\ sent # <<>> => sent[1].start = 0

\* The parser has read no more than the device has sent.
FlowInv ==
    /\ pos + buffered + transfer.n + flight <= StreamEnd
    /\ \A i \in 1..Len(got) : got[i] < pos

\* How far it is in the packet at hpos.
StageInv ==
    /\ stage = "v1" => need <= V1Size /\ V1Size <= pos + need
    /\ stage # "v1" => hpos < pos
    /\ stage = "v2" => pos + need = hpos + V2Size /\ hdr.proto \in {"Tcp", "Setup", "Control"}
    /\ stage = "tcp" => pos + need = hpos + HEADERS_LEN_V2 /\ hdr.proto = "Tcp"
    /\ stage = "payload" =>
          /\ pos + need = hpos + hdr.length
          /\ hdr.proto # "unknown"
          /\ hdr.proto = "Tcp" => ~hdr.opts /\ hdr.length > HEADERS_LEN_V2
          /\ hdr.proto \in {"Setup", "Control"} => hdr.length > V2Size

\* No packet before position b was rejected halfway.
FineBelow(b) == \A k \in 1..Len(sent) : sent[k].start < b => Harmless(sent[k])

HeaderOf(p) == [proto |-> p.proto, length |-> p.length, opts |-> p.opts]

\* The positions g are exactly those of the accepted packets before position b, in order.
GotExact(g, b) ==
    /\ \A i, j \in 1..Len(g) : i < j => g[i] < g[j]
    /\ \A i \in 1..Len(g) :
          g[i] < b /\ \E k \in 1..Len(sent) : Accepted(sent[k]) /\ sent[k].start = g[i]
    /\ \A k \in 1..Len(sent) :
          Accepted(sent[k]) /\ sent[k].start < b => \E i \in 1..Len(g) : g[i] = sent[k].start

\* A packet starts at position b, or the device has sent no more than that.
Boundary(b) == b = StreamEnd \/ \E k \in 1..Len(sent) : sent[k].start = b

\* The parser is at a packet, unless it has rejected one halfway.
PlaceInv ==
    FineBelow(Base) =>
        /\ Boundary(Base)
        /\ stage # "v1" => \E k \in 1..Len(sent) : sent[k].start = hpos /\ hdr = HeaderOf(sent[k])
        /\ GotExact(got, Base)

\* The version packet that ended the opening.
FirstVersion(k) ==
    /\ k \in 1..Len(got) /\ VersionAt(got[k])
    /\ \A j \in 1..Len(got) : j < k => ~VersionAt(got[j])

OpenInv ==
    /\ phase \in {"version", "flush", "await"} =>
          FineBelow(Base) /\ recv_seq = 0 /\ \A i \in 1..Len(got) : ~VersionAt(got[i])
    /\ phase \in {"setup", "flush2"} => recv_seq = 0 /\ FirstVersion(Len(got))
    /\ phase = "running" =>
          \E k \in 1..Len(got) : FirstVersion(k) /\ recv_seq = (Len(got) - k) % SeqRange

ReadInv == SentInv /\ FlowInv /\ StageInv /\ PlaceInv /\ OpenInv

LinkInv == TypeOK /\ WriteInv /\ ReadInv

------------------------------------------------------------------------------
(* Packets arrive at the device.                                             *)

\* What the sizes are.
LEMMA Sizes ==
    /\ V1Size \in Nat /\ V1Size > 0 /\ V2Size \in Nat /\ V2Size > V1Size
    /\ TcpSize \in Nat /\ TcpSize > 0 /\ HEADERS_LEN_V2 \in Nat /\ HEADERS_LEN_V2 = V2Size + TcpSize
    /\ VersionPacket \in Nat /\ VersionPacket > V1Size /\ VersionPacket <= MAX_PACKET_SIZE
    /\ SetupPacket \in Nat /\ SetupPacket > V2Size
    /\ MAX_PACKET_SIZE \in Nat /\ HEADERS_LEN_V2 < MAX_PACKET_SIZE
    /\ TransferSize \in Nat /\ TransferSize > 0
    /\ max_packet_size \in Nat /\ max_packet_size > 0
    /\ SeqRange \in Nat /\ SeqRange > 1
  BY LinkAssumption DEF HEADERS_LEN_V2, VersionPacket, SetupPacket, TransferSize

\* The fields of the packets that arrived.
LEMMA PacketFields ==
    ASSUME NEW w \in Seq(OutPackets), NEW i \in 1..Len(w)
    PROVE  w[i] \in OutPackets /\ w[i].n \in Nat /\ w[i].stale \in BOOLEAN
  <1>1. w[i] \in OutPackets OBVIOUS
  <1> QED BY <1>1 DEF OutPackets

\* A packet with a new number.
LEMMA NumberedAppend ==
    ASSUME NEW w \in Seq(OutPackets), NEW p \in OutPackets, NEW d \in Nat, NEW f \in Nat,
           Numbered(w, d), d <= f, p.n <= f,
           p.n > 0 => d < p.n /\ p.send = p.n % SeqRange
    PROVE  Numbered(Append(w, p), f)
  <1> DEFINE v == Append(w, p)
  <1>1. /\ Len(v) = Len(w) + 1 /\ Len(w) \in Nat /\ v \in Seq(OutPackets)
        /\ \A i \in 1..Len(w) : v[i] = w[i]
        /\ v[Len(w) + 1] = p
    BY AppendFacts
  <1> HIDE DEF v
  <1>2. \A i \in 1..Len(v) : v[i].n \in Nat BY <1>1, PacketFields
  <1>3. \A i \in 1..Len(w) : w[i].n <= d BY DEF Numbered
  <1>4. \A i \in 1..Len(v) : v[i].n <= f
    <2> SUFFICES ASSUME NEW i \in 1..Len(v) PROVE v[i].n <= f OBVIOUS
    <2>1. CASE i \in 1..Len(w)
      <3>1. v[i].n <= d BY <1>1, <1>3, <2>1
      <3> QED BY <1>2, <3>1
    <2>2. CASE i = Len(w) + 1 BY <1>1, <2>2
    <2> QED BY <1>1, <2>1, <2>2
  <1>5. \A i, j \in 1..Len(v) : i < j /\ v[j].n > 0 => v[i].n < v[j].n
    <2> SUFFICES ASSUME NEW i \in 1..Len(v), NEW j \in 1..Len(v), i < j, v[j].n > 0
                 PROVE  v[i].n < v[j].n
      OBVIOUS
    <2>1. i \in 1..Len(w) BY <1>1
    <2>2. CASE j \in 1..Len(w) BY <1>1, <2>1, <2>2 DEF Numbered
    <2>3. CASE j = Len(w) + 1
      <3>1. v[i].n <= d /\ d < v[j].n BY <1>1, <1>3, <2>1, <2>3
      <3> QED BY <1>2, <3>1
    <2> QED BY <1>1, <2>2, <2>3
  <1>6. \A i \in 1..Len(v) : v[i].n > 0 => v[i].send = v[i].n % SeqRange
    <2> SUFFICES ASSUME NEW i \in 1..Len(v), v[i].n > 0 PROVE v[i].send = v[i].n % SeqRange
      OBVIOUS
    <2>1. CASE i \in 1..Len(w) BY <1>1, <2>1 DEF Numbered
    <2>2. CASE i = Len(w) + 1 BY <1>1, <2>2
    <2> QED BY <1>1, <2>1, <2>2
  <1>7. Numbered(v, f) BY <1>4, <1>5, <1>6 DEF Numbered
  <1> QED BY <1>7 DEF v

\* More packets may have been taken than have arrived.
LEMMA NumberedMore ==
    ASSUME NEW w \in Seq(OutPackets), NEW d \in Nat, NEW f \in Nat, Numbered(w, d), d <= f
    PROVE  Numbered(w, f)
  <1>1. \A i \in 1..Len(w) : w[i].n \in Nat BY PacketFields
  <1>2. \A i \in 1..Len(w) : w[i].n <= f BY <1>1 DEF Numbered
  <1> QED BY <1>2 DEF Numbered

\* No gap before the packet that arrives.
LEMMA GaplessAppend ==
    ASSUME NEW w \in Seq(OutPackets), NEW p \in OutPackets, Gapless(w),
           w # <<>> => p.n <= w[Len(w)].n + 1
    PROVE  Gapless(Append(w, p)) /\ Append(w, p) # <<>> /\ Append(w, p)[Len(Append(w, p))] = p
  <1> DEFINE v == Append(w, p)
  <1>1. /\ Len(v) = Len(w) + 1 /\ Len(w) \in Nat /\ v \in Seq(OutPackets)
        /\ \A i \in 1..Len(w) : v[i] = w[i]
        /\ v[Len(w) + 1] = p
    BY AppendFacts
  <1> HIDE DEF v
  <1>2. \A i \in 1..Len(v)-1 : v[i+1].n <= v[i].n + 1
    <2> SUFFICES ASSUME NEW i \in 1..Len(v)-1 PROVE v[i+1].n <= v[i].n + 1 OBVIOUS
    <2>1. CASE i \in 1..Len(w)-1
      <3>1. i + 1 \in 1..Len(w) /\ i \in 1..Len(w) BY <1>1, <2>1
      <3> QED BY <1>1, <2>1, <3>1 DEF Gapless
    <2>2. CASE i = Len(w)
      <3>1. w # <<>> /\ i \in 1..Len(w) BY <1>1, <2>2
      <3> QED BY <1>1, <2>2, <3>1
    <2> QED BY <1>1, <2>1, <2>2
  <1>3. v # <<>> /\ v[Len(v)] = p BY <1>1
  <1>4. Gapless(v) BY <1>2 DEF Gapless
  <1> QED BY <1>3, <1>4 DEF v

\* A packet arrives and its transfer goes on.
LEMMA WholeOpen ==
    ASSUME NEW w \in Seq(OutPackets), NEW e \in Seq(Nat), NEW p \in OutPackets,
           NEW s \in BOOLEAN, NEW t \in BOOLEAN,
           Whole(w, e, s), t \/ p.stale
    PROVE  Whole(Append(w, p), e, t)
  <1> DEFINE v == Append(w, p)
  <1>1. /\ Len(v) = Len(w) + 1 /\ Len(w) \in Nat
        /\ \A i \in 1..Len(w) : v[i] = w[i]
        /\ v[Len(w) + 1] = p
    BY AppendFacts
  <1>2. LastEnd(e) \in 0..Len(w) BY <1>1 DEF LastEnd, Whole
  <1> HIDE DEF v
  <1>3. ASSUME NEW k \in 1..Len(e)
        PROVE  /\ e[k] \in 1..Len(v)
               /\ \/ e[k] = BeginOf(e, k) + 1
                  \/ \E i \in BeginOf(e, k)+1..e[k] : v[i].stale
                  \/ k > 1 /\ e[k] = BeginOf(e, k) /\ v[e[k]].stale
    <2>1. e[k] \in 1..Len(w) /\ BeginOf(e, k) \in Nat BY DEF Whole, BeginOf
    <2>2. \A i \in BeginOf(e, k)+1..e[k] : i \in 1..Len(w) BY <1>1, <2>1
    <2>3. v[e[k]] = w[e[k]] /\ \A i \in BeginOf(e, k)+1..e[k] : v[i] = w[i] BY <1>1, <2>1, <2>2
    <2>4. \/ e[k] = BeginOf(e, k) + 1
          \/ \E i \in BeginOf(e, k)+1..e[k] : w[i].stale
          \/ k > 1 /\ e[k] = BeginOf(e, k) /\ w[e[k]].stale
      BY DEF Whole
    <2>5. e[k] \in 1..Len(v) BY <1>1, <2>1
    <2> QED BY <2>3, <2>4, <2>5
  <1>4. t \/ \E i \in LastEnd(e)+1..Len(v) : v[i].stale
    <2>1. Len(w) + 1 \in LastEnd(e)+1..Len(v) BY <1>1, <1>2
    <2> QED BY <1>1, <2>1
  <1>5. Whole(v, e, t) BY <1>3, <1>4 DEF Whole
  <1> QED BY <1>5 DEF v

\* The transfer of the packets that have arrived ends.
LEMMA WholeEnd ==
    ASSUME NEW w \in Seq(OutPackets), NEW e \in Seq(Nat), NEW t \in BOOLEAN, w # <<>>,
           \A k \in 1..Len(e) :
              /\ e[k] \in 1..Len(w)
              /\ \/ e[k] = BeginOf(e, k) + 1
                 \/ \E i \in BeginOf(e, k)+1..e[k] : w[i].stale
                 \/ k > 1 /\ e[k] = BeginOf(e, k) /\ w[e[k]].stale,
           \/ Len(w) = LastEnd(e) + 1
           \/ \E i \in LastEnd(e)+1..Len(w) : w[i].stale
           \/ e # <<>> /\ LastEnd(e) = Len(w) /\ w[Len(w)].stale
    PROVE  Whole(w, Append(e, Len(w)), t)
  <1> DEFINE f == Append(e, Len(w))
  <1>1. /\ Len(f) = Len(e) + 1 /\ Len(e) \in Nat /\ Len(w) \in Nat /\ Len(w) > 0 /\ f \in Seq(Nat)
        /\ \A i \in 1..Len(e) : f[i] = e[i]
        /\ f[Len(e) + 1] = Len(w)
    BY AppendFacts
  <1> HIDE DEF f
  <1>2. \A k \in 1..Len(e) : BeginOf(f, k) = BeginOf(e, k)
    <2> SUFFICES ASSUME NEW k \in 1..Len(e) PROVE BeginOf(f, k) = BeginOf(e, k) OBVIOUS
    <2>1. k # 1 => k - 1 \in 1..Len(e) BY <1>1
    <2> QED BY <1>1, <2>1 DEF BeginOf
  <1>3. BeginOf(f, Len(e) + 1) = LastEnd(e)
    <2>1. CASE e = <<>> BY <2>1 DEF BeginOf, LastEnd
    <2>2. CASE e # <<>>
      <3>1. Len(e) \in 1..Len(e) /\ (Len(e) + 1) - 1 = Len(e) /\ Len(e) + 1 # 1 BY <1>1, <2>2
      <3> QED BY <1>1, <2>2, <3>1 DEF BeginOf, LastEnd
    <2> QED BY <2>1, <2>2
  <1>4. ASSUME NEW k \in 1..Len(f)
        PROVE  /\ f[k] \in 1..Len(w)
               /\ \/ f[k] = BeginOf(f, k) + 1
                  \/ \E i \in BeginOf(f, k)+1..f[k] : w[i].stale
                  \/ k > 1 /\ f[k] = BeginOf(f, k) /\ w[f[k]].stale
    <2>1. CASE k \in 1..Len(e) BY <1>1, <1>2, <2>1
    <2>2. CASE k = Len(e) + 1
      <3>1. f[k] = Len(w) /\ Len(w) \in 1..Len(w) /\ BeginOf(f, k) = LastEnd(e) BY <1>1, <1>3, <2>2
      <3>2. e # <<>> => k > 1 BY <1>1, <2>2
      <3> QED BY <3>1, <3>2
    <2> QED BY <1>1, <2>1, <2>2
  <1>5. LastEnd(f) = Len(w) BY <1>1 DEF LastEnd
  <1>6. Whole(w, f, t) BY <1>4, <1>5 DEF Whole
  <1> QED BY <1>6 DEF f

\* A bulk write with one packet.  Unless the packet follows a failed write, either the
\* write or the empty packet after it ends the transfer, and not both.
LEMMA WholeArrives ==
    ASSUME NEW w \in Seq(OutPackets), NEW e \in Seq(Nat), NEW p \in OutPackets,
           NEW s \in BOOLEAN, NEW t \in BOOLEAN, NEW short \in BOOLEAN, NEW zlp \in BOOLEAN,
           Whole(w, e, s), s => p.stale,
           short /\ zlp => p.stale, ~short /\ ~zlp => t \/ p.stale
    PROVE  LET now == Len(w) + 1
           IN  Whole(Append(w, p), IF short /\ zlp THEN e \o <<now, now>>
                                   ELSE IF short \/ zlp THEN Append(e, now) ELSE e, t)
  <1> DEFINE v == Append(w, p)
             now == Len(w) + 1
             f == Append(e, now)
  <1>1. /\ Len(v) = now /\ Len(w) \in Nat /\ v \in Seq(OutPackets) /\ v[now] = p /\ v # <<>>
        /\ \A i \in 1..Len(w) : v[i] = w[i]
    BY AppendFacts
  <1>2. now \in Nat /\ now \in 1..now BY <1>1
  <1>3. LastEnd(e) \in 0..Len(w) BY <1>1 DEF LastEnd, Whole
  <1>4. \A k \in 1..Len(e) :
           /\ e[k] \in 1..Len(v)
           /\ \/ e[k] = BeginOf(e, k) + 1
              \/ \E i \in BeginOf(e, k)+1..e[k] : v[i].stale
              \/ k > 1 /\ e[k] = BeginOf(e, k) /\ v[e[k]].stale
    <2>1. Whole(v, e, TRUE) BY WholeOpen, TRUE \in BOOLEAN
    <2> QED BY <2>1 DEF Whole
  <1>5. \/ Len(v) = LastEnd(e) + 1
        \/ \E i \in LastEnd(e)+1..Len(v) : v[i].stale
    <2>1. CASE LastEnd(e) = Len(w) BY <1>1, <2>1
    <2>2. CASE p.stale
      <3>1. now \in LastEnd(e)+1..Len(v) BY <1>1, <1>3
      <3> QED BY <1>1, <2>2, <3>1
    <2>3. CASE \E i \in LastEnd(e)+1..Len(w) : w[i].stale
      <3>1. PICK i \in LastEnd(e)+1..Len(w) : w[i].stale BY <2>3
      <3>2. i \in LastEnd(e)+1..Len(v) /\ i \in 1..Len(w) BY <1>1, <1>3
      <3> QED BY <1>1, <3>1, <3>2
    <2> QED BY <2>1, <2>2, <2>3 DEF Whole
  <1> HIDE DEF v
  <1>6. \A u \in BOOLEAN : Whole(v, f, u) BY <1>1, <1>4, <1>5, WholeEnd
  <1>7. /\ f \in Seq(Nat) /\ Len(f) = Len(e) + 1 /\ Len(e) \in Nat /\ f[Len(e) + 1] = now /\ f # <<>>
        /\ LastEnd(f) = now
    BY <1>2, AppendFacts DEF LastEnd
  <1> HIDE DEF f
  <1>8. ASSUME p.stale PROVE Whole(v, Append(f, now), t)
    <2>1. \A k \in 1..Len(f) :
           /\ f[k] \in 1..Len(v)
           /\ \/ f[k] = BeginOf(f, k) + 1
              \/ \E i \in BeginOf(f, k)+1..f[k] : v[i].stale
              \/ k > 1 /\ f[k] = BeginOf(f, k) /\ v[f[k]].stale
      BY <1>6 DEF Whole
    <2>2. f # <<>> /\ LastEnd(f) = Len(v) /\ v[Len(v)].stale BY <1>1, <1>7, <1>8
    <2>3. Whole(v, Append(f, Len(v)), t) BY <1>1, <1>7, <2>1, <2>2, WholeEnd
    <2> QED BY <1>1, <2>3
  <1>9. e \o <<now, now>> = Append(f, now) BY <1>2 DEF f
  <1>10. CASE short /\ zlp BY <1>8, <1>9, <1>10 DEF v
  <1>11. CASE (short \/ zlp) /\ ~(short /\ zlp) BY <1>6, <1>11 DEF v, f
  <1>12. CASE ~short /\ ~zlp BY <1>12, WholeOpen DEF v
  <1> QED BY <1>10, <1>11, <1>12

------------------------------------------------------------------------------
(* The steps that do not write.                                              *)

\* The steps of the device, of libusb's reads and of the parser.
Reading ==
    \/ DeviceSends \/ Unplug \/ TransferCompletes \/ TransferFails
    \/ ReadStep \/ VersionTimeout \/ RouteReturns

\* What they leave alone, and what they do to the state of the opening.
Apart ==
    /\ UNCHANGED <<build, outVars, writer, wireVars>>
    /\ phase' = phase \/ (phase = "await" /\ phase' \in {"failed", "setup"})
    /\ reader' = "off" <=> reader = "off"

\* from_reader fails the opening or ends it, and stops the reader loop at most.
LEMMA TakeApart ==
    ASSUME NEW n, Take(n) \/ IoError
    PROVE  /\ phase' = phase \/ (phase = "await" /\ phase' \in {"failed", "setup"})
           /\ reader' = "off" <=> reader = "off"
  <1>1. CASE IoError BY <1>1 DEF IoError
  <1>2. ASSUME NEW h, NEW at, NEW size, HeadersRead(h, at, size) \/ Decoded(h, at) \/ Rejected
        PROVE  /\ phase' = phase \/ (phase = "await" /\ phase' \in {"failed", "setup"})
               /\ reader' = "off" <=> reader = "off"
    BY <1>2, Zenon DEF HeadersRead, Decoded, Rejected
  <1>3. ASSUME NEW at, StageRead(at)
        PROVE  /\ phase' = phase \/ (phase = "await" /\ phase' \in {"failed", "setup"})
               /\ reader' = "off" <=> reader = "off"
    BY <1>2, <1>3, Zenon DEF StageRead
  <1>4. CASE Take(n) BY <1>3, <1>4, Zenon DEF Take
  <1> QED BY <1>1, <1>4

\* No step of the read side touches what is written.
LEMMA ReadingApart ==
    ASSUME Reading \/ UNCHANGED vars
    PROVE  Apart
  <1>1. CASE ReadBuffered BY <1>1, TakeApart, Zenon DEF Apart, ReadBuffered, ReadPass
  <1>2. CASE SubmitReadReady BY <1>2, TakeApart, Zenon DEF Apart, SubmitReadReady, ReadPass
  <1>3. CASE SubmitReadFails BY <1>3, TakeApart, Zenon DEF Apart, SubmitReadFails, ReadPass
  <1>4. CASE PollTransfer BY <1>4, TakeApart, Zenon DEF Apart, PollTransfer, ReadPass
  <1>5. CASE DeviceSends \/ Unplug \/ SubmitRead \/ TransferCompletes \/ TransferFails \/ VersionTimeout
    BY <1>5, Zenon DEF Apart, DeviceSends, Unplug, SubmitRead, TransferCompletes, TransferFails,
                       VersionTimeout, ReadPass, inVars
  <1>6. CASE RouteReturns BY <1>6, Zenon DEF Apart, RouteReturns, ReadPass
  <1>7. CASE UNCHANGED vars BY <1>7, Zenon DEF Apart, vars
  <1> QED BY <1>1, <1>2, <1>3, <1>4, <1>5, <1>6, <1>7 DEF Reading, ReadStep

\* The cable is not plugged in again, and faults are not forgotten.
LEMMA FaultsStay ==
    ASSUME TypeOK, [Next]_vars, plugged', faults' = 0
    PROVE  plugged /\ faults = 0
  <1>1. faults \in Nat BY DEF TypeOK
  <1>2. CASE plugged' = plugged /\ faults' = faults BY <1>2
  <1>3. CASE Unplug BY <1>3 DEF Unplug
  <1>4. CASE plugged' = plugged /\ faults' = faults + 1 BY <1>1, <1>4
  <1>5. CASE DeviceSends BY <1>2, <1>4, <1>5 DEF DeviceSends
  <1>6. CASE TransferFails BY <1>2, <1>4, <1>6 DEF TransferFails, ReadPass
  <1>7. CASE OpeningFails BY <1>2, <1>4, <1>7 DEF OpeningFails, NewPass
  <1>8. CASE SubmitEndFails BY <1>2, <1>4, <1>8 DEF SubmitEndFails, WritePass
  <1>9. CASE ReadStep \/ TransferCompletes \/ VersionTimeout \/ RouteReturns
    BY <1>2, <1>9 DEF ReadStep, ReadBuffered, SubmitRead, SubmitReadReady, SubmitReadFails, PollTransfer,
                      TransferCompletes, VersionTimeout, RouteReturns, ReadPass
  <1>10. CASE NewStep \/ OpeningWritten
    BY <1>2, <1>10 DEF NewStep, SendOpening, OpeningFlushed, OpeningWritten, NewPass
  <1>11. CASE Enqueue \/ WriterTakes \/ SubmitEnd
    BY <1>2, <1>11 DEF Enqueue, WriterTakes, SubmitEnd, WritePass
  <1>12. CASE UNCHANGED vars BY <1>2, <1>12 DEF vars
  <1> QED BY <1>3, <1>5, <1>6, <1>7, <1>8, <1>9, <1>10, <1>11, <1>12 DEF Next, WriteStep

\* A step apart from the writer keeps the write side.
LEMMA WriteFrame ==
    ASSUME TypeOK, WriteInv, [Next]_vars, Apart
    PROVE  WriteInv'
  <1>1. UNCHANGED <<chan, queued, send_seq, wbuf, wlen, current_transfer_len, wpending, stale, writer,
                    wire, ends>>
    BY DEF Apart, outVars, wireVars
  <1>2. phase' = "running" <=> phase = "running" BY DEF Apart
  <1>3. PhaseInv' BY <1>1, <1>2 DEF Apart, WriteInv, PhaseInv
  <1>4. BufferInv' BY <1>1 DEF WriteInv, BufferInv, Taken
  <1>5. ChanInv' BY <1>1 DEF WriteInv, ChanInv, Taken
  <1>6. NumberInv' BY <1>1, FaultsStay DEF WriteInv, NumberInv, Taken, Done
  <1>7. TransferInv' BY <1>1 DEF WriteInv, TransferInv
  <1>8. LengthInv' BY <1>1, <1>2 DEF Apart, WriteInv, LengthInv, Taken
  <1> QED BY <1>3, <1>4, <1>5, <1>6, <1>7, <1>8 DEF WriteInv

------------------------------------------------------------------------------
(* UsbDevice::new.                                                           *)

\* Everything is as it was for the writer loop when an opening packet is submitted,
\* fails or is flushed.
LEMMA OpeningFrame ==
    ASSUME TypeOK, WriteInv, [Next]_vars, NewPass, UNCHANGED wireVars,
           writer' = writer \/ (writer = "off" /\ writer' = "recv")
    PROVE  BufferInv' /\ ChanInv' /\ NumberInv' /\ TransferInv'
  <1>1. UNCHANGED <<chan, queued, send_seq, wbuf, wlen, stale, wire, ends>> BY DEF NewPass, wireVars
  <1>2. BufferInv' BY <1>1 DEF WriteInv, BufferInv, Taken
  <1>3. ChanInv' BY <1>1 DEF WriteInv, ChanInv, Taken
  <1>4. Done' = Done /\ Taken' = Taken BY <1>1 DEF Done, Taken
  <1>5. NumberInv' BY <1>1, <1>4, FaultsStay DEF WriteInv, NumberInv
  <1>6. TransferInv' BY <1>1 DEF WriteInv, TransferInv
  <1> QED BY <1>2, <1>3, <1>5, <1>6

\* write_all and flush of an opening packet.
LEMMA SendOpeningWrites ==
    ASSUME TypeOK, WriteInv, SendOpening
    PROVE  WriteInv'
  <1>1. /\ NewPass /\ UNCHANGED <<wireVars, writer, reader>> /\ phase \in {"version", "setup"}
        /\ phase' \in {"failed", "flush", "flush2"}
        /\ wpending' # "none" => phase' \in {"flush", "flush2"} \/ UNCHANGED wpending
    BY DEF SendOpening
  <1>2. BufferInv' /\ ChanInv' /\ NumberInv' /\ TransferInv'
    BY <1>1, OpeningFrame DEF Next, NewStep
  <1>3. PhaseInv' BY <1>1 DEF WriteInv, PhaseInv, NewPass
  <1>4. LengthInv'
    <2>1. CASE phase' = "failed" BY <2>1 DEF LengthInv
    <2>2. CASE phase = "version" /\ phase' = "flush" /\ current_transfer_len' = current_transfer_len + OpeningLen
      <3>1. current_transfer_len = 0 /\ OpeningLen = VersionPacket
        BY <2>2 DEF WriteInv, LengthInv, OpeningLen
      <3> QED BY <2>2, <3>1, Sizes DEF LengthInv
    <2>3. CASE phase = "setup" /\ phase' = "flush2" /\ current_transfer_len' = current_transfer_len + OpeningLen
      <3>1. current_transfer_len = VersionPacket /\ OpeningLen = SetupPacket
        BY <2>3 DEF WriteInv, LengthInv, OpeningLen
      <3> QED BY <2>3, <3>1, Sizes DEF LengthInv
    <2> QED BY <1>1, <2>1, <2>2, <2>3 DEF SendOpening
  <1> QED BY <1>2, <1>3, <1>4 DEF WriteInv

\* The opening packet cannot be written.
LEMMA OpeningFailsWrites ==
    ASSUME TypeOK, WriteInv, OpeningFails
    PROVE  WriteInv'
  <1>1. /\ NewPass /\ UNCHANGED <<wireVars, writer, reader, phase, current_transfer_len>>
        /\ wpending # "none"
    BY DEF OpeningFails
  <1>2. BufferInv' /\ ChanInv' /\ NumberInv' /\ TransferInv'
    BY <1>1, OpeningFrame DEF Next
  <1>3. PhaseInv' BY <1>1 DEF WriteInv, PhaseInv, NewPass
  <1>4. LengthInv' BY <1>1 DEF WriteInv, PhaseInv, LengthInv
  <1> QED BY <1>2, <1>3, <1>4 DEF WriteInv

\* The flush returns; after the second one the loops start.
LEMMA OpeningFlushedWrites ==
    ASSUME TypeOK, WriteInv, OpeningFlushed
    PROVE  WriteInv'
  <1>1. /\ NewPass /\ UNCHANGED <<wireVars, current_transfer_len>> /\ wpending' = "none"
        /\ phase \in {"flush", "flush2"} /\ writer = "off" /\ reader = "off"
        /\ \/ phase' = "failed"
           \/ phase = "flush" /\ phase' = "await"
           \/ phase = "flush2" /\ phase' = "running"
        /\ reader' = IF phase' = "running" THEN "run" ELSE reader
        /\ writer' = IF phase' = "running" THEN "recv" ELSE writer
    BY DEF OpeningFlushed, WriteInv, PhaseInv
  <1>2. BufferInv' /\ ChanInv' /\ NumberInv' /\ TransferInv'
    BY <1>1, OpeningFrame DEF Next, NewStep
  <1>3. PhaseInv'
    <2>1. UNCHANGED <<chan, queued, stale>> BY <1>1 DEF NewPass
    <2> QED BY <1>1, <2>1 DEF WriteInv, PhaseInv
  <1>4. Taken' = 0
    <2>1. queued' = 0 /\ chan' = <<>> BY <1>1 DEF NewPass, WriteInv, PhaseInv
    <2>2. Len(<<>>) = 0 /\ 0 - 0 = 0 OBVIOUS
    <2>3. Taken' = queued' - Len(chan') BY DEF Taken
    <2> QED BY <2>1, <2>2, <2>3, Zenon
  <1>5. LengthInv' BY <1>1, <1>4 DEF WriteInv, LengthInv
  <1> QED BY <1>2, <1>3, <1>5 DEF WriteInv

\* An opening packet is shorter than its last USB packet: it ends a transfer.
LEMMA OpeningWrittenWrites ==
    ASSUME TypeOK, WriteInv, OpeningWritten
    PROVE  WriteInv'
  <1>1. /\ NewPass /\ UNCHANGED <<writer, reader, phase, current_transfer_len, faults>>
        /\ wpending = "queued" /\ wpending' = "ok" /\ phase \in {"flush", "flush2"}
        /\ phase # "running" /\ writer = "off" /\ queued = 0 /\ chan = <<>> /\ ~stale
        /\ UNCHANGED <<chan, queued, send_seq, wbuf, wlen, stale, plugged>>
    BY DEF OpeningWritten, WriteInv, PhaseInv, NewPass
  <1>2. /\ PhaseInv' /\ BufferInv' /\ ChanInv'
    BY <1>1 DEF WriteInv, PhaseInv, BufferInv, ChanInv, Taken
  <1>3. LengthInv' BY <1>1 DEF WriteInv, LengthInv
  <1> DEFINE p == Opening
  <1>4. /\ p \in OutPackets /\ p.n = 0 /\ p.stale = FALSE
    <2>1. OpeningLen \in Nat BY Sizes DEF OpeningLen
    <2>2. 0 \in Nat /\ 0 \in 0..SeqRange-1 /\ SeqRange - 1 \in 0..SeqRange-1 BY Sizes
    <2> QED BY <2>1, <2>2 DEF Opening, OutPackets
  <1>5. (OpeningLen % max_packet_size # 0) = TRUE BY LinkAssumption DEF OpeningLen
  <1>6. /\ wire \in Seq(OutPackets) /\ ends \in Seq(Nat) /\ Len(wire) \in Nat BY DEF TypeOK
  <1> HIDE DEF p
  <1>7. wire' = Append(wire, p) /\ ends' = Append(ends, Len(wire) + 1)
    <2>1. Arrives(<<p>>, OpeningLen, FALSE) BY DEF OpeningWritten, p
    <2>2. wire' = wire \o <<p>> BY <2>1 DEF Arrives
    <2>3. Len(<<p>>) = 1 OBVIOUS
    <2>4. ends' = Append(ends, Len(wire) + 1) BY <1>5, <2>1, <2>3 DEF Arrives
    <2> QED BY <1>4, <1>6, <2>2, <2>4, ConcatOne
  <1>8. Taken = 0 /\ Done = 0 /\ Taken' = 0 /\ Done' = 0
    <2>1. Len(<<>>) = 0 /\ 0 - 0 = 0 OBVIOUS
    <2>2. Taken = 0 BY <1>1, <2>1, Zenon DEF Taken
    <2>3. Taken' = Taken BY <1>1, Zenon DEF Taken
    <2> QED BY <1>1, <2>2, <2>3 DEF Done
  <1>9. NumberInv'
    <2>1. Numbered(wire', Done')
      <3>1. Numbered(wire, 0) BY <1>8 DEF WriteInv, NumberInv
      <3>2. Numbered(Append(wire, p), 0) BY <1>4, <1>6, <3>1, NumberedAppend
      <3> QED BY <1>7, <1>8, <3>2
    <2>2. ASSUME faults' = 0, plugged' PROVE Gapless(wire') /\ (wire' # <<>> => wire'[Len(wire')].n = Done')
      <3>1. Gapless(wire) BY <1>1, <2>2 DEF WriteInv, NumberInv
      <3>2. wire # <<>> => p.n <= wire[Len(wire)].n + 1
        <4> SUFFICES ASSUME wire # <<>> PROVE p.n <= wire[Len(wire)].n + 1 OBVIOUS
        <4>1. Len(wire) \in 1..Len(wire) BY <1>6
        <4>2. wire[Len(wire)].n \in Nat BY <1>6, <4>1, PacketFields
        <4> QED BY <1>4, <4>2
      <3>3. Gapless(Append(wire, p)) /\ Append(wire, p)[Len(Append(wire, p))] = p
        BY <1>4, <1>6, <3>1, <3>2, GaplessAppend
      <3> QED BY <1>4, <1>7, <1>8, <3>3
    <2>3. writer' # "panicked" => send_seq' = (Taken' + 1) % SeqRange
      BY <1>1, <1>8 DEF WriteInv, NumberInv
    <2> QED BY <2>1, <2>2, <2>3 DEF NumberInv
  <1>10. TransferInv'
    <2>1. Whole(wire, ends, stale) /\ stale = FALSE /\ stale' = FALSE
      BY <1>1 DEF WriteInv, TransferInv, TypeOK
    <2>2. Whole(Append(wire, p), Append(ends, Len(wire) + 1), FALSE)
      BY <1>4, <1>6, <2>1, WholeArrives, TRUE \in BOOLEAN, FALSE \in BOOLEAN
    <2> QED BY <1>7, <2>1, <2>2 DEF TransferInv
  <1> QED BY <1>2, <1>3, <1>9, <1>10 DEF WriteInv

------------------------------------------------------------------------------
(* The writer loop.                                                          *)

\* A packet is queued.
LEMMA EnqueueWrites ==
    ASSUME TypeOK, WriteInv, Enqueue
    PROVE  WriteInv'
  <1>1. /\ UNCHANGED <<faults, send_seq, wbuf, wlen, current_transfer_len, wpending, stale, writer, wire,
                       ends, phase, plugged, reader>>
        /\ phase = "running" /\ queued' = queued + 1
    BY DEF Enqueue, WritePass, wireVars
  <1>2. PICK x \in IF queued = 0 THEN {0} ELSE Payloads : chan' = Append(chan, HEADERS_LEN_V2 + x)
    BY DEF Enqueue
  <1> DEFINE c == Append(chan, HEADERS_LEN_V2 + x)
  <1>3. x \in Nat /\ HEADERS_LEN_V2 + x \in 1..MAX_PACKET_SIZE /\ HEADERS_LEN_V2 + x \in Nat
    <2>1. x \in 0..(MAX_PACKET_SIZE - HEADERS_LEN_V2) BY <1>2, LinkAssumption
    <2>2. HEADERS_LEN_V2 \in Nat /\ MAX_PACKET_SIZE \in Nat /\ HEADERS_LEN_V2 > 0 BY Sizes
    <2> QED BY <2>1, <2>2
  <1>4. chan \in Seq(Nat) /\ queued \in Nat BY DEF TypeOK
  <1>5. /\ Len(c) = Len(chan) + 1 /\ Len(chan) \in Nat
        /\ \A i \in 1..Len(chan) : c[i] = chan[i]
        /\ c[Len(chan) + 1] = HEADERS_LEN_V2 + x
    BY <1>3, <1>4, AppendFacts
  <1> HIDE DEF c
  <1>6. chan' = c BY <1>2 DEF c
  <1>7. Taken' = Taken
    <2>1. (queued + 1) - Len(c) = queued - Len(chan) BY <1>4, <1>5
    <2>2. Taken' = (queued + 1) - Len(c) BY <1>1, <1>6, Zenon DEF Taken
    <2> QED BY <2>1, <2>2, Zenon DEF Taken
  <1>8. Done' = Done BY <1>1, <1>7 DEF Done
  <1>9. PhaseInv' BY <1>1 DEF WriteInv, PhaseInv
  <1>10. BufferInv' BY <1>1, <1>7, Zenon DEF WriteInv, BufferInv
  <1>11. ChanInv'
    <2>1. Len(c) <= queued + 1 BY <1>4, <1>5 DEF WriteInv, ChanInv
    <2>2. ASSUME NEW i \in 1..Len(c) PROVE c[i] \in 1..MAX_PACKET_SIZE
      <3>1. CASE i \in 1..Len(chan) BY <1>5, <3>1 DEF WriteInv, ChanInv
      <3>2. CASE i = Len(chan) + 1 BY <1>3, <1>5, <3>2
      <3> QED BY <1>5, <3>1, <3>2
    <2>3. ASSUME Taken = 0 PROVE c[1] = HEADERS_LEN_V2
      <3>1. CASE chan # <<>>
        <4>1. 1 \in 1..Len(chan) BY <1>4, <3>1
        <4> QED BY <1>5, <2>3, <3>1, <4>1 DEF WriteInv, ChanInv
      <3>2. CASE chan = <<>>
        <4>1. Len(chan) = 0 BY <3>2
        <4>2. queued = 0 BY <1>4, <2>3, <4>1 DEF Taken
        <4>3. x = 0 BY <1>2, <4>2
        <4> QED BY <1>5, <4>1, <4>3, Sizes
      <3> QED BY <3>1, <3>2
    <2> QED BY <1>1, <1>6, <1>7, <2>1, <2>2, <2>3 DEF ChanInv
  <1>12. NumberInv' BY <1>1, <1>7, <1>8, Zenon DEF WriteInv, NumberInv
  <1>13. TransferInv' BY <1>1 DEF WriteInv, TransferInv
  <1>14. LengthInv' BY <1>1, <1>7, Zenon DEF WriteInv, LengthInv
  <1> QED BY <1>9, <1>10, <1>11, <1>12, <1>13, <1>14 DEF WriteInv

\* The next packet of the channel leaves it.
LEMMA ChanTail ==
    ASSUME TypeOK, ChanInv, chan # <<>>, chan' = Tail(chan), queued' = queued
    PROVE  ChanInv' /\ Taken' = Taken + 1 /\ Taken \in Nat /\ Taken' > 0
  <1> DEFINE c == Tail(chan)
  <1>1. chan \in Seq(Nat) /\ queued \in Nat /\ Len(chan) <= queued BY DEF TypeOK, ChanInv
  <1>2. /\ Len(c) = Len(chan) - 1 /\ Len(chan) \in Nat \ {0}
        /\ \A i \in 1..Len(c) : c[i] = chan[i+1] /\ i + 1 \in 1..Len(chan)
    BY <1>1, TailFacts
  <1> HIDE DEF c
  <1>3. chan' = c BY DEF c
  <1>4. /\ queued - Len(c) = (queued - Len(chan)) + 1 /\ queued - Len(chan) \in Nat
        /\ (queued - Len(chan)) + 1 > 0 /\ (queued - Len(chan)) + 1 # 0 /\ Len(c) <= queued
    BY <1>1, <1>2
  <1>5. Taken' = Taken + 1 /\ Taken \in Nat /\ Taken' > 0 /\ Taken' # 0
    <2>1. Taken' = queued - Len(c) BY <1>3, Zenon DEF Taken
    <2> QED BY <1>4, <2>1, Zenon DEF Taken
  <1>6. ASSUME NEW i \in 1..Len(c) PROVE c[i] \in 1..MAX_PACKET_SIZE BY <1>2 DEF ChanInv
  <1>7. ChanInv' BY <1>3, <1>4, <1>5, <1>6 DEF ChanInv
  <1> QED BY <1>5, <1>7

\* A packet is numbered and put in the empty buffer; it never fills the buffer.
LEMMA WriterTakesWrites ==
    ASSUME TypeOK, WriteInv, WriterTakes
    PROVE  WriteInv'
  <1>1. /\ UNCHANGED <<faults, queued, stale, wire, ends, phase, plugged, reader>>
        /\ writer = "recv" /\ chan # <<>> /\ chan' = Tail(chan)
    BY DEF WriterTakes, WritePass, wireVars
  <1>2. ChanInv' /\ Taken' = Taken + 1 /\ Taken \in Nat /\ Taken' > 0 BY <1>1, ChanTail DEF WriteInv
  <1>3. phase = "running" /\ wpending = "none" /\ wbuf = <<>> /\ wlen = 0 /\ Done = Taken
        /\ send_seq = (Taken + 1) % SeqRange
    BY <1>1 DEF WriteInv, PhaseInv, BufferInv, NumberInv, Done
  <1>4. /\ Head(chan) \in 1..MAX_PACKET_SIZE /\ Head(chan) \in Nat
        /\ Taken = 0 => Head(chan) = HEADERS_LEN_V2
    <2>1. Head(chan) = chan[1] /\ 1 \in 1..Len(chan) BY <1>1, TailFacts DEF TypeOK
    <2>2. Head(chan) \in 1..MAX_PACKET_SIZE BY <2>1 DEF WriteInv, ChanInv
    <2> QED BY <1>1, <2>1, <2>2 DEF WriteInv, ChanInv
  <1>5. TransferInv' BY <1>1 DEF WriteInv, TransferInv
  <1>6. wire \in Seq(OutPackets) BY DEF TypeOK
  <1>7. CASE writer' = "panicked" /\ UNCHANGED <<send_seq, wbuf, wlen, current_transfer_len, wpending>>
    <2>1. PhaseInv' /\ BufferInv' /\ LengthInv'
      BY <1>1, <1>3, <1>7 DEF WriteInv, PhaseInv, BufferInv, LengthInv
    <2>2. Done' = Taken + 1 BY <1>2, <1>7 DEF Done
    <2>3. Numbered(wire, Taken + 1)
      <3>1. Numbered(wire, Taken) BY <1>3 DEF WriteInv, NumberInv
      <3>2. Taken + 1 \in Nat /\ Taken <= Taken + 1 BY <1>2
      <3> QED BY <1>2, <1>6, <3>1, <3>2, NumberedMore
    <2>4. NumberInv' BY <1>1, <1>7, <2>2, <2>3 DEF WriteInv, NumberInv
    <2> QED BY <1>2, <1>5, <2>1, <2>4 DEF WriteInv
  <1>8. CASE ~(build = "debug" /\ send_seq = SeqRange - 1)
    <2> DEFINE p == [n |-> queued - Len(chan) + 1, send |-> send_seq, recv |-> recv_seq,
                     len |-> Head(chan), stale |-> stale]
    <2>1. ~(wlen + p.len >= 2 * MAX_PACKET_SIZE) /\ wlen + p.len = p.len
      <3>1. MAX_PACKET_SIZE \in Nat /\ MAX_PACKET_SIZE > 0 BY Sizes
      <3>2. p.len = Head(chan) OBVIOUS
      <3> HIDE DEF p
      <3>3. p.len \in Nat /\ p.len <= MAX_PACKET_SIZE BY <1>4, <3>2
      <3>4. 0 + p.len = p.len /\ ~(p.len >= 2 * MAX_PACKET_SIZE) BY <3>1, <3>3
      <3> QED BY <1>3, <3>4, Zenon
    <2>2. /\ wbuf' = Append(wbuf, p) /\ wlen' = wlen + p.len /\ writer' = "submit" /\ wpending' = wpending
          /\ current_transfer_len' = current_transfer_len + 0
          /\ send_seq' = (send_seq + 1) % SeqRange
      BY <1>1, <1>8, <2>1, Zenon DEF WriterTakes
    <2>3. current_transfer_len' = current_transfer_len
      <3>1. current_transfer_len \in Nat BY DEF TypeOK
      <3>2. \A a \in Nat : a + 0 = a OBVIOUS
      <3> QED BY <2>2, <3>1, <3>2, Zenon
    <2>4. p.n = Taken + 1 /\ p.send = send_seq /\ p.len = Head(chan) /\ p.stale = stale BY DEF Taken
    <2> HIDE DEF p
    <2>5. wbuf' = <<p>> /\ wbuf'[1] = p BY <1>3, <2>2
    <2>6. wlen' = p.len BY <2>1, <2>2, Zenon
    <2>7. BufferInv'
      <3>1. p.send = p.n % SeqRange BY <1>3, <2>4, Zenon
      <3>2. p.n = Taken' /\ p.n > 0 BY <1>2, <2>4
      <3>3. /\ wbuf' = <<wbuf'[1]>> /\ wlen' = wbuf'[1].len /\ wbuf'[1].stale = stale'
            /\ wbuf'[1].n = Taken' /\ wbuf'[1].n > 0 /\ wbuf'[1].send = wbuf'[1].n % SeqRange
        BY <1>1, <2>4, <2>5, <2>6, <3>1, <3>2, Zenon
      <3> QED BY <2>2, <3>3 DEF BufferInv
    <2>8. PhaseInv' BY <1>1, <1>3, <2>2 DEF WriteInv, PhaseInv
    <2>9. Done' = Taken
      <3>1. (Taken + 1) - 1 = Taken BY <1>2
      <3> QED BY <1>2, <2>2, <3>1, Zenon DEF Done
    <2>10. send_seq' = (Taken' + 1) % SeqRange
      <3>1. Taken + 1 \in Nat /\ SeqRange \in Nat /\ SeqRange > 0 /\ 1 \in Nat BY <1>2, Sizes
      <3>2. (((Taken + 1) % SeqRange) + 1) % SeqRange = ((Taken + 1) + 1) % SeqRange BY <3>1, ModAdd
      <3> QED BY <1>2, <1>3, <2>2, <3>2, Zenon
    <2>11. NumberInv'
      <3>1. Numbered(wire', Done') BY <1>1, <1>3, <2>9 DEF WriteInv, NumberInv
      <3>2. ASSUME faults' = 0, plugged' PROVE Gapless(wire') /\ (wire' # <<>> => wire'[Len(wire')].n = Done')
        BY <1>1, <1>3, <2>9, <3>2 DEF WriteInv, NumberInv
      <3> QED BY <2>10, <3>1, <3>2 DEF NumberInv
    <2>12. LengthInv'
      <3>1. \/ stale' \/ current_transfer_len' = 0
            \/ current_transfer_len' = VersionPacket + SetupPacket /\ Taken = 0
        BY <1>1, <1>3, <2>3 DEF WriteInv, LengthInv
      <3>2. Taken = 0 => Taken' = 1 /\ wlen' = HEADERS_LEN_V2
        <4>1. 0 + 1 = 1 OBVIOUS
        <4> QED BY <1>2, <1>4, <2>4, <2>6, <4>1, Zenon
      <3> QED BY <1>1, <1>3, <2>2, <3>1, <3>2 DEF LengthInv
    <2> QED BY <1>2, <1>5, <2>7, <2>8, <2>11, <2>12 DEF WriteInv
  <1> QED BY <1>7, <1>8 DEF WriterTakes

\* The buffer is empty again, whatever became of the packet.
LEMMA Submitted ==
    ASSUME TypeOK, WriteInv, writer = "submit", writer' = "recv", wbuf' = <<>>, wlen' = 0,
           UNCHANGED <<chan, queued, send_seq, wpending, phase, plugged, reader>>
    PROVE  /\ PhaseInv' /\ BufferInv' /\ ChanInv'
           /\ Taken' = Taken /\ Done' = Taken /\ Done = Taken - 1 /\ Taken \in Nat /\ Taken > 0
           /\ wbuf = <<wbuf[1]>> /\ wbuf[1] \in OutPackets /\ wbuf[1].n = Taken
           /\ wbuf[1].send = wbuf[1].n % SeqRange /\ wbuf[1].stale = stale /\ wlen \in Nat
           /\ phase = "running" /\ send_seq' = (Taken' + 1) % SeqRange
  <1>1. Taken' = Taken BY DEF Taken
  <1>2. phase = "running" BY DEF WriteInv, PhaseInv
  <1>3. PhaseInv' /\ BufferInv' BY <1>2 DEF WriteInv, PhaseInv, BufferInv
  <1>4. ChanInv' BY <1>1 DEF WriteInv, ChanInv
  <1>5. /\ wbuf = <<wbuf[1]>> /\ wbuf[1].n = Taken /\ wbuf[1].n > 0
        /\ wbuf[1].send = wbuf[1].n % SeqRange /\ wbuf[1].stale = stale
    BY DEF WriteInv, BufferInv
  <1>6. wbuf[1] \in OutPackets /\ wbuf[1].n \in Nat
    <2>1. Len(wbuf) = 1 BY <1>5
    <2>2. wbuf \in Seq(OutPackets) /\ 1 \in 1..Len(wbuf) BY <2>1 DEF TypeOK
    <2> QED BY <2>2, PacketFields
  <1>7. Done' = Taken /\ Done = Taken - 1 BY <1>1 DEF Done
  <1>8. send_seq' = (Taken' + 1) % SeqRange BY <1>1 DEF WriteInv, NumberInv
  <1>9. Taken \in Nat /\ Taken > 0 BY <1>5, <1>6, Zenon
  <1> QED BY <1>1, <1>2, <1>3, <1>4, <1>5, <1>6, <1>7, <1>8, <1>9 DEF TypeOK

\* The packet that was submitted arrives.
LEMMA SubmittedArrives ==
    ASSUME TypeOK, WriteInv, writer = "submit", writer' = "recv", wbuf' = <<>>, wlen' = 0,
           UNCHANGED <<chan, queued, send_seq, wpending, phase, plugged, reader>>,
           faults' = 0 /\ plugged => faults = 0, NEW zlp \in BOOLEAN, Arrives(wbuf, wlen, zlp),
           stale' \in BOOLEAN,
           wlen % max_packet_size # 0 /\ zlp => stale,
           wlen % max_packet_size = 0 /\ ~zlp => stale' \/ stale
    PROVE  NumberInv' /\ TransferInv'
  <1> DEFINE p == wbuf[1]
             short == wlen % max_packet_size # 0
  <1>1. /\ Taken' = Taken /\ Done' = Taken /\ Done = Taken - 1 /\ Taken \in Nat /\ Taken > 0
        /\ wbuf = <<p>> /\ p \in OutPackets /\ p.n = Taken
        /\ p.send = p.n % SeqRange /\ p.stale = stale
        /\ send_seq' = (Taken' + 1) % SeqRange
    BY Submitted
  <1>2. wire \in Seq(OutPackets) /\ ends \in Seq(Nat) /\ stale \in BOOLEAN BY DEF TypeOK
  <1> HIDE DEF p
  <1>3. /\ wire' = Append(wire, p)
        /\ ends' = IF short /\ zlp THEN ends \o <<Len(wire) + 1, Len(wire) + 1>>
                   ELSE IF short \/ zlp THEN Append(ends, Len(wire) + 1) ELSE ends
    <2>1. wire' = wire \o <<p>> BY <1>1 DEF Arrives
    <2>2. Len(<<p>>) = 1 OBVIOUS
    <2>3. Len(wbuf) = 1 BY <1>1, <2>2, Zenon
    <2>4. ends' = IF short /\ zlp THEN ends \o <<Len(wire) + 1, Len(wire) + 1>>
                  ELSE IF short \/ zlp THEN Append(ends, Len(wire) + 1) ELSE ends
      BY <2>3, Zenon DEF Arrives
    <2> QED BY <1>1, <1>2, <2>1, <2>4, ConcatOne
  <1>4. NumberInv'
    <2>1. Numbered(wire', Done')
      <3>1. Numbered(wire, Done) BY DEF WriteInv, NumberInv
      <3>2. Done \in Nat /\ Done <= Taken /\ Done < p.n /\ p.n <= Taken BY <1>1
      <3>3. Numbered(Append(wire, p), Taken) BY <1>1, <1>2, <3>1, <3>2, NumberedAppend
      <3> QED BY <1>1, <1>3, <3>3
    <2>2. ASSUME faults' = 0, plugged' PROVE Gapless(wire') /\ (wire' # <<>> => wire'[Len(wire')].n = Done')
      <3>1. Gapless(wire) /\ (wire # <<>> => wire[Len(wire)].n = Done) BY <2>2 DEF WriteInv, NumberInv
      <3>2. Done + 1 = p.n /\ p.n <= Done + 1 BY <1>1
      <3>3. wire # <<>> => p.n <= wire[Len(wire)].n + 1 BY <3>1, <3>2, Zenon
      <3>4. Gapless(Append(wire, p)) /\ Append(wire, p)[Len(Append(wire, p))] = p
        BY <1>1, <1>2, <3>1, <3>3, GaplessAppend
      <3> QED BY <1>1, <1>3, <3>4, Zenon
    <2> QED BY <1>1, <2>1, <2>2 DEF NumberInv
  <1>5. TransferInv'
    <2>1. Whole(wire, ends, stale) /\ short \in BOOLEAN BY DEF WriteInv, TransferInv
    <2>2. /\ stale => p.stale
          /\ short /\ zlp => p.stale
          /\ ~short /\ ~zlp => stale' \/ p.stale
      BY <1>1
    <2> HIDE DEF short
    <2>3. Whole(Append(wire, p), IF short /\ zlp THEN ends \o <<Len(wire) + 1, Len(wire) + 1>>
                                 ELSE IF short \/ zlp THEN Append(ends, Len(wire) + 1) ELSE ends, stale')
      BY <1>1, <1>2, <2>1, <2>2, WholeArrives
    <2> QED BY <1>3, <2>3 DEF TransferInv
  <1> QED BY <1>4, <1>5

\* sync_flush_and_zlp: the packet is a transfer of its own, unless the length of a failed
\* write was counted.
LEMMA SubmitEndWrites ==
    ASSUME TypeOK, WriteInv, SubmitEnd
    PROVE  WriteInv'
  <1> DEFINE zlp == (current_transfer_len + wlen) % max_packet_size = 0
  <1>1. /\ writer = "submit" /\ writer' = "recv" /\ wbuf' = <<>> /\ wlen' = 0
        /\ UNCHANGED <<chan, queued, send_seq, wpending, phase, plugged, reader, faults>>
        /\ Arrives(wbuf, wlen, zlp)
        /\ current_transfer_len' = 0
    BY DEF SubmitEnd, WritePass
  <1>2. stale' = FALSE BY Zenon DEF SubmitEnd
  <1>3. /\ PhaseInv' /\ BufferInv' /\ ChanInv' /\ Taken \in Nat /\ Taken > 0
        /\ phase = "running" /\ wlen \in Nat
    BY <1>1, Submitted
  <1>4. \/ stale \/ current_transfer_len = 0
        \/ current_transfer_len = VersionPacket + SetupPacket /\ wlen = HEADERS_LEN_V2
    <2>1. Taken # 0 BY <1>3
    <2> QED BY <1>1, <1>3, <2>1 DEF WriteInv, LengthInv
  <1>5. ~stale => (zlp <=> wlen % max_packet_size = 0)
    <2>1. CASE stale BY <2>1
    <2>2. CASE current_transfer_len = 0
      <3>1. 0 + wlen = wlen BY <1>3
      <3> QED BY <2>2, <3>1, Zenon
    <2>3. CASE current_transfer_len = VersionPacket + SetupPacket /\ wlen = HEADERS_LEN_V2
      <3>1. /\ HEADERS_LEN_V2 % max_packet_size # 0
            /\ (VersionPacket + SetupPacket + HEADERS_LEN_V2) % max_packet_size # 0
        BY LinkAssumption, Zenon
      <3> QED BY <2>3, <3>1, Zenon
    <2> QED BY <1>4, <2>1, <2>2, <2>3
  <1>6. NumberInv' /\ TransferInv'
    <2>1. zlp \in BOOLEAN /\ stale' \in BOOLEAN BY <1>2
    <2>2. /\ wlen % max_packet_size # 0 /\ zlp => stale
          /\ wlen % max_packet_size = 0 /\ ~zlp => stale' \/ stale
      BY <1>5, Zenon
    <2> HIDE DEF zlp
    <2> QED BY <1>1, <2>1, <2>2, SubmittedArrives
  <1>7. LengthInv' BY <1>1, <1>3 DEF LengthInv
  <1> QED BY <1>3, <1>6, <1>7 DEF WriteInv

\* The write fails: the next packet is spoilt at most.
LEMMA SubmitEndFailsWrites ==
    ASSUME TypeOK, WriteInv, SubmitEndFails
    PROVE  WriteInv'
  <1>1. /\ writer = "submit" /\ writer' = "recv" /\ wbuf' = <<>> /\ wlen' = 0
        /\ UNCHANGED <<chan, queued, send_seq, wpending, phase, plugged, reader>>
        /\ UNCHANGED wireVars \/ Arrives(wbuf, wlen, FALSE)
    BY DEF SubmitEndFails, WritePass
  <1>2. stale' = TRUE BY Zenon DEF SubmitEndFails
  <1>3. /\ PhaseInv' /\ BufferInv' /\ ChanInv' /\ Taken' = Taken /\ Done' = Taken
        /\ Done = Taken - 1 /\ Taken \in Nat /\ Taken > 0 /\ phase = "running"
        /\ send_seq' = (Taken' + 1) % SeqRange
    BY <1>1, Submitted
  <1>4. ~(faults' = 0 /\ plugged)
    <2>1. faults \in Nat BY DEF TypeOK
    <2>2. faults + 1 # 0 BY <2>1
    <2> QED BY <2>2 DEF SubmitEndFails
  <1>5. LengthInv' BY <1>1, <1>2, <1>3 DEF LengthInv
  <1>6. CASE UNCHANGED wireVars
    <2>1. wire' = wire /\ ends' = ends BY <1>6 DEF wireVars
    <2>2. Numbered(wire', Done')
      <3>1. Numbered(wire, Done) /\ wire \in Seq(OutPackets) BY DEF WriteInv, NumberInv, TypeOK
      <3>2. Done \in Nat /\ Done <= Taken BY <1>3
      <3>3. Numbered(wire, Taken) BY <1>3, <3>1, <3>2, NumberedMore
      <3> QED BY <1>3, <2>1, <3>3
    <2>3. NumberInv' BY <1>1, <1>3, <1>4, <2>2 DEF NumberInv
    <2>4. TransferInv' BY <1>2, <2>1 DEF WriteInv, TransferInv, Whole
    <2> QED BY <1>3, <1>5, <2>3, <2>4 DEF WriteInv
  <1>7. CASE Arrives(wbuf, wlen, FALSE)
    <2>1. NumberInv' /\ TransferInv'
      BY <1>1, <1>2, <1>4, <1>7, SubmittedArrives, FALSE \in BOOLEAN
    <2> QED BY <1>3, <1>5, <2>1 DEF WriteInv
  <1> QED BY <1>1, <1>6, <1>7

\* Every step keeps the write side.
LEMMA WriteStepKeeps ==
    ASSUME TypeOK, WriteInv, [Next]_vars
    PROVE  WriteInv'
  <1>1. CASE Reading \/ UNCHANGED vars BY <1>1, ReadingApart, WriteFrame
  <1>2. CASE SendOpening BY <1>2, SendOpeningWrites
  <1>3. CASE OpeningFlushed BY <1>3, OpeningFlushedWrites
  <1>4. CASE OpeningWritten BY <1>4, OpeningWrittenWrites
  <1>5. CASE OpeningFails BY <1>5, OpeningFailsWrites
  <1>6. CASE Enqueue BY <1>6, EnqueueWrites
  <1>7. CASE WriterTakes BY <1>7, WriterTakesWrites
  <1>8. CASE SubmitEnd BY <1>8, SubmitEndWrites
  <1>9. CASE SubmitEndFails BY <1>9, SubmitEndFailsWrites
  <1> QED BY <1>1, <1>2, <1>3, <1>4, <1>5, <1>6, <1>7, <1>8, <1>9 DEF Next, Reading, NewStep, WriteStep

------------------------------------------------------------------------------
(* The stream of the device.                                                 *)

\* The fields of the packets the device has sent.
LEMMA SentFields ==
    ASSUME TypeOK, NEW k \in 1..Len(sent)
    PROVE  /\ sent[k] \in Packets /\ sent[k].start \in Nat /\ sent[k].size \in Nat
           /\ sent[k].length \in Nat /\ sent[k].length <= MAX_PACKET_SIZE + 1
           /\ HeaderOf(sent[k]) \in Header /\ sent[k].opts \in BOOLEAN
  <1>1. sent[k] \in Packets BY DEF TypeOK
  <1>2. sent[k].length \in Lengths BY <1>1 DEF Packets
  <1>3. HeaderOf(sent[k]) \in Header BY <1>1 DEF Packets, Header, HeaderOf
  <1>4. sent[k].length \in Nat /\ sent[k].length <= MAX_PACKET_SIZE + 1 BY <1>2, Sizes DEF Lengths
  <1> QED BY <1>1, <1>3, <1>4 DEF Packets

\* No packet is empty.
LEMMA SentNotEmpty ==
    ASSUME TypeOK, SentInv, NEW k \in 1..Len(sent)
    PROVE  sent[k].size > 0
  <1>1. sent[k].length \in Nat /\ sent[k].size \in Nat BY SentFields
  <1>2. Shape(sent[k]) BY DEF SentInv
  <1>3. \/ sent[k].size > V1Size \/ sent[k].size > V2Size \/ sent[k].size = V2Size
        \/ sent[k].size >= HEADERS_LEN_V2
    BY <1>2 DEF Shape
  <1> QED BY <1>1, <1>3, Sizes

\* The stream has an end.
LEMMA StreamEndNat ==
    ASSUME TypeOK
    PROVE  StreamEnd \in Nat
  <1>1. CASE sent = <<>> BY <1>1 DEF StreamEnd
  <1>2. CASE sent # <<>>
    <2>1. Len(sent) \in 1..Len(sent) BY <1>2 DEF TypeOK
    <2>2. sent[Len(sent)].start \in Nat /\ sent[Len(sent)].size \in Nat BY <2>1, SentFields
    <2> QED BY <1>2, <2>2 DEF StreamEnd
  <1> QED BY <1>1, <1>2

\* The packets before the end of a packet are those before it and the packet itself.
LEMMA PacketsBelow ==
    ASSUME TypeOK, SentInv, NEW k \in 1..Len(sent), NEW j \in 1..Len(sent)
    PROVE  /\ sent[j].start < sent[k].start + sent[k].size => sent[j].start < sent[k].start \/ j = k
           /\ sent[j].start = sent[k].start => j = k
  <1> DEFINE a == sent[j].start
             b == sent[k].start
             x == sent[j].size
             y == sent[k].size
  <1>1. a \in Nat /\ b \in Nat /\ x \in Nat /\ y \in Nat BY SentFields
  <1>2. x > 0 /\ y > 0 BY SentNotEmpty
  <1>3. (j < k => a + x <= b) /\ (k < j => b + y <= a) BY DEF SentInv
  <1>4. j \in Int /\ k \in Int OBVIOUS
  <1> HIDE DEF a, b, x, y
  <1>5. /\ a < b + y => a < b \/ j = k
        /\ a = b => j = k
    BY <1>1, <1>2, <1>3, <1>4
  <1> QED BY <1>5 DEF a, b, x, y

\* A packet ends where the next one starts, or where the stream ends.
LEMMA PacketEnd ==
    ASSUME TypeOK, SentInv, NEW k \in 1..Len(sent)
    PROVE  Boundary(sent[k].start + sent[k].size)
  <1>1. Len(sent) \in Nat BY DEF TypeOK
  <1>2. CASE k = Len(sent)
    <2>1. sent # <<>> BY <1>1, <1>2
    <2> QED BY <1>2, <2>1 DEF Boundary, StreamEnd
  <1>3. CASE k < Len(sent)
    <2>1. k + 1 \in 1..Len(sent) BY <1>1, <1>3
    <2> QED BY <1>3, <2>1 DEF Boundary, SentInv
  <1> QED BY <1>1, <1>2, <1>3

\* The elements of a sequence, and the last one, are of its type.
LEMMA ElementsOf ==
    ASSUME NEW S, NEW q \in Seq(S)
    PROVE  /\ \A i \in 1..Len(q) : q[i] \in S
           /\ q # <<>> => Len(q) \in 1..Len(q) /\ q[Len(q)] \in S
  OBVIOUS

\* The parser is past a packet that it has rejected as a whole: got is still exact.
LEMMA ExactSkips ==
    ASSUME TypeOK, SentInv, NEW k \in 1..Len(sent), ~Accepted(sent[k]), NEW g \in Seq(Nat),
           GotExact(g, sent[k].start)
    PROVE  GotExact(g, sent[k].start + sent[k].size)
  <1> DEFINE b == sent[k].start
             e == sent[k].start + sent[k].size
  <1>1. b \in Nat /\ sent[k].size \in Nat BY SentFields
  <1>2. b <= e /\ e \in Nat BY <1>1
  <1>3. \A j \in 1..Len(sent) : Accepted(sent[j]) /\ sent[j].start < e => sent[j].start < b
    BY PacketsBelow
  <1>4. \A i \in 1..Len(g) : g[i] \in Nat /\ g[i] < b
    <2>1. \A i \in 1..Len(g) : g[i] < b BY Zenon DEF GotExact
    <2>2. \A i \in 1..Len(g) : g[i] \in Nat BY ElementsOf
    <2> QED BY <2>1, <2>2, Zenon
  <1> HIDE DEF b, e
  <1>5. \A i \in 1..Len(g) : g[i] < e BY <1>1, <1>2, <1>4
  <1>6. GotExact(g, b) BY DEF b
  <1>7. GotExact(g, e) BY <1>3, <1>5, <1>6, Zenon DEF GotExact
  <1> QED BY <1>7 DEF e

\* The parser is past a packet that it has accepted.
LEMMA ExactTakes ==
    ASSUME TypeOK, SentInv, NEW k \in 1..Len(sent), Accepted(sent[k]), NEW g \in Seq(Nat),
           GotExact(g, sent[k].start)
    PROVE  GotExact(Append(g, sent[k].start), sent[k].start + sent[k].size)
  <1> DEFINE b == sent[k].start
             e == sent[k].start + sent[k].size
             f == Append(g, b)
  <1>1. b \in Nat /\ sent[k].size \in Nat /\ sent[k].size > 0 BY SentFields, SentNotEmpty
  <1>2. b < e /\ e \in Nat BY <1>1
  <1>3. \A j \in 1..Len(sent) : sent[j].start < e => sent[j].start < b \/ sent[j].start = b
    BY PacketsBelow
  <1>4. \A i \in 1..Len(g) : g[i] \in Nat /\ g[i] < b
    <2>1. \A i \in 1..Len(g) : g[i] < b BY Zenon DEF GotExact
    <2>2. \A i \in 1..Len(g) : g[i] \in Nat BY ElementsOf
    <2> QED BY <2>1, <2>2, Zenon
  <1>5. /\ Len(f) = Len(g) + 1 /\ Len(g) \in Nat
        /\ \A i \in 1..Len(g) : f[i] = g[i]
        /\ f[Len(g) + 1] = b
    BY <1>1, AppendFacts
  <1>6. Accepted(sent[k]) /\ sent[k].start = b OBVIOUS
  <1>7. GotExact(g, b) OBVIOUS
  <1> HIDE DEF b, e, f
  <1>8. ASSUME NEW i \in 1..Len(f), NEW j \in 1..Len(f), i < j PROVE f[i] < f[j]
    <2>1. i \in 1..Len(g) BY <1>5, <1>8
    <2>2. CASE j \in 1..Len(g) BY <1>5, <1>7, <1>8, <2>1, <2>2 DEF GotExact
    <2>3. CASE j = Len(g) + 1 BY <1>4, <1>5, <2>1, <2>3
    <2> QED BY <1>5, <2>2, <2>3
  <1>9. ASSUME NEW i \in 1..Len(f)
        PROVE  f[i] < e /\ \E m \in 1..Len(sent) : Accepted(sent[m]) /\ sent[m].start = f[i]
    <2>1. CASE i \in 1..Len(g)
      <3>1. f[i] = g[i] /\ g[i] \in Nat /\ g[i] < b BY <1>4, <1>5, <2>1
      <3>2. f[i] < e BY <1>1, <1>2, <3>1
      <3>3. \E m \in 1..Len(sent) : Accepted(sent[m]) /\ sent[m].start = g[i]
        BY <1>7, <2>1, Zenon DEF GotExact
      <3> QED BY <3>1, <3>2, <3>3, Zenon
    <2>2. CASE i = Len(g) + 1 BY <1>2, <1>5, <1>6, <2>2
    <2> QED BY <1>5, <2>1, <2>2
  <1>10. ASSUME NEW m \in 1..Len(sent), Accepted(sent[m]), sent[m].start < e
         PROVE  \E i \in 1..Len(f) : f[i] = sent[m].start
    <2>1. CASE sent[m].start < b
      <3>1. PICK i \in 1..Len(g) : g[i] = sent[m].start BY <1>7, <1>10, <2>1, Zenon DEF GotExact
      <3>2. i \in 1..Len(f) /\ f[i] = g[i] BY <1>5
      <3> QED BY <3>1, <3>2, Zenon
    <2>2. CASE sent[m].start = b
      <3>1. Len(g) + 1 \in 1..Len(f) BY <1>5
      <3> QED BY <1>5, <2>2, <3>1, Zenon
    <2> QED BY <1>3, <1>10, <2>1, <2>2
  <1>11. GotExact(f, e) BY <1>8, <1>9, <1>10, Zenon DEF GotExact
  <1> QED BY <1>11 DEF b, e, f

\* The packets a device may send next.
LEMMA NewPacket ==
    ASSUME TypeOK, NEW p \in WellFormed \cup Malformed
    PROVE  p \in Packets /\ Shape(p) /\ p.start = StreamEnd /\ p.size \in Nat /\ p.size > 0
  <1>1. StreamEnd \in Nat BY StreamEndNat
  <1> DEFINE End == StreamEnd
  <1> HIDE DEF End
  <1>2. ASSUME NEW proto \in Protocols, NEW length \in Lengths, NEW opts \in BOOLEAN, NEW size \in Nat, size > 0,
               p = Pkt(proto, length, opts, size, StreamEnd)
        PROVE  /\ p \in Packets /\ p.start = StreamEnd /\ p.size = size /\ p.size > 0
               /\ p.proto = proto /\ p.length = length /\ p.opts = opts
    BY <1>1, <1>2 DEF Pkt, Packets
  <1>3. /\ VersionPacket \in Lengths /\ VersionPacket \in Nat /\ VersionPacket > 0
        /\ VersionPacket > V1Size /\ VersionPacket + 1 > V1Size
        /\ VersionPacket + 1 \in Lengths /\ VersionPacket + 1 \in Nat /\ VersionPacket + 1 > 0
        /\ V2Size + 1 \in Lengths /\ V2Size + 1 \in Nat /\ V2Size + 1 > 0 /\ V2Size + 1 > V2Size
        /\ V1Size + 1 \in Lengths /\ V1Size + 1 \in Nat /\ V1Size + 1 > 0 /\ V1Size + 1 > V1Size
        /\ V1Size \in Lengths /\ V2Size \in Nat /\ V2Size > 0 /\ V1Size < V2Size
        /\ HEADERS_LEN_V2 + 1 \in Lengths /\ HEADERS_LEN_V2 + 1 \in Nat /\ HEADERS_LEN_V2 + 1 > 0
        /\ HEADERS_LEN_V2 + 1 >= HEADERS_LEN_V2
    BY Sizes DEF Lengths
  <1>4. \A x \in Payloads : /\ HEADERS_LEN_V2 + x \in Lengths /\ HEADERS_LEN_V2 + x \in Nat
                            /\ HEADERS_LEN_V2 + x > 0 /\ HEADERS_LEN_V2 + x >= HEADERS_LEN_V2
    <2> SUFFICES ASSUME NEW x \in Payloads
                 PROVE  /\ HEADERS_LEN_V2 + x \in Lengths /\ HEADERS_LEN_V2 + x \in Nat
                        /\ HEADERS_LEN_V2 + x > 0 /\ HEADERS_LEN_V2 + x >= HEADERS_LEN_V2
      OBVIOUS
    <2>1. x \in 0..(MAX_PACKET_SIZE - HEADERS_LEN_V2) BY LinkAssumption
    <2> QED BY <2>1, Sizes DEF Lengths
  <1>5. {"Version", "Control", "Tcp", "unknown"} \subseteq Protocols BY DEF Protocols
  <1>6. CASE p = Pkt("Version", VersionPacket, FALSE, VersionPacket, StreamEnd)
    BY <1>2, <1>3, <1>5, <1>6 DEF Shape
  <1>7. CASE p = Pkt("Control", V2Size + 1, FALSE, V2Size + 1, StreamEnd)
    BY <1>2, <1>3, <1>5, <1>7 DEF Shape
  <1>8. CASE \E x \in Payloads : p = Pkt("Tcp", HEADERS_LEN_V2 + x, FALSE, HEADERS_LEN_V2 + x, StreamEnd)
    <2>1. PICK x \in Payloads : p = Pkt("Tcp", HEADERS_LEN_V2 + x, FALSE, HEADERS_LEN_V2 + x, StreamEnd)
      BY <1>8
    <2>2. "Tcp" \in Protocols /\ FALSE \in BOOLEAN BY <1>5
    <2>3. /\ p \in Packets /\ p.start = StreamEnd /\ p.size = HEADERS_LEN_V2 + x /\ p.size > 0
          /\ p.proto = "Tcp" /\ p.length = HEADERS_LEN_V2 + x
      BY <1>2, <1>4, <2>1, <2>2
    <2> QED BY <1>4, <2>3 DEF Shape
  <1>9. CASE p = Pkt("Tcp", HEADERS_LEN_V2 + 1, TRUE, HEADERS_LEN_V2 + 1, StreamEnd)
    BY <1>2, <1>3, <1>5, <1>9 DEF Shape
  <1>10. CASE p = Pkt("unknown", V1Size + 1, FALSE, V1Size + 1, StreamEnd)
    BY <1>2, <1>3, <1>5, <1>10 DEF Shape
  <1>11. CASE p = Pkt("Control", V1Size, FALSE, V2Size, StreamEnd)
    BY <1>2, <1>3, <1>5, <1>11 DEF Shape
  <1>12. CASE p = Pkt("Version", VersionPacket + 1, FALSE, VersionPacket + 1, StreamEnd)
    BY <1>2, <1>3, <1>5, <1>12 DEF Shape
  <1> QED BY <1>6, <1>7, <1>8, <1>9, <1>10, <1>11, <1>12, Zenon DEF WellFormed, Malformed

\* The parser is not past the end of the stream, nor is the packet it reads.
LEMMA BaseBelow ==
    ASSUME TypeOK, FlowInv, StageInv
    PROVE  /\ Base \in Nat /\ Base <= pos /\ pos <= StreamEnd
           /\ \A i \in 1..Len(got) : got[i] \in Nat /\ got[i] < StreamEnd
  <1>1. /\ pos \in Nat /\ need \in Nat /\ hpos \in Nat /\ buffered \in Nat /\ flight \in Nat
        /\ transfer.n \in Nat
    BY Sizes DEF TypeOK
  <1>2. StreamEnd \in Nat BY StreamEndNat
  <1>3. pos <= StreamEnd BY <1>1, <1>2 DEF FlowInv
  <1>4. Base \in Nat /\ Base <= pos
    <2>1. CASE stage = "v1" BY <1>1, <2>1, Sizes DEF Base, StageInv
    <2>2. CASE stage # "v1" BY <1>1, <2>2 DEF Base, StageInv
    <2> QED BY <2>1, <2>2
  <1>5. \A i \in 1..Len(got) : got[i] \in Nat /\ got[i] < pos
    <2>1. \A i \in 1..Len(got) : got[i] \in Nat
      <3>1. got \in Seq(Nat) BY Zenon DEF TypeOK
      <3> QED BY <3>1, ElementsOf
    <2> QED BY <2>1 DEF FlowInv
  <1>6. \A i \in 1..Len(got) : got[i] \in Nat /\ got[i] < StreamEnd BY <1>1, <1>2, <1>3, <1>5
  <1> QED BY <1>3, <1>4, <1>6

\* The stream goes on with another packet.
LEMMA SentAppend ==
    ASSUME TypeOK, SentInv, NEW p \in WellFormed \cup Malformed, sent' = Append(sent, p)
    PROVE  /\ SentInv' /\ StreamEnd' = StreamEnd + p.size
           /\ Len(sent') = Len(sent) + 1 /\ Len(sent) \in Nat
           /\ \A k \in 1..Len(sent) : sent'[k] = sent[k]
           /\ sent'[Len(sent) + 1] = p
  <1> DEFINE s == Append(sent, p)
             End == StreamEnd
  <1>1. p \in Packets /\ Shape(p) /\ p.start = End /\ p.size \in Nat /\ p.size > 0 BY NewPacket
  <1>2. sent \in Seq(Packets) /\ End \in Nat BY StreamEndNat DEF TypeOK
  <1>3. /\ Len(s) = Len(sent) + 1 /\ Len(sent) \in Nat /\ s \in Seq(Packets)
        /\ \A k \in 1..Len(sent) : s[k] = sent[k]
        /\ s[Len(sent) + 1] = p
    BY <1>1, <1>2, AppendFacts
  <1>4. \A k \in 1..Len(sent) : sent[k].start \in Nat /\ sent[k].size \in Nat BY SentFields
  <1>5. \A k \in 1..Len(sent) : Shape(sent[k]) /\ sent[k].start + sent[k].size <= End BY DEF SentInv
  <1>6. sent # <<>> => sent[Len(sent)].start + sent[Len(sent)].size = End BY DEF StreamEnd
  <1>7. sent = <<>> => End = 0 BY DEF StreamEnd
  <1> HIDE DEF s, End
  <1>8. sent' = s BY DEF s
  <1>9. s # <<>> /\ s[Len(s)] = p BY <1>3
  <1>10. StreamEnd' = End + p.size BY <1>1, <1>8, <1>9 DEF StreamEnd
  <1>11. \A k \in 1..Len(s) : Shape(s[k]) /\ s[k].start + s[k].size <= End + p.size
    <2> SUFFICES ASSUME NEW k \in 1..Len(s)
                 PROVE  Shape(s[k]) /\ s[k].start + s[k].size <= End + p.size
      OBVIOUS
    <2>1. CASE k \in 1..Len(sent)
      <3>1. s[k] = sent[k] BY <1>3, <2>1
      <3>2. sent[k].start + sent[k].size <= End + p.size BY <1>1, <1>2, <1>4, <1>5, <2>1
      <3> QED BY <1>5, <2>1, <3>1, <3>2
    <2>2. CASE k = Len(sent) + 1 BY <1>1, <1>2, <1>3, <2>2
    <2> QED BY <1>3, <2>1, <2>2
  <1>12. \A k \in 1..Len(s) : k < Len(s) => s[k+1].start = s[k].start + s[k].size
    <2> SUFFICES ASSUME NEW k \in 1..Len(s), k < Len(s) PROVE s[k+1].start = s[k].start + s[k].size
      OBVIOUS
    <2>1. CASE k < Len(sent)
      <3>1. k \in 1..Len(sent) /\ k + 1 \in 1..Len(sent) BY <1>3, <2>1
      <3>2. s[k] = sent[k] /\ s[k+1] = sent[k+1] BY <1>3, <3>1
      <3> QED BY <2>1, <3>1, <3>2 DEF SentInv
    <2>2. CASE k = Len(sent)
      <3>1. sent # <<>> /\ k \in 1..Len(sent) BY <1>3, <2>2
      <3>2. s[k] = sent[Len(sent)] /\ s[k+1] = p BY <1>3, <2>2, <3>1
      <3> QED BY <1>1, <1>6, <3>1, <3>2
    <2> QED BY <1>3, <2>1, <2>2
  <1>13. \A i, j \in 1..Len(s) : i < j => s[i].start + s[i].size <= s[j].start
    <2> SUFFICES ASSUME NEW i \in 1..Len(s), NEW j \in 1..Len(s), i < j
                 PROVE  s[i].start + s[i].size <= s[j].start
      OBVIOUS
    <2>1. i \in 1..Len(sent) /\ s[i] = sent[i] BY <1>3
    <2>2. CASE j \in 1..Len(sent)
      <3>1. s[j] = sent[j] BY <1>3, <2>2
      <3> QED BY <2>1, <2>2, <3>1 DEF SentInv
    <2>3. CASE j = Len(sent) + 1
      <3>1. s[j] = p BY <1>3, <2>3
      <3> QED BY <1>1, <1>5, <2>1, <3>1
    <2> QED BY <1>3, <2>2, <2>3
  <1>14. s[1].start = 0
    <2>1. CASE sent = <<>>
      <3>1. s[1] = p BY <1>3, <2>1
      <3> QED BY <1>1, <1>7, <2>1, <3>1
    <2>2. CASE sent # <<>>
      <3>1. s[1] = sent[1] BY <1>2, <1>3, <2>2
      <3> QED BY <2>2, <3>1 DEF SentInv
    <2> QED BY <2>1, <2>2
  <1>15. SentInv' BY <1>8, <1>10, <1>11, <1>12, <1>13, <1>14, Zenon DEF SentInv
  <1> QED BY <1>3, <1>8, <1>10, <1>15 DEF End

\* How the opening goes on without the parser.
Opens ==
    \/ phase' = phase \/ phase' = "failed"
    \/ phase = "version" /\ phase' = "flush"
    \/ phase = "flush" /\ phase' = "await"
    \/ phase = "setup" /\ phase' = "flush2"
    \/ phase = "flush2" /\ phase' = "running"

\* The parser rests: bytes move from the device to the transfer, or are lost.
LEMMA ReadFrame ==
    ASSUME TypeOK, ReadInv, UNCHANGED <<sent, stage, need, pos, hdr, hpos, recv_seq, got>>, Opens,
           pos + buffered' + transfer'.n + flight' <= StreamEnd
    PROVE  ReadInv'
  <1>1. SentInv' BY DEF ReadInv, SentInv, StreamEnd
  <1>2. StreamEnd' = StreamEnd /\ Base' = Base BY DEF StreamEnd, Base
  <1>3. FlowInv' BY <1>2 DEF ReadInv, FlowInv
  <1>4. StageInv' BY DEF ReadInv, StageInv
  <1>5. PlaceInv' BY <1>2 DEF ReadInv, PlaceInv, FineBelow, Boundary, GotExact
  <1>6. OpenInv'
    <2>1. (\A i : VersionAt(i)' <=> VersionAt(i)) /\ (FineBelow(Base)' <=> FineBelow(Base))
      BY <1>2 DEF VersionAt, FineBelow
    <2>2. \A k : FirstVersion(k)' <=> FirstVersion(k) BY <2>1 DEF FirstVersion, VersionAt
    <2>3. CASE phase' = phase BY <2>1, <2>2, <2>3 DEF ReadInv, OpenInv, VersionAt
    <2>4. CASE phase' = "failed" BY <2>4 DEF OpenInv
    <2>5. CASE phase \in {"version", "flush"} /\ phase' \in {"flush", "await"}
      BY <2>1, <2>5 DEF ReadInv, OpenInv, VersionAt
    <2>6. CASE phase = "setup" /\ phase' = "flush2"
      BY <2>2, <2>6 DEF ReadInv, OpenInv
    <2>7. CASE phase = "flush2" /\ phase' = "running"
      <3>1. recv_seq = 0 /\ FirstVersion(Len(got)) BY <2>7 DEF ReadInv, OpenInv
      <3>2. Len(got) \in Nat /\ Len(got) \in 1..Len(got) BY <3>1 DEF FirstVersion, TypeOK
      <3>3. (Len(got) - Len(got)) % SeqRange = 0
        <4>1. Len(got) - Len(got) = 0 BY <3>2
        <4>2. 0 % SeqRange = 0 BY Sizes, ModIs, 0 \in Int, 0 \in 0..SeqRange-1, 0 = SeqRange * 0 + 0
        <4> QED BY <4>1, <4>2, Zenon
      <3> QED BY <2>2, <2>7, <3>1, <3>2, <3>3 DEF OpenInv
    <2> QED BY <2>3, <2>4, <2>5, <2>6, <2>7 DEF Opens
  <1> QED BY <1>1, <1>3, <1>4, <1>5, <1>6 DEF ReadInv

\* What the device sends changes nothing before the end of the stream.
LEMMA DeviceSendsReads ==
    ASSUME TypeOK, ReadInv, DeviceSends
    PROVE  ReadInv'
  <1>1. PICK p \in WellFormed \cup Malformed : sent' = Append(sent, p) /\ flight' = flight + p.size
    BY DEF DeviceSends
  <1>2. UNCHANGED <<phase, transfer, buffered, stage, need, pos, hdr, hpos, recv_seq, got>>
    BY DEF DeviceSends
  <1> DEFINE End == StreamEnd
             b == Base
  <1>3. /\ SentInv' /\ StreamEnd' = End + p.size
        /\ Len(sent') = Len(sent) + 1 /\ Len(sent) \in Nat
        /\ \A k \in 1..Len(sent) : sent'[k] = sent[k]
        /\ sent'[Len(sent) + 1] = p
    BY <1>1, SentAppend DEF ReadInv
  <1>4. p.start = End /\ p.size \in Nat /\ p.size > 0 BY NewPacket
  <1>5. /\ b \in Nat /\ b <= pos /\ pos <= End
        /\ \A i \in 1..Len(got) : got[i] \in Nat /\ got[i] < End
    BY BaseBelow DEF ReadInv
  <1>6. End \in Nat /\ Base' = b BY <1>2, StreamEndNat DEF Base
  <1>7. /\ \A k \in 1..Len(sent) : k \in 1..Len(sent')
        /\ \A k \in 1..Len(sent') : k \in 1..Len(sent) \/ k = Len(sent) + 1
    BY <1>3
  <1>8. FlowInv'
    <2>1. pos + buffered + transfer.n + (flight + p.size) <= End + p.size
      <3>1. /\ pos \in Nat /\ buffered \in Nat /\ flight \in Nat /\ transfer.n \in Nat
        BY Sizes DEF TypeOK
      <3>2. pos + buffered + transfer.n + flight <= End BY DEF ReadInv, FlowInv
      <3> HIDE DEF End
      <3> QED BY <1>4, <1>6, <3>1, <3>2
    <2>2. pos' + buffered' + transfer'.n + flight' <= StreamEnd'
      BY <1>1, <1>2, <1>3, <2>1, Zenon
    <2> QED BY <1>2, <2>2 DEF ReadInv, FlowInv
  <1>9. StageInv' BY <1>2 DEF ReadInv, StageInv
  <1> HIDE DEF End, b
  <1>10. ~(End < b) /\ (\A i \in 1..Len(got) : got[i] # End)
    <2>1. pos \in Nat BY DEF TypeOK
    <2>2. ~(End < b) BY <1>5, <1>6, <2>1
    <2>3. \A i \in 1..Len(got) : got[i] # End
      <3> SUFFICES ASSUME NEW i \in 1..Len(got) PROVE got[i] # End OBVIOUS
      <3>1. got[i] \in Nat /\ got[i] < End BY <1>5
      <3> QED BY <1>6, <3>1
    <2> QED BY <2>2, <2>3
  <1>11. \A k \in 1..Len(sent') : sent'[k].start < b => k \in 1..Len(sent) /\ sent'[k] = sent[k]
    BY <1>3, <1>4, <1>7, <1>10, Zenon
  <1>12. FineBelow(Base)' <=> FineBelow(b)
    <2>1. FineBelow(Base)' <=> \A k \in 1..Len(sent') : sent'[k].start < b => Harmless(sent'[k])
      BY <1>6 DEF FineBelow
    <2>2. FineBelow(b) <=> \A k \in 1..Len(sent) : sent[k].start < b => Harmless(sent[k])
      BY DEF FineBelow
    <2> QED BY <1>3, <1>7, <1>11, <2>1, <2>2, Zenon
  <1>13. PlaceInv'
    <2> SUFFICES ASSUME FineBelow(b)
                 PROVE  /\ Boundary(Base)'
                        /\ stage # "v1" => \E k \in 1..Len(sent') : sent'[k].start = hpos /\ hdr = HeaderOf(sent'[k])
                        /\ GotExact(got, Base)'
      BY <1>2, <1>12 DEF PlaceInv
    <2>1. /\ Boundary(b) /\ GotExact(got, b)
          /\ stage # "v1" => \E k \in 1..Len(sent) : sent[k].start = hpos /\ hdr = HeaderOf(sent[k])
      BY DEF ReadInv, PlaceInv, b
    <2>2. \E k \in 1..Len(sent') : sent'[k].start = b
      <3>1. CASE b = End
        <4>1. Len(sent) + 1 \in 1..Len(sent') BY <1>3
        <4> QED BY <1>3, <1>4, <3>1, <4>1
      <3>2. CASE \E k \in 1..Len(sent) : sent[k].start = b BY <1>3, <1>7, <3>2, Zenon
      <3> QED BY <2>1, <3>1, <3>2 DEF Boundary, End
    <2>3. Boundary(Base)' BY <1>6, <2>2 DEF Boundary
    <2>4. stage # "v1" => \E k \in 1..Len(sent') : sent'[k].start = hpos /\ hdr = HeaderOf(sent'[k])
      BY <1>3, <1>7, <2>1, Zenon
    <2>5. /\ \A i, j \in 1..Len(got) : i < j => got[i] < got[j]
          /\ \A i \in 1..Len(got) :
                got[i] < b /\ \E k \in 1..Len(sent') : Accepted(sent'[k]) /\ sent'[k].start = got[i]
          /\ \A k \in 1..Len(sent') :
                Accepted(sent'[k]) /\ sent'[k].start < b => \E i \in 1..Len(got) : got[i] = sent'[k].start
      BY <1>3, <1>7, <1>11, <2>1, Zenon DEF GotExact
    <2>6. GotExact(got, Base)' BY <1>2, <1>6, <2>5, Zenon DEF GotExact
    <2> QED BY <2>3, <2>4, <2>6
  <1>14. \A i \in 1..Len(got) : VersionAt(got[i])' <=> VersionAt(got[i])
    <2> SUFFICES ASSUME NEW i \in 1..Len(got) PROVE VersionAt(got[i])' <=> VersionAt(got[i]) OBVIOUS
    <2>1. VersionAt(got[i])' <=> \E k \in 1..Len(sent') : sent'[k].start = got[i] /\ sent'[k].proto = "Version"
      BY <1>2 DEF VersionAt
    <2>2. VersionAt(got[i]) <=> \E k \in 1..Len(sent) : sent[k].start = got[i] /\ sent[k].proto = "Version"
      BY DEF VersionAt
    <2>3. \A k \in 1..Len(sent') : sent'[k].start = got[i] => k \in 1..Len(sent) /\ sent'[k] = sent[k]
      BY <1>3, <1>4, <1>7, <1>10
    <2> QED BY <1>3, <1>7, <2>1, <2>2, <2>3, Zenon
  <1>15. OpenInv'
    <2>1. \A k \in 1..Len(got) : FirstVersion(k)' <=> FirstVersion(k)
      BY <1>2, <1>14, Zenon DEF FirstVersion
    <2>2. phase \in {"version", "flush", "await"} =>
             FineBelow(Base)' /\ recv_seq' = 0 /\ \A i \in 1..Len(got') : ~VersionAt(got[i])'
      BY <1>2, <1>12, <1>14 DEF ReadInv, OpenInv, b
    <2>3. phase \in {"setup", "flush2"} => recv_seq' = 0 /\ FirstVersion(Len(got))'
      <3> SUFFICES ASSUME phase \in {"setup", "flush2"} PROVE recv_seq' = 0 /\ FirstVersion(Len(got))'
        OBVIOUS
      <3>1. recv_seq = 0 /\ FirstVersion(Len(got)) BY DEF ReadInv, OpenInv
      <3>2. PICK n \in 1..Len(got) : n = Len(got) BY <3>1 DEF FirstVersion
      <3>3. FirstVersion(n)' BY <2>1, <3>1, <3>2, Zenon
      <3> QED BY <1>2, <3>1, <3>2, <3>3, Zenon
    <2>4. phase = "running" =>
             \E k \in 1..Len(got') : FirstVersion(k)' /\ recv_seq' = (Len(got') - k) % SeqRange
      BY <1>2, <2>1 DEF ReadInv, OpenInv
    <2> QED BY <1>2, <2>2, <2>3, <2>4, Zenon DEF OpenInv
  <1> QED BY <1>3, <1>8, <1>9, <1>13, <1>15 DEF ReadInv

------------------------------------------------------------------------------
(* UsbDevicePacket::from_reader.                                             *)

\* The parser goes on with the packet whose header is h ...
Goes(h) ==
    /\ stage' \in {"v2", "tcp", "payload"} /\ need' \in 1..MAX_PACKET_SIZE+1
    /\ hdr' = h /\ hpos' = Base /\ StageInv'
    /\ UNCHANGED <<phase, reader, recv_seq, got>>

\* ... or rejects it, having read up to at ...
Refuses(h, at) ==
    /\ Rejected
    /\ \/ h.proto = "unknown"
       \/ h.proto = "Version" /\ h.length < V1Size
       \/ h.proto \in {"Setup", "Control"} /\ h.length < V2Size /\ at = Base + V2Size
       \/ h.proto = "Tcp" /\ (h.opts \/ h.length < HEADERS_LEN_V2)

\* ... or has all of it.
Decodes(h, at) ==
    /\ Decoded(h, Base) /\ at = Base + h.length
    /\ h.proto # "unknown"
    /\ h.proto = "Tcp" => ~h.opts
    /\ h.proto \in {"Setup", "Control"} => h.length >= V2Size

\* Behind the headers of h.
LEMMA HeadersReadOutcome ==
    ASSUME TypeOK, StageInv, NEW h \in Header, NEW size \in Nat, NEW at \in Nat, at = Base + size, pos' = at,
           Base \in Nat, HeadersRead(h, Base, size),
           \/ h.proto = "Version" /\ size = V1Size
           \/ h.proto \in {"Setup", "Control"} /\ size = V2Size
           \/ h.proto = "Tcp" /\ ~h.opts /\ size = HEADERS_LEN_V2
    PROVE  Goes(h) \/ Refuses(h, at) \/ Decodes(h, at)
  <1>1. h.length \in Nat /\ h.length <= MAX_PACKET_SIZE + 1 BY Sizes DEF Header, Lengths
  <1>2. size > 0 BY Sizes
  <1>3. CASE h.length < size /\ Rejected BY <1>3 DEF Refuses
  <1>4. CASE h.length = size /\ Decoded(h, Base) BY <1>1, <1>4, Sizes DEF Decodes
  <1>5. CASE /\ h.length > size
             /\ stage' = "payload" /\ need' = h.length - size /\ hdr' = h /\ hpos' = Base
             /\ UNCHANGED <<phase, reader, recv_seq, got>>
    <2>1. h.length - size \in 1..MAX_PACKET_SIZE+1 BY <1>1, <1>2, <1>5, Sizes
    <2>2. at + (h.length - size) = Base + h.length /\ Base < at
      <3> DEFINE b == Base
      <3> HIDE DEF b
      <3>1. b \in Nat /\ at = b + size BY DEF b
      <3>2. at + (h.length - size) = b + h.length /\ b < at BY <1>1, <1>2, <3>1
      <3> QED BY <3>2 DEF b
    <2>3. pos' + need' = hpos' + hdr'.length /\ hpos' < pos' BY <1>5, <2>2, Zenon
    <2>4. /\ h.proto # "unknown"
          /\ h.proto = "Tcp" => ~h.opts /\ h.length > HEADERS_LEN_V2
          /\ h.proto \in {"Setup", "Control"} => h.length > V2Size
      BY <1>5
    <2>5. StageInv' BY <1>5, <2>3, <2>4 DEF StageInv
    <2> QED BY <1>5, <2>1, <2>5 DEF Goes
  <1> QED BY <1>3, <1>4, <1>5 DEF HeadersRead

\* What eight bytes say is a header.
LEMMA HeadersAreHeaders ==
    ASSUME TypeOK, NEW b, NEW h \in HeadersAt(b)
    PROVE  h \in Header
  <1> DEFINE here == {k \in 1..Len(sent) : sent[k].start = b}
  <1>1. CASE here = {}
    <2>1. h \in [proto : Protocols, length : {V1Size, MAX_PACKET_SIZE}, opts : BOOLEAN]
      BY <1>1 DEF HeadersAt
    <2>2. {V1Size, MAX_PACKET_SIZE} \subseteq Lengths BY Sizes DEF Lengths
    <2> QED BY <2>1, <2>2 DEF Header
  <1>2. CASE here # {}
    <2>1. PICK k \in here : h = HeaderOf(sent[k]) BY <1>2 DEF HeadersAt, HeaderOf
    <2> QED BY <2>1, SentFields
  <1> QED BY <1>1, <1>2

\* What read_exact of a stage leads to.
LEMMA StageOutcome ==
    ASSUME TypeOK, FlowInv, StageInv, NEW at \in Nat, at = pos + need, pos' = at, StageRead(at)
    PROVE  \E h \in Header :
              /\ stage = "v1" => h \in HeadersAt(Base)
              /\ stage # "v1" => h = hdr
              /\ Goes(h) \/ Refuses(h, at) \/ Decodes(h, at)
  <1>1. Base \in Nat /\ pos \in Nat /\ need \in Nat /\ hdr \in Header /\ hpos \in Nat
    BY BaseBelow, Sizes DEF TypeOK
  <1>2. CASE stage = "v1"
    <2>1. Base = at - V1Size /\ at = Base + V1Size BY <1>1, <1>2, Sizes DEF Base, StageInv
    <2>2. PICK h \in HeadersAt(Base) :
             \/ h.proto = "unknown" /\ Rejected
             \/ h.proto = "Version" /\ HeadersRead(h, Base, V1Size)
             \/ /\ h.proto \in {"Tcp", "Setup", "Control"}
                /\ stage' = "v2" /\ need' = V2Size - V1Size /\ hdr' = h /\ hpos' = Base
                /\ UNCHANGED <<phase, reader, recv_seq, got>>
      BY <1>2, <2>1 DEF StageRead
    <2>3. h \in Header BY HeadersAreHeaders
    <2>4. CASE h.proto = "unknown" /\ Rejected
      <3>1. Refuses(h, at) BY <2>4 DEF Refuses
      <3> QED BY <1>2, <2>3, <3>1
    <2>5. CASE h.proto = "Version" /\ HeadersRead(h, Base, V1Size)
      <3>1. Goes(h) \/ Refuses(h, at) \/ Decodes(h, at)
        BY <1>1, <2>1, <2>3, <2>5, HeadersReadOutcome, Sizes
      <3> QED BY <1>2, <2>3, <3>1
    <2>6. CASE /\ h.proto \in {"Tcp", "Setup", "Control"}
               /\ stage' = "v2" /\ need' = V2Size - V1Size /\ hdr' = h /\ hpos' = Base
               /\ UNCHANGED <<phase, reader, recv_seq, got>>
      <3>1. V2Size - V1Size \in 1..MAX_PACKET_SIZE+1 BY Sizes
      <3>2. at + (V2Size - V1Size) = Base + V2Size /\ Base < at
        <4> DEFINE b == Base
        <4> HIDE DEF b
        <4>1. b \in Nat /\ at = b + V1Size BY <1>1, <2>1 DEF b
        <4>2. at + (V2Size - V1Size) = b + V2Size /\ b < at BY <4>1, Sizes
        <4> QED BY <4>2 DEF b
      <3>3. pos' + need' = hpos' + V2Size /\ hpos' < pos' BY <2>6, <3>2, Zenon
      <3>4. StageInv' BY <2>6, <3>3 DEF StageInv
      <3>5. Goes(h) BY <2>6, <3>1, <3>4 DEF Goes
      <3> QED BY <1>2, <2>3, <3>5
    <2> QED BY <2>2, <2>4, <2>5, <2>6
  <1>3. CASE stage = "v2"
    <2>1. Base = hpos /\ at = Base + V2Size /\ hdr.proto \in {"Tcp", "Setup", "Control"}
      BY <1>3 DEF Base, StageInv
    <2>2. CASE hdr.proto = "Tcp"
      <3>1. stage' = "tcp" /\ need' = TcpSize /\ UNCHANGED <<phase, reader, hdr, hpos, recv_seq, got>>
        BY <1>3, <2>2 DEF StageRead
      <3>2. TcpSize \in 1..MAX_PACKET_SIZE+1 BY Sizes
      <3>3. at + TcpSize = hpos + HEADERS_LEN_V2 /\ hpos < at BY <1>1, <2>1, Sizes
      <3>4. pos' + need' = hpos' + HEADERS_LEN_V2 /\ hpos' < pos' BY <3>1, <3>3, Zenon
      <3>5. StageInv' BY <2>2, <3>1, <3>4 DEF StageInv
      <3>6. Goes(hdr) BY <2>1, <3>1, <3>2, <3>5 DEF Goes
      <3> QED BY <1>3, <1>1, <3>6
    <2>3. CASE hdr.proto # "Tcp"
      <3>1. HeadersRead(hdr, Base, V2Size) BY <1>3, <2>1, <2>3 DEF StageRead
      <3>2. Goes(hdr) \/ Refuses(hdr, at) \/ Decodes(hdr, at)
        BY <1>1, <2>1, <2>3, <3>1, HeadersReadOutcome, Sizes
      <3> QED BY <1>3, <1>1, <3>2
    <2> QED BY <2>2, <2>3
  <1>4. CASE stage = "tcp"
    <2>1. Base = hpos /\ at = Base + HEADERS_LEN_V2 /\ hdr.proto = "Tcp"
      BY <1>4 DEF Base, StageInv
    <2>2. CASE hdr.opts
      <3>1. Refuses(hdr, at) BY <1>4, <2>1, <2>2 DEF StageRead, Refuses
      <3> QED BY <1>4, <1>1, <3>1
    <2>3. CASE ~hdr.opts
      <3>1. HeadersRead(hdr, Base, HEADERS_LEN_V2) BY <1>4, <2>1, <2>3 DEF StageRead
      <3>2. Goes(hdr) \/ Refuses(hdr, at) \/ Decodes(hdr, at)
        BY <1>1, <2>1, <2>3, <3>1, HeadersReadOutcome, Sizes
      <3> QED BY <1>4, <1>1, <3>2
    <2> QED BY <2>2, <2>3
  <1>5. CASE stage = "payload"
    <2>1. Base = hpos /\ at = Base + hdr.length BY <1>5 DEF Base, StageInv
    <2>2. Decoded(hdr, Base) BY <1>5, <2>1 DEF StageRead
    <2>3. hdr.length \in Nat BY <1>1, Sizes DEF Header, Lengths
    <2>4. hdr.proto \in {"Setup", "Control"} => hdr.length >= V2Size BY <1>5, <2>3, Sizes DEF StageInv
    <2>5. Decodes(hdr, at) BY <1>5, <2>1, <2>2, <2>4 DEF Decodes, StageInv
    <2> QED BY <1>5, <1>1, <2>5
  <1> QED BY <1>2, <1>3, <1>4, <1>5 DEF TypeOK

\* The header in hand is that of the packet at Base, unless one was rejected halfway.
LEMMA InHand ==
    ASSUME TypeOK, ReadInv, NEW h, stage = "v1" => h \in HeadersAt(Base), stage # "v1" => h = hdr,
           FineBelow(Base), Base < StreamEnd
    PROVE  \E k \in 1..Len(sent) : sent[k].start = Base /\ h = HeaderOf(sent[k])
  <1>1. CASE stage # "v1" BY <1>1 DEF ReadInv, PlaceInv, Base
  <1>2. CASE stage = "v1"
    <2> DEFINE b == Base
               here == {k \in 1..Len(sent) : sent[k].start = b}
    <2>1. b # StreamEnd BY BaseBelow, StreamEndNat DEF ReadInv
    <2>2. \E k \in 1..Len(sent) : sent[k].start = b BY <2>1 DEF ReadInv, PlaceInv, Boundary
    <2>3. h \in HeadersAt(b) BY <1>2
    <2> HIDE DEF b
    <2>4. here # {} BY <2>2
    <2>5. PICK k \in here : h = HeaderOf(sent[k]) BY <2>3, <2>4 DEF HeadersAt, HeaderOf
    <2> QED BY <2>5 DEF b
  <1> QED BY <1>1, <1>2

\* The bytes that are read are there.
Reads(at) ==
    /\ pos < at /\ pos' = at /\ sent' = sent
    /\ at + buffered' + transfer'.n + flight' <= StreamEnd
    /\ buffered' \in Nat /\ transfer'.n \in Nat /\ flight' \in Nat

\* What holds whichever way the parser goes.
LEMMA ReadsFlow ==
    ASSUME TypeOK, ReadInv, NEW at \in Nat, Reads(at), got' = got \/ got' = Append(got, Base)
    PROVE  /\ SentInv' /\ FlowInv' /\ StreamEnd' = StreamEnd
           /\ Base \in Nat /\ Base < at /\ at <= StreamEnd
           /\ \A b : FineBelow(b)' <=> FineBelow(b)
           /\ \A b : VersionAt(b)' <=> VersionAt(b)
  <1>1. sent' = sent BY DEF Reads
  <1>2. StreamEnd' = StreamEnd BY <1>1 DEF StreamEnd
  <1>3. SentInv' BY <1>1, <1>2 DEF ReadInv, SentInv
  <1>4. Base \in Nat /\ Base <= pos /\ pos \in Nat BY BaseBelow DEF ReadInv, TypeOK
  <1>5. Base < at /\ pos < at BY <1>4 DEF Reads
  <1>6. at <= StreamEnd
    <2> DEFINE x == buffered'
               y == transfer'.n
               z == flight'
               End == StreamEnd
    <2>1. x \in Nat /\ y \in Nat /\ z \in Nat /\ at + x + y + z <= End /\ End \in Nat
      BY StreamEndNat DEF Reads
    <2> HIDE DEF x, y, z, End
    <2>2. at <= End BY <2>1
    <2> QED BY <2>2 DEF End
  <1>7. FlowInv'
    <2>1. pos' + buffered' + transfer'.n + flight' <= StreamEnd' BY <1>2 DEF Reads
    <2>2. got \in Seq(Nat) /\ \A i \in 1..Len(got) : got[i] \in Nat /\ got[i] < pos
      <3>1. \A i \in 1..Len(got) : got[i] \in Nat
        <4>1. got \in Seq(Nat) BY Zenon DEF TypeOK
        <4> QED BY <4>1, ElementsOf
      <3> QED BY <3>1 DEF TypeOK, ReadInv, FlowInv
    <2>3. \A i \in 1..Len(got) : got[i] < at BY <1>4, <1>5, <2>2
    <2>4. CASE got' = got BY <2>1, <2>3, <2>4 DEF FlowInv, Reads
    <2>5. CASE got' = Append(got, Base)
      <3> DEFINE g == Append(got, Base)
      <3>1. /\ Len(g) = Len(got) + 1 /\ Len(got) \in Nat
            /\ \A i \in 1..Len(got) : g[i] = got[i]
            /\ g[Len(got) + 1] = Base
        BY <1>4, <2>2, AppendFacts
      <3> HIDE DEF g
      <3>2. ASSUME NEW i \in 1..Len(g) PROVE g[i] < at
        <4>1. CASE i \in 1..Len(got) BY <2>3, <3>1, <4>1
        <4>2. CASE i = Len(got) + 1 BY <1>5, <3>1, <4>2
        <4> QED BY <3>1, <4>1, <4>2
      <3>3. got' = g /\ pos' = at BY <2>5 DEF g, Reads
      <3> QED BY <2>1, <3>2, <3>3 DEF FlowInv
    <2> QED BY <2>4, <2>5
  <1>8. (\A b : FineBelow(b)' <=> FineBelow(b)) /\ (\A b : VersionAt(b)' <=> VersionAt(b))
    BY <1>1 DEF FineBelow, VersionAt
  <1> QED BY <1>2, <1>3, <1>4, <1>5, <1>6, <1>7, <1>8

\* The opening, when nothing was parsed.
LEMMA OpenKept ==
    ASSUME TypeOK, ReadInv, UNCHANGED <<got, recv_seq, sent>>,
           phase' = phase \/ phase' = "failed",
           phase' \in {"version", "flush", "await"} => FineBelow(Base)'
    PROVE  OpenInv'
  <1>1. \A b : VersionAt(b)' <=> VersionAt(b) BY DEF VersionAt
  <1>2. \A k : FirstVersion(k)' <=> FirstVersion(k) BY <1>1 DEF FirstVersion, VersionAt
  <1>3. CASE phase' = "failed" BY <1>3 DEF OpenInv
  <1>4. CASE phase' = phase
    <2>1. phase \in {"version", "flush", "await"} =>
             FineBelow(Base)' /\ recv_seq' = 0 /\ \A i \in 1..Len(got') : ~VersionAt(got[i])'
      BY <1>1, <1>4 DEF ReadInv, OpenInv, VersionAt
    <2>2. phase \in {"setup", "flush2"} => recv_seq' = 0 /\ FirstVersion(Len(got))'
      BY <1>2, <1>4 DEF ReadInv, OpenInv
    <2>3. phase = "running" =>
             \E k \in 1..Len(got') : FirstVersion(k)' /\ recv_seq' = (Len(got') - k) % SeqRange
      BY <1>2, <1>4 DEF ReadInv, OpenInv
    <2> QED BY <1>4, <2>1, <2>2, <2>3, Zenon DEF OpenInv
  <1> QED BY <1>3, <1>4

\* Part of what a stage needs is read.
LEMMA PartReads ==
    ASSUME TypeOK, ReadInv, NEW at \in Nat, Reads(at), at < pos + need, need' = pos + need - at,
           UNCHANGED <<phase, reader, stage, hdr, hpos, recv_seq, got>>
    PROVE  ReadInv' /\ need' \in 1..MAX_PACKET_SIZE+1
  <1> DEFINE m == pos + need - at
  <1>1. pos \in Nat /\ need \in 1..MAX_PACKET_SIZE+1 /\ pos < at /\ hpos \in Nat BY DEF TypeOK, Reads
  <1>2. m \in 1..MAX_PACKET_SIZE+1 /\ at + m = pos + need /\ m <= need /\ m \in Int /\ need \in Int
    BY <1>1, Sizes
  <1> HIDE DEF m
  <1>3. need' = m /\ pos' = at /\ sent' = sent BY DEF m, Reads
  <1>4. /\ SentInv' /\ FlowInv' /\ StreamEnd' = StreamEnd
        /\ \A b : FineBelow(b)' <=> FineBelow(b)
    BY ReadsFlow
  <1>5. Base' = Base
    <2>1. pos' + need' = pos + need BY <1>2, <1>3, Zenon
    <2>2. (pos' + need') - V1Size = (pos + need) - V1Size BY <2>1, Zenon
    <2>3. Base = IF stage = "v1" THEN (pos + need) - V1Size ELSE hpos BY DEF Base
    <2>4. Base' = IF stage' = "v1" THEN (pos' + need') - V1Size ELSE hpos' BY DEF Base
    <2>5. CASE stage = "v1" BY <2>2, <2>3, <2>4, <2>5, Zenon
    <2>6. CASE stage # "v1" BY <2>3, <2>4, <2>6, Zenon
    <2> QED BY <2>5, <2>6
  <1>6. StageInv'
    <2>1. stage = "v1" => m <= V1Size /\ V1Size <= at + m
      <3> SUFFICES ASSUME stage = "v1" PROVE m <= V1Size /\ V1Size <= at + m OBVIOUS
      <3>1. need <= V1Size /\ V1Size <= pos + need BY DEF ReadInv, StageInv
      <3>2. m <= V1Size BY <1>2, <3>1, Sizes
      <3> QED BY <1>2, <3>1, <3>2, Zenon
    <2>2. stage # "v1" => hpos < at BY <1>1 DEF ReadInv, StageInv
    <2>3. pos' + need' = pos + need BY <1>2, <1>3, Zenon
    <2> QED BY <1>3, <2>1, <2>2, <2>3, Zenon DEF ReadInv, StageInv
  <1>7. PlaceInv'
    <2>1. FineBelow(Base)' <=> FineBelow(Base) BY <1>3, <1>5 DEF FineBelow
    <2>2. (Boundary(Base)' <=> Boundary(Base)) /\ (GotExact(got, Base)' <=> GotExact(got, Base))
      BY <1>3, <1>4, <1>5 DEF Boundary, GotExact
    <2> QED BY <1>3, <2>1, <2>2 DEF ReadInv, PlaceInv
  <1>8. OpenInv'
    <2>1. FineBelow(Base)' <=> FineBelow(Base) BY <1>3, <1>5 DEF FineBelow
    <2>2. phase' \in {"version", "flush", "await"} => FineBelow(Base)' BY <2>1 DEF ReadInv, OpenInv
    <2> QED BY <1>3, <2>2, OpenKept
  <1> QED BY <1>2, <1>3, <1>4, <1>6, <1>7, <1>8 DEF ReadInv

\* The parser goes on with the packet it has begun.
LEMMA GoesReads ==
    ASSUME TypeOK, ReadInv, NEW at \in Nat, Reads(at),
           NEW h \in Header, stage = "v1" => h \in HeadersAt(Base), stage # "v1" => h = hdr, Goes(h)
    PROVE  ReadInv'
  <1>1. stage' # "v1" /\ hdr' = h /\ hpos' = Base /\ StageInv' /\ UNCHANGED <<phase, reader, recv_seq, got>>
    BY DEF Goes
  <1>2. sent' = sent /\ Base' = Base BY <1>1 DEF Reads, Base
  <1>3. /\ SentInv' /\ FlowInv' /\ StreamEnd' = StreamEnd /\ Base < at /\ at <= StreamEnd /\ Base \in Nat
    BY <1>1, ReadsFlow
  <1>4. FineBelow(Base)' <=> FineBelow(Base) BY <1>2 DEF FineBelow
  <1>5. PlaceInv'
    <2> SUFFICES ASSUME FineBelow(Base)
                 PROVE  /\ Boundary(Base)' /\ GotExact(got, Base)'
                        /\ \E k \in 1..Len(sent') : sent'[k].start = hpos' /\ hdr' = HeaderOf(sent'[k])
      BY <1>4 DEF PlaceInv
    <2>1. Boundary(Base) /\ GotExact(got, Base) BY DEF ReadInv, PlaceInv
    <2>2. Boundary(Base)' /\ GotExact(got, Base)' BY <1>1, <1>2, <1>3, <2>1 DEF Boundary, GotExact
    <2>3. Base < StreamEnd BY <1>3, StreamEndNat
    <2>4. \E k \in 1..Len(sent) : sent[k].start = Base /\ h = HeaderOf(sent[k]) BY <2>3, InHand
    <2> QED BY <1>1, <1>2, <2>2, <2>4
  <1>6. phase' \in {"version", "flush", "await"} => FineBelow(Base)' BY <1>1, <1>4 DEF ReadInv, OpenInv
  <1>7. OpenInv' BY <1>1, <1>2, <1>6, OpenKept
  <1> QED BY <1>1, <1>3, <1>5, <1>7 DEF ReadInv

\* The parser is done with a packet: it reads the next header at its position.
LEMMA NextReads ==
    ASSUME TypeOK, ReadInv, NEW at \in Nat, Reads(at), NextPacket
    PROVE  Base' = at /\ StageInv'
  <1>1. stage' = "v1" /\ need' = V1Size /\ pos' = at BY DEF NextPacket, Reads
  <1>2. (at + V1Size) - V1Size = at /\ V1Size <= V1Size /\ V1Size <= at + V1Size BY Sizes
  <1>3. Base' = (pos' + need') - V1Size BY <1>1 DEF Base
  <1>4. Base' = at BY <1>1, <1>2, <1>3, Zenon
  <1>5. StageInv' BY <1>1, <1>2 DEF StageInv
  <1> QED BY <1>4, <1>5

\* What is fine further on is fine here.
LEMMA FineEarlier ==
    ASSUME TypeOK, NEW b \in Nat, NEW at \in Nat, b <= at, FineBelow(at)
    PROVE  FineBelow(b)
  <1>1. \A k \in 1..Len(sent) : sent[k].start \in Nat BY SentFields
  <1>2. \A k \in 1..Len(sent) : sent[k].start < b => sent[k].start < at BY <1>1
  <1> QED BY <1>2, Zenon DEF FineBelow

\* The place of the parser after a packet that it does not deliver.
LEMMA SkipPlace ==
    ASSUME TypeOK, ReadInv, NEW at \in Nat, Reads(at), NextPacket, got' = got,
           NEW h \in Header, stage = "v1" => h \in HeadersAt(Base), stage # "v1" => h = hdr,
           \A k \in 1..Len(sent) :
              h = HeaderOf(sent[k]) /\ Shape(sent[k]) /\ Harmless(sent[k]) =>
                  at = Base + sent[k].size /\ ~Accepted(sent[k])
    PROVE  PlaceInv'
  <1>1. Base' = at /\ stage' = "v1" /\ sent' = sent BY NextReads DEF NextPacket, Reads
  <1>2. StreamEnd' = StreamEnd /\ Base < at /\ at <= StreamEnd /\ Base \in Nat BY ReadsFlow
  <1> SUFFICES ASSUME FineBelow(at) PROVE Boundary(at) /\ GotExact(got, at)
    BY <1>1, <1>2 DEF PlaceInv, FineBelow, Boundary, GotExact
  <1>3. FineBelow(Base) BY <1>2, FineEarlier
  <1>4. Base < StreamEnd BY <1>2, StreamEndNat
  <1>5. PICK k \in 1..Len(sent) : sent[k].start = Base /\ h = HeaderOf(sent[k]) BY <1>3, <1>4, InHand
  <1>6. Shape(sent[k]) /\ SentInv BY DEF ReadInv, SentInv
  <1>7. Harmless(sent[k]) BY <1>2, <1>5 DEF FineBelow
  <1>8. at = sent[k].start + sent[k].size /\ ~Accepted(sent[k]) BY <1>5, <1>6, <1>7
  <1>9. GotExact(got, sent[k].start) /\ got \in Seq(Nat) BY <1>3, <1>5 DEF ReadInv, PlaceInv, TypeOK
  <1>10. Boundary(at) BY <1>6, <1>8, PacketEnd
  <1>11. GotExact(got, at) BY <1>6, <1>8, <1>9, ExactSkips
  <1> QED BY <1>10, <1>11

\* A rejected packet: of those that are rejected as a whole nothing is left.
LEMMA RefusesReads ==
    ASSUME TypeOK, ReadInv, PhaseInv, CanRead, NEW at \in Nat, Reads(at),
           NEW h \in Header, stage = "v1" => h \in HeadersAt(Base), stage # "v1" => h = hdr, Refuses(h, at)
    PROVE  ReadInv'
  <1>1. /\ NextPacket /\ UNCHANGED <<reader, recv_seq, got>> /\ sent' = sent
        /\ phase' = IF phase = "await" THEN "failed" ELSE phase
    BY DEF Refuses, Rejected, Reads
  <1>2. SentInv' /\ FlowInv' /\ StageInv' BY <1>1, ReadsFlow, NextReads
  <1>3. ASSUME NEW k \in 1..Len(sent), h = HeaderOf(sent[k]), Shape(sent[k]), Harmless(sent[k])
        PROVE  at = Base + sent[k].size /\ ~Accepted(sent[k])
    <2> DEFINE p == sent[k]
    <2>1. h.proto = p.proto /\ h.length = p.length /\ h.opts = p.opts BY <1>3 DEF HeaderOf
    <2>2. p.length \in Nat /\ p.size \in Nat BY SentFields
    <2>3. Shape(p) /\ Harmless(p) BY <1>3
    <2> HIDE DEF p
    <2>4. h.proto # "unknown" BY <2>1, <2>2, <2>3 DEF Shape, Harmless
    <2>5. ~(h.proto = "Version" /\ h.length < V1Size) BY <2>1, <2>2, <2>3, Sizes DEF Shape
    <2>6. ~(h.proto = "Tcp" /\ h.length < HEADERS_LEN_V2) BY <2>1, <2>2, <2>3, Sizes DEF Shape
    <2>7. ~(h.proto = "Tcp" /\ h.opts) BY <2>1, <2>2, <2>3 DEF Shape, Harmless
    <2>8. h.proto \in {"Setup", "Control"} /\ h.length < V2Size /\ at = Base + V2Size
      BY <2>4, <2>5, <2>6, <2>7 DEF Refuses
    <2>9. p.size = V2Size /\ p.length < p.size BY <2>1, <2>2, <2>3, <2>8, Sizes DEF Shape
    <2>10. ~Accepted(p) BY <2>2, <2>9 DEF Accepted
    <2> QED BY <2>8, <2>9, <2>10 DEF p
  <1>4. PlaceInv' BY <1>1, <1>3, SkipPlace
  <1>5. phase' \notin {"version", "flush", "await"}
    BY <1>1 DEF CanRead, PhaseInv
  <1>6. OpenInv' BY <1>1, <1>5, OpenKept
  <1> QED BY <1>2, <1>4, <1>6 DEF ReadInv

\* A packet that is decoded is one the device has sent.
LEMMA DecodedAccepted ==
    ASSUME TypeOK, NEW k \in 1..Len(sent), NEW h, NEW at, h = HeaderOf(sent[k]), Shape(sent[k]), Decodes(h, at)
    PROVE  /\ at = Base + sent[k].size
           /\ Accepted(sent[k]) <=> ~(h.proto = "Version" /\ h.length # VersionPacket)
           /\ Harmless(sent[k])
  <1> DEFINE p == sent[k]
  <1>1. h.proto = p.proto /\ h.length = p.length /\ h.opts = p.opts BY DEF HeaderOf
  <1>2. p.length \in Nat /\ p.size \in Nat BY SentFields
  <1>3. Shape(p) OBVIOUS
  <1> HIDE DEF p
  <1>4. p.length = p.size /\ p.proto # "unknown" /\ ~p.opts
    <2>1. p.proto # "unknown" BY <1>1 DEF Decodes
    <2>2. p.proto = "Control" => p.length >= V2Size BY <1>1 DEF Decodes
    <2>3. p.proto = "Tcp" => ~p.opts BY <1>1 DEF Decodes
    <2> QED BY <1>2, <1>3, <2>1, <2>2, <2>3, Sizes DEF Shape
  <1>5. at = Base + p.size BY <1>1, <1>4 DEF Decodes
  <1>6. Harmless(p) BY <1>4 DEF Harmless
  <1>7. Accepted(p) <=> ~(h.proto = "Version" /\ h.length # VersionPacket) BY <1>1, <1>4 DEF Accepted
  <1> QED BY <1>5, <1>6, <1>7 DEF p

\* No packet before the end of a packet was rejected halfway, if none was before it.
LEMMA FineThrough ==
    ASSUME TypeOK, SentInv, NEW k \in 1..Len(sent), FineBelow(sent[k].start), Harmless(sent[k])
    PROVE  FineBelow(sent[k].start + sent[k].size)
  <1> SUFFICES ASSUME NEW j \in 1..Len(sent), sent[j].start < sent[k].start + sent[k].size
               PROVE  Harmless(sent[j])
    BY DEF FineBelow
  <1>1. sent[j].start < sent[k].start \/ j = k BY PacketsBelow
  <1> QED BY <1>1 DEF FineBelow

\* The payload has no version in it: the task that parses it panics.
LEMMA PanicReads ==
    ASSUME TypeOK, ReadInv, PhaseInv, CanRead, NEW at \in Nat, Reads(at),
           NEW h \in Header, stage = "v1" => h \in HeadersAt(Base), stage # "v1" => h = hdr,
           Decodes(h, at), h.proto = "Version", h.length # VersionPacket
    PROVE  ReadInv'
  <1>1. /\ NextPacket /\ UNCHANGED <<recv_seq, got>> /\ sent' = sent
        /\ phase' = IF phase = "await" THEN "failed" ELSE phase
    BY DEF Decodes, Decoded, Reads
  <1>2. SentInv' /\ FlowInv' /\ StageInv' BY <1>1, ReadsFlow, NextReads
  <1>3. ASSUME NEW k \in 1..Len(sent), h = HeaderOf(sent[k]), Shape(sent[k])
        PROVE  at = Base + sent[k].size /\ ~Accepted(sent[k])
    BY <1>3, DecodedAccepted
  <1>4. PlaceInv' BY <1>1, <1>3, SkipPlace
  <1>5. phase' \notin {"version", "flush", "await"}
    BY <1>1 DEF CanRead, PhaseInv
  <1>6. OpenInv' BY <1>1, <1>5, OpenKept
  <1> QED BY <1>2, <1>4, <1>6 DEF ReadInv

\* A packet is delivered, and counted by the reader loop.
LEMMA DeliversReads ==
    ASSUME TypeOK, ReadInv, PhaseInv, CanRead, NEW at \in Nat, Reads(at),
           NEW h \in Header, stage = "v1" => h \in HeadersAt(Base), stage # "v1" => h = hdr,
           Decodes(h, at), ~(h.proto = "Version" /\ h.length # VersionPacket)
    PROVE  ReadInv'
  <1> DEFINE b == Base
             g == Append(got, b)
             n == Len(got)
  <1>1. /\ NextPacket /\ got' = g /\ sent' = sent /\ stage' = "v1"
        /\ phase' = IF phase = "await" /\ h.proto = "Version" THEN "setup" ELSE phase
        /\ recv_seq' = IF reader = "run" THEN (recv_seq + 1) % SeqRange ELSE recv_seq
    BY DEF Decodes, Decoded, Reads, NextPacket
  <1>2. /\ SentInv' /\ FlowInv' /\ StageInv' /\ StreamEnd' = StreamEnd /\ b < at /\ at <= StreamEnd
        /\ b \in Nat /\ Base' = at
    BY <1>1, ReadsFlow, NextReads
  <1>3. ASSUME FineBelow(b)
        PROVE  \E k \in 1..Len(sent) :
                  /\ sent[k].start = b /\ h = HeaderOf(sent[k]) /\ Shape(sent[k])
                  /\ at = sent[k].start + sent[k].size /\ Accepted(sent[k]) /\ Harmless(sent[k])
    <2>1. b < StreamEnd BY <1>2, StreamEndNat
    <2>2. PICK k \in 1..Len(sent) : sent[k].start = b /\ h = HeaderOf(sent[k]) BY <1>3, <2>1, InHand
    <2>3. Shape(sent[k]) BY DEF ReadInv, SentInv
    <2>4. at = b + sent[k].size /\ Accepted(sent[k]) /\ Harmless(sent[k]) BY <2>2, <2>3, DecodedAccepted
    <2> QED BY <2>2, <2>3, <2>4
  <1>4. got \in Seq(Nat) /\ n \in Nat BY DEF TypeOK
  <1>5. /\ Len(g) = n + 1 /\ g[n + 1] = b
        /\ \A i \in 1..n : g[i] = got[i]
    BY <1>2, <1>4, AppendFacts
  <1>6. PlaceInv'
    <2> SUFFICES ASSUME FineBelow(at) PROVE Boundary(at) /\ GotExact(g, at)
      BY <1>1, <1>2 DEF PlaceInv, FineBelow, Boundary, GotExact
    <2>1. FineBelow(b) BY <1>2, FineEarlier
    <2>2. PICK k \in 1..Len(sent) :
             /\ sent[k].start = b /\ at = sent[k].start + sent[k].size /\ Accepted(sent[k])
      BY <1>3, <2>1
    <2>3. SentInv /\ GotExact(got, sent[k].start) BY <2>1, <2>2 DEF ReadInv, PlaceInv
    <2>4. Boundary(at) BY <2>2, <2>3, PacketEnd
    <2>5. GotExact(g, at) BY <1>4, <2>2, <2>3, ExactTakes
    <2> QED BY <2>4, <2>5
  <1>7. \A x : VersionAt(x)' <=> VersionAt(x) BY <1>1 DEF VersionAt
  <1> HIDE DEF g
  <1>8. CASE phase = "await"
    <2>1. /\ FineBelow(b) /\ recv_seq = 0 /\ \A i \in 1..n : ~VersionAt(got[i])
      BY <1>8 DEF ReadInv, OpenInv
    <2>2. recv_seq' = 0 BY <1>1, <1>8, <2>1 DEF PhaseInv
    <2>3. PICK k \in 1..Len(sent) :
             /\ sent[k].start = b /\ h = HeaderOf(sent[k])
             /\ at = sent[k].start + sent[k].size /\ Accepted(sent[k]) /\ Harmless(sent[k])
      BY <1>3, <2>1
    <2>4. h.proto = sent[k].proto BY <2>3 DEF HeaderOf
    <2>5. VersionAt(b) <=> h.proto = "Version"
      <3>1. \A j \in 1..Len(sent) : sent[j].start = b => j = k
        BY <2>3, PacketsBelow DEF ReadInv
      <3> QED BY <2>3, <2>4, <3>1 DEF VersionAt
    <2>6. \A i \in 1..Len(g) : i = n + 1 \/ (i \in 1..n /\ ~VersionAt(g[i]))
      BY <1>4, <1>5, <2>1
    <2>7. CASE h.proto = "Version"
      <3>1. phase' = "setup" BY <1>1, <1>8, <2>7
      <3>2. n + 1 \in 1..Len(g) /\ VersionAt(g[n + 1]) BY <1>4, <1>5, <2>5, <2>7
      <3>3. \A j \in 1..Len(g) : j < n + 1 => ~VersionAt(g[j]) BY <1>4, <2>6
      <3>4. FirstVersion(Len(got))' BY <1>1, <1>5, <1>7, <3>2, <3>3 DEF FirstVersion, VersionAt
      <3>5. OpenInv' BY <2>2, <3>1, <3>4 DEF OpenInv
      <3> QED BY <1>2, <1>6, <3>5 DEF ReadInv
    <2>8. CASE h.proto # "Version"
      <3>1. phase' = "await" BY <1>1, <1>8, <2>8
      <3>2. FineBelow(at) BY <2>1, <2>3, FineThrough DEF ReadInv
      <3>3. FineBelow(Base)' BY <1>1, <1>2, <3>2 DEF FineBelow
      <3>4. \A i \in 1..Len(g) : ~VersionAt(g[i]) BY <1>5, <2>5, <2>6, <2>8
      <3>5. \A i \in 1..Len(got') : ~VersionAt(got[i])' BY <1>1, <3>4 DEF VersionAt
      <3>6. OpenInv' BY <2>2, <3>1, <3>3, <3>5 DEF OpenInv
      <3> QED BY <1>2, <1>6, <3>6 DEF ReadInv
    <2> QED BY <2>7, <2>8
  <1>9. CASE phase = "running"
    <2>1. reader = "run" /\ phase' = "running" BY <1>1, <1>9 DEF CanRead
    <2>2. PICK k \in 1..n : FirstVersion(k) /\ recv_seq = (n - k) % SeqRange BY <1>9 DEF ReadInv, OpenInv
    <2>3. recv_seq' = (Len(g) - k) % SeqRange
      <3>1. n - k \in Nat /\ SeqRange \in Nat /\ SeqRange > 0 /\ 1 \in Nat BY <1>4, Sizes
      <3>2. (((n - k) % SeqRange) + 1) % SeqRange = ((n - k) + 1) % SeqRange BY <3>1, ModAdd
      <3>3. (n - k) + 1 = Len(g) - k BY <1>4, <1>5
      <3> QED BY <1>1, <2>1, <2>2, <3>2, <3>3, Zenon
    <2>4. k \in 1..Len(g) BY <1>4, <1>5
    <2>5. VersionAt(g[k]) /\ \A j \in 1..Len(g) : j < k => ~VersionAt(g[j])
      <3>1. VersionAt(got[k]) /\ \A j \in 1..n : j < k => ~VersionAt(got[j]) BY <2>2 DEF FirstVersion
      <3>2. \A j \in 1..Len(g) : j < k => j \in 1..n BY <1>4, <1>5
      <3> QED BY <1>5, <3>1, <3>2, Zenon
    <2>6. FirstVersion(k)' BY <1>1, <2>4, <2>5 DEF FirstVersion, VersionAt
    <2>7. OpenInv' BY <1>1, <2>1, <2>3, <2>4, <2>6 DEF OpenInv
    <2> QED BY <1>2, <1>6, <2>7 DEF ReadInv
  <1> QED BY <1>8, <1>9 DEF CanRead, PhaseInv

\* poll_read hands bytes to the parser.
LEMMA TakeReads ==
    ASSUME TypeOK, ReadInv, PhaseInv, CanRead, NEW n \in 1..TransferSize, Take(n), sent' = sent,
           pos + n + transfer'.n + flight' <= StreamEnd, transfer'.n \in Nat, flight' \in Nat
    PROVE  ReadInv'
  <1> DEFINE k == Min2(n, need)
             at == pos + k
             tn == transfer'.n
             fl == flight'
             End == StreamEnd
  <1>1. pos \in Nat /\ need \in Nat /\ need > 0 /\ n \in Nat /\ n > 0 BY Sizes DEF TypeOK
  <1>2. k \in Nat /\ k > 0 /\ k <= n /\ k <= need BY <1>1 DEF Min2
  <1>3. buffered' = n - k /\ pos' = at BY DEF Take
  <1>4. tn \in Nat /\ fl \in Nat /\ End \in Nat /\ pos + n + tn + fl <= End BY StreamEndNat
  <1> HIDE DEF k, tn, fl, End
  <1>5. at + (n - k) + tn + fl <= End /\ n - k \in Nat /\ pos < at /\ at \in Nat BY <1>1, <1>2, <1>4
  <1>6. Reads(at) BY <1>3, <1>4, <1>5, Zenon DEF Reads, tn, fl, End
  <1>7. CASE k = need /\ StageRead(pos + k)
    <2>1. at = pos + need BY <1>7
    <2>2. PICK h \in Header :
              /\ stage = "v1" => h \in HeadersAt(Base)
              /\ stage # "v1" => h = hdr
              /\ Goes(h) \/ Refuses(h, at) \/ Decodes(h, at)
      BY <1>3, <1>5, <1>7, <2>1, StageOutcome DEF ReadInv
    <2> HIDE DEF at
    <2>3. CASE Goes(h) BY <1>5, <1>6, <2>2, <2>3, GoesReads
    <2>4. CASE Refuses(h, at) BY <1>5, <1>6, <2>2, <2>4, RefusesReads
    <2>5. CASE Decodes(h, at) BY <1>5, <1>6, <2>2, <2>5, PanicReads, DeliversReads
    <2> QED BY <2>2, <2>3, <2>4, <2>5
  <1>8. CASE /\ k < need /\ need' = need - k
             /\ UNCHANGED <<phase, reader, stage, hdr, hpos, recv_seq, got>>
    <2>1. at < pos + need /\ need - k = pos + need - at BY <1>1, <1>2, <1>8
    <2>2. need' = pos + need - at BY <1>8, <2>1, Zenon
    <2> HIDE DEF at
    <2> QED BY <1>5, <1>6, <1>8, <2>1, <2>2, PartReads
  <1> QED BY <1>7, <1>8 DEF Take, k

------------------------------------------------------------------------------
(* Types.                                                                    *)

\* The parser's part of the type invariant, and the writer's.
ParserTypes ==
    /\ phase \in {"version", "flush", "await", "setup", "flush2", "running", "failed"}
    /\ reader \in {"off", "run", "route", "ended", "panicked"}
    /\ stage \in {"v1", "v2", "tcp", "payload"} /\ need \in 1..MAX_PACKET_SIZE + 1
    /\ hdr \in Header /\ hpos \in Nat /\ recv_seq \in 0..SeqRange-1 /\ got \in Seq(Nat)

WriterTypes ==
    /\ chan \in Seq(Nat) /\ Len(chan) <= ChanCap
    /\ queued \in 0..MaxOut /\ send_seq \in 0..SeqRange-1
    /\ wbuf \in Seq(OutPackets) /\ wlen \in Nat /\ current_transfer_len \in Nat
    /\ wpending \in {"none", "queued", "ok", "error"}
    /\ writer \in {"off", "recv", "submit", "stalled", "panicked"}
    /\ stale \in BOOLEAN
    /\ wire \in Seq(OutPackets) /\ ends \in Seq(Nat)

LinkTypes ==
    /\ build \in {"debug", "release"} /\ plugged \in BOOLEAN /\ faults \in 0..MaxFaults
    /\ sent \in Seq(Packets) /\ flight \in Nat /\ pos \in Nat
    /\ transfer \in [st : {"none", "queued", "ok", "error"}, n : 0..TransferSize]
    /\ buffered \in 0..TransferSize

\* The three parts are the type invariant.
LEMMA TypesSplit == (TypeOK <=> LinkTypes /\ ParserTypes /\ WriterTypes)
                    /\ (TypeOK' <=> LinkTypes' /\ ParserTypes' /\ WriterTypes')
  <1>1. TypeOK <=> LinkTypes /\ ParserTypes /\ WriterTypes
    BY DEF TypeOK, LinkTypes, ParserTypes, WriterTypes
  <1>2. TypeOK' <=> LinkTypes' /\ ParserTypes' /\ WriterTypes'
    BY DEF TypeOK, LinkTypes, ParserTypes, WriterTypes
  <1> QED BY <1>1, <1>2

\* The next number is a number.
LEMMA SeqNext ==
    ASSUME NEW a \in 0..SeqRange-1
    PROVE  (a + 1) % SeqRange \in 0..SeqRange-1
  <1>1. a + 1 \in Int /\ SeqRange \in Nat /\ SeqRange > 0 BY Sizes
  <1> QED BY <1>1, DivMod

\* poll_read hands bytes to the parser.
LEMMA TakeTypes ==
    ASSUME TypeOK, ReadInv, NEW n \in 1..TransferSize, Take(n)
    PROVE  ParserTypes' /\ pos' \in Nat /\ buffered' \in 0..TransferSize
  <1> DEFINE k == Min2(n, need)
             at == pos + k
  <1>1. pos \in Nat /\ need \in 1..MAX_PACKET_SIZE+1 /\ n \in Nat /\ n > 0 /\ n <= TransferSize
    BY Sizes DEF TypeOK
  <1>2. k \in Nat /\ k > 0 /\ k <= n /\ k <= need /\ n - k \in 0..TransferSize
    BY <1>1, Sizes DEF Min2
  <1>3. buffered' = n - k /\ pos' = at /\ at \in Nat BY <1>1, <1>2 DEF Take
  <1>4. ASSUME NextPacket
        PROVE  stage' = "v1" /\ need' \in 1..MAX_PACKET_SIZE + 1 /\ hdr' \in Header /\ hpos' \in Nat
    <2>1. V1Size \in 1..MAX_PACKET_SIZE + 1 /\ 0 \in Lengths BY Sizes DEF Lengths
    <2> QED BY <1>4, <2>1 DEF NextPacket, NoHeader, Header, Protocols
  <1>5. ParserTypes BY DEF ParserTypes, TypeOK
  <1> SUFFICES ParserTypes' BY <1>2, <1>3
  <1> HIDE DEF k
  <1>6. CASE k = need /\ StageRead(pos + k)
    <2>1. at = pos + need /\ Base \in Nat BY <1>6, BaseBelow DEF ReadInv
    <2>2. PICK h \in Header : Goes(h) \/ Refuses(h, at) \/ Decodes(h, at)
      BY <1>3, <1>6, <2>1, StageOutcome DEF ReadInv
    <2> HIDE DEF at
    <2>3. CASE Goes(h) BY <1>5, <2>1, <2>3 DEF Goes, ParserTypes
    <2>4. CASE Refuses(h, at)
      <3>1. Rejected BY <2>4 DEF Refuses
      <3>2. phase' \in {phase, "failed"} /\ UNCHANGED <<reader, recv_seq, got>> /\ NextPacket
        BY <3>1 DEF Rejected
      <3> QED BY <1>4, <1>5, <3>2 DEF ParserTypes
    <2>5. CASE Decodes(h, at)
      <3>1. NextPacket /\ Decoded(h, Base) BY <2>5 DEF Decodes, Decoded
      <3>2. phase' \in {phase, "failed", "setup"} /\ reader' \in {reader, "panicked", "route"} BY <3>1 DEF Decoded
      <3>3. recv_seq' \in {recv_seq, (recv_seq + 1) % SeqRange} /\ got' \in {got, Append(got, Base)}
        BY <3>1 DEF Decoded
      <3>4. recv_seq' \in 0..SeqRange-1 BY <1>5, <3>3, SeqNext DEF ParserTypes
      <3>5. got' \in Seq(Nat) BY <1>5, <2>1, <3>3, AppendFacts DEF ParserTypes
      <3> QED BY <1>4, <1>5, <3>1, <3>2, <3>4, <3>5 DEF ParserTypes
    <2> QED BY <2>2, <2>3, <2>4, <2>5
  <1>7. CASE /\ k < need /\ need' = need - k
             /\ UNCHANGED <<phase, reader, stage, hdr, hpos, recv_seq, got>>
    <2>1. need - k \in 1..MAX_PACKET_SIZE + 1 BY <1>1, <1>2, <1>7, Sizes
    <2> QED BY <1>5, <1>7, <2>1 DEF ParserTypes
  <1> QED BY <1>6, <1>7 DEF Take, k

\* The part of a flight that a transfer gets.
LEMMA FlightPart ==
    ASSUME TypeOK, NEW n \in 0..Min2(flight, TransferSize)
    PROVE  n \in 0..TransferSize /\ n <= flight /\ flight - n \in Nat
  BY Sizes DEF TypeOK, Min2

\* Everything the device, libusb and the parser do, but for the parser's own variables.
LEMMA ReadingTypes ==
    ASSUME TypeOK, ReadInv, PhaseInv, Reading
    PROVE  TypeOK' /\ ReadInv'
  <1>1. LinkTypes /\ ParserTypes /\ WriterTypes BY TypesSplit
  <1>2. WriterTypes'
    <2>1. UNCHANGED <<outVars, writer, wireVars>> BY ReadingApart DEF Apart
    <2> QED BY <1>1, <2>1 DEF WriterTypes, outVars, wireVars
  <1>3. /\ pos \in Nat /\ buffered \in 0..TransferSize /\ transfer.n \in Nat /\ flight \in Nat
        /\ pos + buffered + transfer.n + flight <= StreamEnd /\ StreamEnd \in Nat /\ buffered \in Nat
        /\ transfer.n \in 0..TransferSize
    BY StreamEndNat, Sizes DEF TypeOK, ReadInv, FlowInv
  <1> DEFINE End == StreamEnd
             tn == transfer.n
  <1>4. NoTransfer \in [st : {"none", "queued", "ok", "error"}, n : 0..TransferSize] /\ NoTransfer.n = 0
    BY Sizes DEF NoTransfer
  <1>5. CASE DeviceSends
    <2>1. PICK p \in WellFormed \cup Malformed :
             /\ sent' = Append(sent, p) /\ flight' = flight + p.size
             /\ UNCHANGED faults \/ (faults < MaxFaults /\ faults' = faults + 1)
      BY <1>5 DEF DeviceSends
    <2>2. p \in Packets /\ p.size \in Nat BY NewPacket
    <2>3. sent' \in Seq(Packets) /\ flight' \in Nat
      <3>1. flight \in Nat /\ \A a, c \in Nat : a + c \in Nat BY <1>3
      <3>2. sent \in Seq(Packets) /\ flight + p.size \in Nat BY <2>2, <3>1, Zenon DEF TypeOK
      <3>3. Append(sent, p) \in Seq(Packets) BY <2>2, <3>2, AppendFacts
      <3> QED BY <2>1, <3>2, <3>3, Zenon
    <2>4. faults' \in 0..MaxFaults BY <2>1, LinkAssumption DEF TypeOK
    <2>5. UNCHANGED <<build, phase, plugged, transfer, buffered, stage, need, pos, hdr, hpos, reader, recv_seq, got>>
      BY <1>5 DEF DeviceSends
    <2>6. LinkTypes' /\ ParserTypes' BY <1>1, <2>3, <2>4, <2>5 DEF LinkTypes, ParserTypes
    <2> QED BY <1>2, <1>5, <2>6, TypesSplit, DeviceSendsReads
  <1>6. CASE Unplug
    <2>1. /\ UNCHANGED <<build, phase, faults, sent, transfer, buffered, stage, need, pos, hdr, hpos, reader,
                         recv_seq, got>>
          /\ flight' = 0
      BY <1>6 DEF Unplug
    <2>2. plugged' \in BOOLEAN BY <1>6, Zenon DEF Unplug
    <2>3. LinkTypes' /\ ParserTypes' BY <1>1, <2>1, <2>2 DEF LinkTypes, ParserTypes
    <2>4. pos + buffered + tn + 0 <= End
      <3> HIDE DEF tn, End
      <3> QED BY <1>3 DEF tn, End
    <2>5. pos + buffered' + transfer'.n + flight' <= StreamEnd BY <2>1, <2>4, Zenon
    <2> QED BY <1>2, <2>1, <2>3, <2>5, TypesSplit, ReadFrame DEF Opens
  <1>7. CASE TransferCompletes \/ TransferFails \/ SubmitRead
    <2>1. /\ UNCHANGED <<build, plugged, phase, sent, buffered, stage, need, pos, hdr, hpos, reader, recv_seq, got>>
          /\ UNCHANGED faults \/ (faults < MaxFaults /\ faults' = faults + 1)
      BY <1>7 DEF TransferCompletes, TransferFails, SubmitRead, ReadPass
    <2>2. /\ transfer.st \in {"none", "queued"}
          /\ \E n \in 0..Min2(flight, TransferSize), st \in {"queued", "ok", "error"} :
                flight' = flight - n /\ transfer' = [st |-> st, n |-> n]
      <3>1. Min2(flight, TransferSize) \in Nat BY <1>3, Sizes DEF Min2
      <3>2. /\ 0 \in 0..Min2(flight, TransferSize) /\ flight = flight - 0
            /\ \A n \in 1..Min2(flight, TransferSize) : n \in 0..Min2(flight, TransferSize)
        BY <1>3, <3>1
      <3>3. CASE TransferCompletes BY <3>2, <3>3 DEF TransferCompletes
      <3>4. CASE TransferFails BY <3>2, <3>4 DEF TransferFails
      <3>5. CASE SubmitRead BY <3>2, <3>5 DEF SubmitRead
      <3> QED BY <1>7, <3>3, <3>4, <3>5
    <2>3. PICK n \in 0..Min2(flight, TransferSize), st \in {"queued", "ok", "error"} :
             flight' = flight - n /\ transfer' = [st |-> st, n |-> n]
      BY <2>2
    <2>4. n \in 0..TransferSize /\ n <= flight /\ flight - n \in Nat BY FlightPart
    <2>5. faults' \in 0..MaxFaults BY <2>1, LinkAssumption DEF TypeOK
    <2>6. LinkTypes' /\ ParserTypes' BY <1>1, <2>1, <2>3, <2>4, <2>5 DEF LinkTypes, ParserTypes
    <2>7. pos + buffered + n + (flight - n) <= End
      <3> HIDE DEF tn, End
      <3> QED BY <1>3, <2>4 DEF tn, End
    <2>8. transfer'.n = n BY <2>3
    <2>9. pos + buffered' + transfer'.n + flight' <= StreamEnd BY <2>1, <2>3, <2>7, <2>8, Zenon
    <2> QED BY <1>2, <2>1, <2>6, <2>9, TypesSplit, ReadFrame DEF Opens
  <1>8. CASE VersionTimeout
    <2>1. /\ UNCHANGED <<build, plugged, faults, sent, flight, transfer, buffered, stage, need, pos, hdr, hpos,
                         reader, recv_seq, got>>
          /\ phase' = "failed"
      BY <1>8 DEF VersionTimeout, ReadPass, inVars
    <2>2. LinkTypes' /\ ParserTypes' BY <1>1, <2>1 DEF LinkTypes, ParserTypes
    <2>3. pos + buffered' + transfer'.n + flight' <= StreamEnd BY <1>3, <2>1, Zenon
    <2> QED BY <1>2, <2>1, <2>2, <2>3, TypesSplit, ReadFrame DEF Opens
  <1>9. ASSUME CanRead, IoError, UNCHANGED <<build, plugged, faults, sent, flight>>,
               transfer' = transfer \/ transfer' = NoTransfer
        PROVE  TypeOK' /\ ReadInv'
    <2>1. /\ UNCHANGED <<buffered, stage, need, pos, hdr, hpos, recv_seq, got>>
          /\ phase' \in {phase, "failed"} /\ reader' \in {reader, "ended"}
      BY <1>9 DEF IoError
    <2>2. LinkTypes' /\ ParserTypes' BY <1>1, <1>4, <1>9, <2>1 DEF LinkTypes, ParserTypes
    <2>3. pos + buffered' + transfer'.n + flight' <= StreamEnd
      <3>1. transfer'.n \in {tn, 0} BY <1>4, <1>9
      <3>2. pos + buffered + tn + flight <= End /\ pos + buffered + 0 + flight <= End
        <4> HIDE DEF tn, End
        <4> QED BY <1>3 DEF tn, End
      <3> QED BY <1>9, <2>1, <3>1, <3>2, Zenon
    <2> QED BY <1>2, <1>9, <2>1, <2>2, <2>3, TypesSplit, ReadFrame DEF Opens
  <1>10. ASSUME CanRead, NEW n \in 1..TransferSize, Take(n), UNCHANGED <<build, plugged, faults, sent>>,
               transfer' \in [st : {"none", "queued", "ok", "error"}, n : 0..TransferSize],
               flight' \in Nat, pos + n + transfer'.n + flight' <= StreamEnd
        PROVE  TypeOK' /\ ReadInv'
    <2>1. ParserTypes' /\ pos' \in Nat /\ buffered' \in 0..TransferSize BY <1>10, TakeTypes
    <2>2. LinkTypes' BY <1>1, <1>10, <2>1 DEF LinkTypes
    <2>3. transfer'.n \in Nat BY <1>10, Sizes
    <2> QED BY <1>2, <1>10, <2>1, <2>2, <2>3, TypesSplit, TakeReads
  <1>11. CASE ReadBuffered
    <2>1. /\ CanRead /\ Take(buffered) /\ UNCHANGED <<build, plugged, faults, sent, flight, transfer>>
          /\ buffered > 0
      BY <1>11 DEF ReadBuffered, ReadPass
    <2>2. buffered \in 1..TransferSize BY <1>3, <2>1, Sizes
    <2>3. pos + buffered + transfer'.n + flight' <= StreamEnd BY <1>3, <2>1, Zenon
    <2>4. transfer' \in [st : {"none", "queued", "ok", "error"}, n : 0..TransferSize] /\ flight' \in Nat
      BY <2>1 DEF TypeOK
    <2> QED BY <1>10, <2>1, <2>2, <2>3, <2>4
  <1>12. CASE SubmitReadReady
    <2>1. /\ CanRead /\ UNCHANGED <<build, plugged, faults, sent, transfer>> /\ buffered = 0
      BY <1>12 DEF SubmitReadReady, ReadPass
    <2>2. PICK n \in 1..Min2(flight, TransferSize) : flight' = flight - n /\ Take(n)
      BY <1>12 DEF SubmitReadReady
    <2>3. n \in 1..TransferSize /\ n <= flight /\ flight - n \in Nat BY <1>3, Sizes DEF Min2
    <2>4. pos + n + tn + (flight - n) <= End
      <3> HIDE DEF tn, End
      <3> QED BY <1>3, <2>1, <2>3 DEF tn, End
    <2>5. pos + n + transfer'.n + flight' <= StreamEnd BY <2>1, <2>2, <2>4, Zenon
    <2>6. transfer' \in [st : {"none", "queued", "ok", "error"}, n : 0..TransferSize] /\ flight' \in Nat
      BY <2>1, <2>2, <2>3 DEF TypeOK
    <2> QED BY <1>10, <2>1, <2>2, <2>3, <2>5, <2>6
  <1>13. CASE SubmitReadFails BY <1>9, <1>13 DEF SubmitReadFails, ReadPass
  <1>14. CASE PollTransfer
    <2>1. CanRead /\ transfer' = NoTransfer /\ UNCHANGED <<build, plugged, faults, sent, flight>> /\ buffered = 0
      BY <1>14 DEF PollTransfer, ReadPass
    <2>2. CASE transfer.n > 0 /\ Take(transfer.n)
      <3>1. tn \in 1..TransferSize BY <1>3, <2>2, Sizes
      <3>2. pos + tn + 0 + flight <= End
        <4> HIDE DEF tn, End
        <4> QED BY <1>3, <2>1 DEF tn, End
      <3>3. pos + transfer.n + transfer'.n + flight' <= StreamEnd BY <1>4, <2>1, <3>2, Zenon
      <3>4. transfer' \in [st : {"none", "queued", "ok", "error"}, n : 0..TransferSize] /\ flight' \in Nat
        BY <1>3, <1>4, <2>1
      <3> QED BY <1>10, <2>1, <2>2, <3>1, <3>3, <3>4
    <2>3. CASE IoError BY <1>9, <2>1, <2>3
    <2> QED BY <1>14, <2>2, <2>3 DEF PollTransfer
  <1>15. CASE RouteReturns
    <2>1. /\ UNCHANGED <<build, plugged, faults, sent, flight, transfer, buffered, stage, need, pos, hdr, hpos,
                         phase, recv_seq, got>>
          /\ reader = "route" /\ reader' = "run"
      BY <1>15 DEF RouteReturns, ReadPass, inVars
    <2>2. LinkTypes' /\ ParserTypes' BY <1>1, <2>1 DEF LinkTypes, ParserTypes
    <2>3. pos + buffered' + transfer'.n + flight' <= StreamEnd BY <1>3, <2>1, Zenon
    <2> QED BY <1>2, <2>1, <2>2, <2>3, TypesSplit, ReadFrame DEF Opens
  <1> QED BY <1>5, <1>6, <1>7, <1>8, <1>11, <1>12, <1>13, <1>14, <1>15 DEF Reading, ReadStep

\* Packets that arrive are packets.
LEMMA ArrivesTypes ==
    ASSUME TypeOK, NEW pks \in Seq(OutPackets), NEW len, NEW zlp, Arrives(pks, len, zlp)
    PROVE  wire' \in Seq(OutPackets) /\ ends' \in Seq(Nat)
  <1> DEFINE now == Len(wire) + Len(pks)
  <1>1. wire \in Seq(OutPackets) /\ ends \in Seq(Nat) /\ now \in Nat BY DEF TypeOK
  <1>2. wire \o pks \in Seq(OutPackets) BY <1>1, ConcatProperties
  <1>3. Append(ends, now) \in Seq(Nat) /\ ends \o <<now, now>> \in Seq(Nat)
    <2>1. <<now, now>> \in Seq(Nat) BY <1>1
    <2> QED BY <1>1, <2>1, ConcatProperties, AppendFacts
  <1>4. ends' \in {ends, Append(ends, now), ends \o <<now, now>>} BY DEF Arrives
  <1>5. wire' = wire \o pks BY DEF Arrives
  <1> QED BY <1>1, <1>2, <1>3, <1>4, <1>5, Zenon

\* The constructor and the writer loop do not touch the parser, but for the start of the
\* reader loop.
LEMMA WritingReads ==
    ASSUME TypeOK, ReadInv, UNCHANGED <<sent, inVars>>, Opens
    PROVE  ReadInv'
  <1>1. UNCHANGED <<sent, flight, transfer, buffered, stage, need, pos, hdr, hpos, recv_seq, got>>
    BY DEF inVars
  <1>2. pos + buffered' + transfer'.n + flight' <= StreamEnd BY <1>1 DEF ReadInv, FlowInv
  <1> QED BY <1>1, <1>2, ReadFrame

\* UsbDevice::new.
LEMMA OpeningTypes ==
    ASSUME TypeOK, ReadInv, WriteInv, NewStep \/ OpeningWritten \/ OpeningFails
    PROVE  TypeOK' /\ ReadInv'
  <1>1. LinkTypes /\ ParserTypes /\ WriterTypes BY TypesSplit
  <1>2. NewPass BY DEF NewStep, SendOpening, OpeningFlushed, OpeningWritten, OpeningFails
  <1>3. /\ UNCHANGED <<build, plugged, sent, flight, transfer, buffered, stage, need, pos, hdr, hpos, recv_seq, got>>
        /\ UNCHANGED <<sent, inVars>>
        /\ UNCHANGED <<chan, queued, send_seq, wbuf, wlen, stale>>
    BY <1>2 DEF NewPass, inVars
  <1>4. ASSUME phase' \in {"version", "flush", "await", "setup", "flush2", "running", "failed"}, Opens,
               reader' \in {"off", "run", "route", "ended", "panicked"},
               faults' \in 0..MaxFaults, current_transfer_len' \in Nat,
               wpending' \in {"none", "queued", "ok", "error"},
               writer' \in {"off", "recv", "submit", "stalled", "panicked"},
               wire' \in Seq(OutPackets), ends' \in Seq(Nat)
        PROVE  TypeOK' /\ ReadInv'
    <2>1. LinkTypes' BY <1>1, <1>3, <1>4 DEF LinkTypes
    <2>2. ParserTypes' BY <1>1, <1>3, <1>4 DEF ParserTypes
    <2>3. WriterTypes' BY <1>1, <1>3, <1>4 DEF WriterTypes
    <2> QED BY <1>3, <1>4, <2>1, <2>2, <2>3, TypesSplit, WritingReads
  <1>5. CASE SendOpening
    <2>1. /\ UNCHANGED <<faults, reader, writer, wire, ends>>
          /\ phase' \in {"flush", "flush2", "failed"} /\ wpending' \in {wpending, "queued"}
          /\ current_transfer_len' = current_transfer_len \/ current_transfer_len' = current_transfer_len + OpeningLen
      BY <1>5, Zenon DEF SendOpening, wireVars
    <2>2. Opens
      <3>1. \/ phase' = "failed"
            \/ phase = "version" /\ phase' = "flush"
            \/ phase = "setup" /\ phase' = "flush2"
        BY <1>5, Zenon DEF SendOpening
      <3> QED BY <3>1 DEF Opens
    <2>3. current_transfer_len \in Nat /\ OpeningLen \in Nat BY Sizes DEF TypeOK, OpeningLen
    <2>4. current_transfer_len' \in Nat
      <3>1. current_transfer_len + OpeningLen \in Nat BY <2>3
      <3> QED BY <2>1, <2>3, <3>1, Zenon
    <2> QED BY <1>1, <1>4, <2>1, <2>4, <2>2 DEF LinkTypes, ParserTypes, WriterTypes
  <1>6. CASE OpeningFlushed
    <2>1. phase \in {"flush", "flush2"} BY <1>6 DEF OpeningFlushed, WriteInv, PhaseInv
    <2>2. /\ UNCHANGED <<faults, current_transfer_len, wire, ends>> /\ wpending' = "none"
          /\ phase' \in {"failed", "await", "running"} /\ Opens
          /\ reader' \in {"run", reader} /\ writer' \in {"recv", writer}
      BY <1>6, <2>1 DEF OpeningFlushed, wireVars, Opens
    <2> QED BY <1>1, <1>4, <2>2 DEF LinkTypes, ParserTypes, WriterTypes
  <1>7. CASE OpeningWritten
    <2>1. /\ UNCHANGED <<phase, faults, current_transfer_len, reader, writer>> /\ wpending' = "ok" /\ Opens
          /\ Arrives(<<Opening>>, OpeningLen, FALSE)
      BY <1>7 DEF OpeningWritten, Opens
    <2>2. <<Opening>> \in Seq(OutPackets)
      <3>1. OpeningLen \in Nat BY Sizes DEF OpeningLen
      <3>2. 0 \in Nat /\ 0 \in 0..SeqRange-1 /\ SeqRange - 1 \in 0..SeqRange-1 BY Sizes
      <3>3. Opening \in OutPackets BY <3>1, <3>2 DEF Opening, OutPackets
      <3> QED BY <3>3
    <2>3. wire' \in Seq(OutPackets) /\ ends' \in Seq(Nat) BY <2>1, <2>2, ArrivesTypes
    <2> QED BY <1>1, <1>4, <2>1, <2>3 DEF LinkTypes, ParserTypes, WriterTypes
  <1>8. CASE OpeningFails
    <2>1. /\ UNCHANGED <<phase, current_transfer_len, reader, writer, wire, ends>> /\ wpending' = "error" /\ Opens
          /\ UNCHANGED faults \/ (faults < MaxFaults /\ faults' = faults + 1)
      BY <1>8 DEF OpeningFails, wireVars, Opens
    <2>2. faults' \in 0..MaxFaults BY <2>1, LinkAssumption DEF TypeOK
    <2> QED BY <1>1, <1>4, <2>1, <2>2 DEF LinkTypes, ParserTypes, WriterTypes
  <1> QED BY <1>5, <1>6, <1>7, <1>8 DEF NewStep

\* The writer loop.
LEMMA WritingTypes ==
    ASSUME TypeOK, ReadInv, WriteInv, Enqueue \/ WriteStep
    PROVE  TypeOK' /\ ReadInv'
  <1>1. LinkTypes /\ ParserTypes /\ WriterTypes BY TypesSplit
  <1>2. WritePass BY DEF Enqueue, WriteStep, WriterTakes, SubmitEnd, SubmitEndFails
  <1>3. /\ UNCHANGED <<build, plugged, phase, reader, sent, flight, transfer, buffered, stage, need, pos, hdr, hpos,
                       recv_seq, got>>
        /\ UNCHANGED <<sent, inVars>> /\ Opens
    BY <1>2 DEF WritePass, inVars, Opens
  <1>4. ReadInv' /\ ParserTypes' BY <1>1, <1>3, WritingReads DEF ParserTypes
  <1>5. CASE Enqueue
    <2>1. /\ UNCHANGED <<faults, send_seq, wbuf, wlen, current_transfer_len, wpending, stale, writer, wire, ends>>
          /\ queued' = queued + 1 /\ queued < MaxOut /\ Len(chan) < ChanCap
      BY <1>5 DEF Enqueue, wireVars
    <2>2. PICK x \in IF queued = 0 THEN {0} ELSE Payloads : chan' = Append(chan, HEADERS_LEN_V2 + x)
      BY <1>5 DEF Enqueue
    <2>3. HEADERS_LEN_V2 + x \in Nat
      <3>1. x \in 0..(MAX_PACKET_SIZE - HEADERS_LEN_V2) BY <2>2, LinkAssumption
      <3> QED BY <3>1, Sizes
    <2>4. chan \in Seq(Nat) /\ queued \in 0..MaxOut BY DEF TypeOK
    <2>5. chan' \in Seq(Nat) /\ Len(chan') = Len(chan) + 1 /\ Len(chan) \in Nat
      BY <2>2, <2>3, <2>4, AppendFacts
    <2>6. queued + 1 \in 0..MaxOut /\ Len(chan) + 1 <= ChanCap BY <2>1, <2>4, <2>5, LinkAssumption
    <2>7. WriterTypes' BY <1>1, <2>1, <2>5, <2>6 DEF WriterTypes
    <2>8. LinkTypes' BY <1>1, <1>3, <2>1 DEF LinkTypes
    <2> QED BY <1>4, <2>7, <2>8, TypesSplit
  <1>6. CASE WriterTakes
    <2>1. UNCHANGED <<faults, queued, stale, wire, ends>> /\ chan # <<>> /\ chan' = Tail(chan) /\ writer = "recv"
      BY <1>6 DEF WriterTakes, wireVars
    <2>2. chan \in Seq(Nat) /\ Len(chan) <= ChanCap /\ queued \in Nat BY DEF TypeOK
    <2>3. Tail(chan) \in Seq(Nat) /\ Len(Tail(chan)) = Len(chan) - 1 /\ Len(chan) \in Nat /\ Head(chan) \in Nat
      BY <2>1, <2>2, TailFacts
    <2>4. chan' \in Seq(Nat) /\ Len(chan') <= ChanCap
      <3>1. Len(chan) - 1 <= ChanCap BY <2>2, <2>3, LinkAssumption
      <3> QED BY <2>1, <2>3, <3>1, Zenon
    <2>5. LinkTypes' BY <1>1, <1>3, <2>1 DEF LinkTypes
    <2>6. CASE writer' = "panicked" /\ UNCHANGED <<send_seq, wbuf, wlen, current_transfer_len, wpending>>
      <3>1. WriterTypes' BY <1>1, <2>1, <2>4, <2>6 DEF WriterTypes
      <3> QED BY <1>4, <2>5, <3>1, TypesSplit
    <2>7. CASE ~(build = "debug" /\ send_seq = SeqRange - 1)
      <3> DEFINE p == [n |-> queued - Len(chan) + 1, send |-> send_seq, recv |-> recv_seq,
                       len |-> Head(chan), stale |-> stale]
      <3>1. p \in OutPackets /\ p.len \in Nat
        <4>1. queued - Len(chan) + 1 \in Nat BY <2>2, <2>3 DEF WriteInv, ChanInv
        <4>2. send_seq \in 0..SeqRange-1 /\ recv_seq \in 0..SeqRange-1 /\ stale \in BOOLEAN BY DEF TypeOK
        <4> QED BY <2>3, <4>1, <4>2 DEF OutPackets
      <3>2. /\ wbuf' \in {<<>>, Append(wbuf, p)} /\ wlen' \in {0, wlen + p.len}
            /\ writer' \in {"stalled", "submit"} /\ wpending' \in {"queued", wpending}
            /\ current_transfer_len' \in {current_transfer_len + p.len, current_transfer_len + 0}
            /\ send_seq' = (send_seq + 1) % SeqRange
        BY <1>6, <2>1, <2>7 DEF WriterTakes
      <3> HIDE DEF p
      <3>3. wlen \in Nat /\ current_transfer_len \in Nat /\ wbuf \in Seq(OutPackets) BY DEF TypeOK
      <3>4. /\ wlen + p.len \in Nat /\ current_transfer_len + p.len \in Nat /\ current_transfer_len + 0 \in Nat
            /\ 0 \in Nat
        BY <3>1, <3>3
      <3>5. wlen' \in Nat /\ current_transfer_len' \in Nat BY <3>2, <3>4, Zenon
      <3>6. <<>> \in Seq(OutPackets) /\ Append(wbuf, p) \in Seq(OutPackets) BY <3>1, <3>3, AppendFacts
      <3>7. wbuf' \in Seq(OutPackets) BY <3>2, <3>6, Zenon
      <3>8. send_seq' \in 0..SeqRange-1 BY <3>2, SeqNext DEF TypeOK
      <3>9. WriterTypes' BY <1>1, <2>1, <2>4, <3>2, <3>5, <3>7, <3>8 DEF WriterTypes
      <3> QED BY <1>4, <2>5, <3>9, TypesSplit
    <2> QED BY <1>6, <2>6, <2>7 DEF WriterTakes
  <1>7. ASSUME writer' = "recv", wbuf' = <<>>, wlen' = 0, UNCHANGED <<chan, queued, send_seq, wpending>>,
               stale' \in BOOLEAN, current_transfer_len' \in Nat, faults' \in 0..MaxFaults,
               UNCHANGED wireVars \/ \E zlp : Arrives(wbuf, wlen, zlp)
        PROVE  TypeOK' /\ ReadInv'
    <2>1. wire' \in Seq(OutPackets) /\ ends' \in Seq(Nat)
      <3>1. CASE UNCHANGED wireVars BY <3>1 DEF wireVars, TypeOK
      <3>2. ASSUME NEW zlp, Arrives(wbuf, wlen, zlp)
            PROVE  wire' \in Seq(OutPackets) /\ ends' \in Seq(Nat)
        <4>1. wbuf \in Seq(OutPackets) BY DEF TypeOK
        <4> QED BY <3>2, <4>1, ArrivesTypes
      <3> QED BY <1>7, <3>1, <3>2
    <2>2. <<>> \in Seq(OutPackets) /\ 0 \in Nat OBVIOUS
    <2>3. WriterTypes' BY <1>1, <1>7, <2>1, <2>2 DEF WriterTypes
    <2>4. LinkTypes' BY <1>1, <1>3, <1>7 DEF LinkTypes
    <2> QED BY <1>4, <2>3, <2>4, TypesSplit
  <1>8. CASE SubmitEnd
    <2>1. stale' \in BOOLEAN BY <1>8, Zenon DEF SubmitEnd
    <2>2. faults' \in 0..MaxFaults /\ current_transfer_len' \in Nat BY <1>8 DEF SubmitEnd, TypeOK
    <2> QED BY <1>7, <1>8, <2>1, <2>2 DEF SubmitEnd
  <1>9. CASE SubmitEndFails
    <2>1. stale' \in BOOLEAN BY <1>9, Zenon DEF SubmitEndFails
    <2>2. faults' \in 0..MaxFaults
      <3>1. UNCHANGED faults \/ (faults < MaxFaults /\ faults' = faults + 1) BY <1>9 DEF SubmitEndFails
      <3> QED BY <3>1, LinkAssumption DEF TypeOK
    <2>3. current_transfer_len' \in Nat
      <3>1. current_transfer_len + wlen \in Nat BY DEF TypeOK
      <3> QED BY <1>9, <3>1, Zenon DEF SubmitEndFails
    <2> QED BY <1>7, <1>9, <2>1, <2>2, <2>3 DEF SubmitEndFails
  <1> QED BY <1>5, <1>6, <1>8, <1>9 DEF WriteStep

------------------------------------------------------------------------------
(* The theorems.                                                             *)

\* Nothing is sent, read or written yet.
LEMMA LinkInit == Init => LinkInv
  <1> SUFFICES ASSUME Init PROVE LinkInv OBVIOUS
  <1>1. TypeOK
    <2>1. /\ V1Size \in 1..MAX_PACKET_SIZE + 1 /\ 0 \in Lengths /\ 0 \in 0..SeqRange-1 /\ 1 \in 0..SeqRange-1
          /\ 0 \in 0..TransferSize /\ 0 \in Nat /\ 0 \in 0..MaxFaults /\ 0 \in 0..MaxOut /\ 0 <= ChanCap
      BY Sizes, LinkAssumption DEF Lengths
    <2>2. NoHeader \in Header BY <2>1 DEF NoHeader, Header, Protocols
    <2>3. NoTransfer \in [st : {"none", "queued", "ok", "error"}, n : 0..TransferSize] BY <2>1 DEF NoTransfer
    <2>4. Len(<<>>) = 0 /\ <<>> \in Seq(Nat) /\ <<>> \in Seq(OutPackets) /\ <<>> \in Seq(Packets) OBVIOUS
    <2>5. LinkTypes BY <2>1, <2>3, <2>4 DEF Init, LinkTypes
    <2>6. ParserTypes BY <2>1, <2>2, <2>4 DEF Init, ParserTypes
    <2>7. WriterTypes BY <2>1, <2>4 DEF Init, WriterTypes
    <2> QED BY <2>5, <2>6, <2>7, TypesSplit
  <1>2. Len(<<>>) = 0 /\ (\A i \in 1..0 : FALSE) /\ 0 - 0 = 0 OBVIOUS
  <1>3. WriteInv
    <2>1. Taken = 0 /\ Done = 0 BY <1>2 DEF Init, Taken, Done
    <2>2. PhaseInv /\ BufferInv BY DEF Init, PhaseInv, BufferInv
    <2>3. ChanInv BY <1>2 DEF Init, ChanInv
    <2>4. NumberInv
      <3>1. 1 = (0 + 1) % SeqRange BY Sizes, ModIs, 1 \in Int, 0 \in Int, 1 \in 0..SeqRange-1, 1 = SeqRange * 0 + 1
      <3>2. Numbered(wire, 0) /\ Gapless(wire) BY <1>2 DEF Init, Numbered, Gapless
      <3> QED BY <2>1, <3>1, <3>2 DEF Init, NumberInv
    <2>5. TransferInv BY <1>2 DEF Init, TransferInv, Whole, LastEnd
    <2>6. LengthInv BY DEF Init, LengthInv
    <2> QED BY <2>2, <2>3, <2>4, <2>5, <2>6 DEF WriteInv
  <1>4. ReadInv
    <2>1. StreamEnd = 0 /\ Base = 0 BY Sizes DEF Init, StreamEnd, Base
    <2>2. SentInv BY <1>2 DEF Init, SentInv
    <2>3. FlowInv BY <1>2, <2>1 DEF Init, FlowInv, NoTransfer
    <2>4. StageInv BY Sizes DEF Init, StageInv
    <2>5. PlaceInv BY <1>2, <2>1 DEF Init, PlaceInv, Boundary, GotExact
    <2>6. OpenInv BY <1>2 DEF Init, OpenInv, FineBelow
    <2> QED BY <2>2, <2>3, <2>4, <2>5, <2>6 DEF ReadInv
  <1> QED BY <1>1, <1>3, <1>4 DEF LinkInv

\* Every step keeps the invariant.
LEMMA LinkStep == LinkInv /\ [Next]_vars => LinkInv'
  <1> SUFFICES ASSUME LinkInv, [Next]_vars PROVE LinkInv' OBVIOUS
  <1>1. TypeOK /\ WriteInv /\ ReadInv /\ PhaseInv BY DEF LinkInv, WriteInv
  <1>2. WriteInv' BY <1>1, WriteStepKeeps
  <1>3. CASE Reading BY <1>1, <1>2, <1>3, ReadingTypes DEF LinkInv
  <1>4. CASE NewStep \/ OpeningWritten \/ OpeningFails BY <1>1, <1>2, <1>4, OpeningTypes DEF LinkInv
  <1>5. CASE Enqueue \/ WriteStep BY <1>1, <1>2, <1>5, WritingTypes DEF LinkInv
  <1>6. CASE UNCHANGED vars
    <2>1. /\ UNCHANGED <<build, plugged, faults, phase, reader, sent, inVars, writer>> /\ Opens
          /\ UNCHANGED <<outVars, wireVars>>
      BY <1>6 DEF vars, Opens
    <2>2. ReadInv' BY <1>1, <2>1, WritingReads
    <2>3. TypeOK' BY <1>1, <2>1 DEF TypeOK, inVars, outVars, wireVars
    <2> QED BY <1>2, <2>2, <2>3 DEF LinkInv
  <1> QED BY <1>3, <1>4, <1>5, <1>6 DEF Next, Reading

\* The invariant of the link: what the writer loop has buffered, numbered and cut into
\* transfers, and where in the device's stream the parser is.
THEOREM LinkInvariant == Spec => []LinkInv
  <1>1. Init => LinkInv BY LinkInit
  <1>2. LinkInv /\ [Next]_vars => LinkInv' BY LinkStep
  <1> QED BY <1>1, <1>2, PTL DEF Spec

\* The variables keep their types: the reader and the writer never count below zero or
\* past what a transfer and the channel hold.
THEOREM TypeCorrect == Spec => []TypeOK
  <1>1. LinkInv => TypeOK BY DEF LinkInv
  <1> QED BY <1>1, LinkInvariant, PTL

\* poll_write never submits by itself, for any payload that a connection may queue.
THEOREM NeverStalls == Spec => []WriterNeverStalls
  <1>1. LinkInv => WriterNeverStalls
    BY DEF LinkInv, WriteInv, PhaseInv, BufferInv, WriterNeverStalls
  <1> QED BY <1>1, LinkInvariant, PTL

\* Each packet of the writer loop is one USB transfer: the empty packet of
\* sync_flush_and_zlp is there exactly when the packet fills its last USB packet, and a
\* failed write spoils one packet at most.
THEOREM OneTransferEach == Spec => []OnePacketPerTransfer
  <1>1. LinkInv => OnePacketPerTransfer
    <2> SUFFICES ASSUME LinkInv PROVE OnePacketPerTransfer OBVIOUS
    <2>1. Whole(wire, ends, stale) BY DEF LinkInv, WriteInv, TransferInv
    <2>2. \A k : Begin(k) = BeginOf(ends, k) BY DEF Begin, BeginOf
    <2> QED BY <2>1, <2>2, Zenon DEF Whole, OnePacketPerTransfer
  <1> QED BY <1>1, LinkInvariant, PTL

\* The sequence numbers the device sees ascend with the channel without gaps but for
\* failed writes, and recv_seq counts the packets parsed since the version packet.
THEOREM Sequenced == Spec => []SeqNumbers
  <1>1. LinkInv => SeqNumbers
    <2> SUFFICES ASSUME LinkInv PROVE SeqNumbers OBVIOUS
    <2>1. Numbered(wire, Done) /\ (faults = 0 /\ plugged => Gapless(wire))
      BY DEF LinkInv, WriteInv, NumberInv
    <2>2. ASSUME reader # "off" PROVE recv_seq = (Len(got) - Opened) % SeqRange
      <3>1. phase = "running" BY <2>2 DEF LinkInv, WriteInv, PhaseInv
      <3>2. PICK k \in 1..Len(got) : FirstVersion(k) /\ recv_seq = (Len(got) - k) % SeqRange
        BY <3>1 DEF LinkInv, ReadInv, OpenInv
      <3>3. Len(got) \in Nat BY DEF LinkInv, TypeOK
      <3>4. VersionAt(got[k]) /\ \A j \in 1..k-1 : ~VersionAt(got[j])
        BY <3>2, <3>3 DEF FirstVersion
      <3>5. /\ Opened \in 1..Len(got)
            /\ VersionAt(got[Opened]) /\ \A j \in 1..Opened-1 : ~VersionAt(got[j])
        BY <3>4 DEF Opened
      <3> DEFINE o == Opened
      <3> HIDE DEF o
      <3>6. o \in 1..Len(got) /\ VersionAt(got[o]) /\ \A j \in 1..o-1 : ~VersionAt(got[j])
        BY <3>5 DEF o
      <3>7. ~(o < k) /\ ~(k < o)
        <4>1. o < k => o \in 1..k-1 BY <3>3, <3>6
        <4>2. k < o => k \in 1..o-1 BY <3>3, <3>6
        <4> QED BY <3>4, <3>6, <4>1, <4>2, Zenon
      <3>8. o = k BY <3>3, <3>6, <3>7
      <3> QED BY <3>2, <3>8, Zenon DEF o
    <2> QED BY <2>1, <2>2, Zenon DEF SeqNumbers, Numbered, Gapless
  <1> QED BY <1>1, LinkInvariant, PTL

\* However the transfers cut the stream, and across the hand-over from constructor to
\* reader loop, the packets parsed are those the device has sent, all and in order, as
\* long as from_reader has not given one up halfway.
THEOREM Parsed == Spec => []ParsedInOrder
  <1>1. LinkInv => ParsedInOrder
    <2> SUFFICES ASSUME LinkInv, \A k \in 1..Len(sent) : Harmless(sent[k])
                 PROVE  /\ \A i, j \in 1..Len(got) : i < j => got[i] < got[j]
                        /\ \A i \in 1..Len(got) :
                              \E k \in 1..Len(sent) : Accepted(sent[k]) /\ sent[k].start = got[i]
                        /\ \A k \in 1..Len(sent) :
                              Accepted(sent[k]) /\ got # <<>> /\ sent[k].start < got[Len(got)] =>
                                  \E i \in 1..Len(got) : got[i] = sent[k].start
      BY Zenon DEF ParsedInOrder
    <2>1. FineBelow(Base) BY DEF FineBelow
    <2>2. GotExact(got, Base) BY <2>1 DEF LinkInv, ReadInv, PlaceInv
    <2>3. ASSUME NEW k \in 1..Len(sent), Accepted(sent[k]), got # <<>>, sent[k].start < got[Len(got)]
          PROVE  \E i \in 1..Len(got) : got[i] = sent[k].start
      <3> DEFINE g == got
      <3> HIDE DEF g
      <3>0. g \in Seq(Nat) /\ g # <<>> BY <2>3, Zenon DEF LinkInv, TypeOK, g
      <3>1. Len(got) \in 1..Len(got) /\ got[Len(got)] \in Nat
        <4>1. Len(g) \in 1..Len(g) /\ g[Len(g)] \in Nat BY <3>0, ElementsOf
        <4> QED BY <4>1, Zenon DEF g
      <3>2. got[Len(got)] < Base BY <2>2, <3>1 DEF GotExact
      <3>3. sent[k].start \in Nat /\ Base \in Nat BY SentFields, BaseBelow DEF LinkInv, ReadInv
      <3>4. sent[k].start < Base BY <2>3, <3>1, <3>2, <3>3
      <3> QED BY <2>2, <2>3, <3>4, Zenon DEF GotExact
    <2> QED BY <2>2, <2>3, Zenon DEF GotExact
  <1> QED BY <1>1, LinkInvariant, PTL
=============================================================================
