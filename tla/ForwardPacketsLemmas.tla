------------------------ MODULE ForwardPacketsLemmas -----------------------
(***************************************************************************)
(* Lemmas about the helpers forward_packets is modelled with: the filter   *)
(* of a batch (Survivors), its chunking (Chunks) and the try_send of the   *)
(* chunks into bounded channels (Take, Deliver).  They are what the proof  *)
(* of ForwardedPacketsAdmissible in RelayerProofs rests on.                *)
(***************************************************************************)
EXTENDS Relayer, WellFoundedInduction, TLAPS

USE ConstAssumption

\* Every non-empty set of naturals has a least element; the proofs below
\* that walk a batch use it to pick the first index where a claim fails.
LEMMA NatLeastElement ==
  \A T \in SUBSET Nat : T # {} => \E m \in T : \A k \in T : ~(k < m)
<1> SUFFICES ASSUME NEW T \in SUBSET Nat, T # {}
             PROVE  \E m \in T : \A k \in T : ~(k < m)
  OBVIOUS
<1>1. PICK m \in T : \A k \in T : ~(<<k, m>> \in OpToRel(<, Nat))
  BY NatLessThanWellFounded, WFMin
<1> QED  BY <1>1 DEF OpToRel

\* One step of the filter loop of forward_packets, with the vector built so
\* far as the function g: the shape of the recursive definition in Survivors.
KeptStep(b, g, i) ==
  IF i = 0 THEN << >>
  ELSE IF Admissible(b[i]) THEN Append(g[i - 1], b[i]) ELSE g[i - 1]

\* x is a vector of packets that all passed the discard and OFAC filters.
AdmSeq(x) == x \in Seq(Packets) /\ \A j \in 1..Len(x) : Admissible(x[j])

\* Survivors is the last entry of the vector built by the filter loop.
LEMMA SurvivorsIsKept ==
  ASSUME NEW b
  PROVE  Survivors(b) =
           (CHOOSE f : f = [i \in 0..Len(b) |-> KeptStep(b, f, i)])[Len(b)]
BY DEF Survivors, KeptStep

\* A step of the filter loop pushes a packet onto a vector of packets.
LEMMA KeptStepType ==
  ASSUME NEW b \in Seq(Packets), NEW g, NEW i \in 1..Len(b),
         g[i - 1] \in Seq(Packets)
  PROVE  KeptStep(b, g, i) \in Seq(Packets)
BY DEF KeptStep

\* The filter loop of forward_packets defines a vector after each packet of
\* the batch: the recursive function Survivors is built from exists.
LEMMA KeptExists ==
  ASSUME NEW b \in Seq(Packets)
  PROVE  \E f : f = [i \in 0..Len(b) |-> KeptStep(b, f, i)]
<1> DEFINE Ok(n, g) == /\ g \in [0..n -> Seq(Packets)]
                       /\ \A i \in 0..n : g[i] = KeptStep(b, g, i)
           T == {n \in 0..Len(b) : ~\E g : Ok(n, g)}
<1>1. T = {}
  <2> SUFFICES ASSUME T # {} PROVE FALSE
    OBVIOUS
  <2>0. T \in SUBSET Nat
    OBVIOUS
  <2>1. PICK m \in T : \A k \in T : ~(k < m)
    BY <2>0, NatLeastElement
  <2>2. CASE m = 0
    <3> DEFINE g0 == [i \in 0..0 |-> << >>]
    <3>1. Ok(0, g0)
      BY DEF KeptStep
    <3> QED  BY <2>1, <2>2, <3>1
  <2>3. CASE m # 0
    <3>1. m - 1 \in 0..Len(b) /\ m - 1 < m
      BY <2>1, <2>3
    <3>0. m - 1 \notin T
      BY <2>1, <3>1, Zenon
    <3>2. PICK g : Ok(m - 1, g)
      BY <3>0, <3>1, Zenon
    <3> DEFINE h == [i \in 0..m |-> IF i < m THEN g[i] ELSE KeptStep(b, g, m)]
    <3>3. m \in 1..Len(b)
      BY <2>1, <2>3
    <3>4. KeptStep(b, g, m) \in Seq(Packets)
      BY <3>2, <3>3, KeptStepType
    <3>5. h \in [0..m -> Seq(Packets)]
      BY <3>2, <3>4
    <3>6. ASSUME NEW i \in 0..m PROVE h[i] = KeptStep(b, h, i)
      <4>1. CASE i = 0
        BY <4>1, <3>2 DEF KeptStep
      <4>2. CASE i \in 1..(m - 1)
        <5>1. h[i] = g[i] /\ h[i - 1] = g[i - 1]
          BY <4>2
        <5>2. g[i] = KeptStep(b, g, i)
          BY <3>2, <4>2
        <5> QED  BY <5>1, <5>2 DEF KeptStep
      <4>3. CASE i = m
        <5>1. h[m] = KeptStep(b, g, m) /\ h[m - 1] = g[m - 1]
          BY <2>3, <3>3
        <5> QED  BY <4>3, <5>1 DEF KeptStep
      <4> QED  BY <4>1, <4>2, <4>3
    <3>7. Ok(m, h)
      BY <3>5, <3>6
    <3> QED  BY <2>1, <3>7
  <2> QED  BY <2>2, <2>3
<1>2. PICK g : Ok(Len(b), g)
  <2>1. Len(b) \in 0..Len(b)
    OBVIOUS
  <2> QED  BY <1>1, <2>1, Zenon
<1>3. g = [i \in 0..Len(b) |-> KeptStep(b, g, i)]
  BY <1>2
<1> QED  BY <1>3

\* Pushing an admissible packet onto a vector of admissible packets.
LEMMA AppendAdmissible ==
  ASSUME NEW x, NEW p \in Packets, AdmSeq(x), Admissible(p)
  PROVE  AdmSeq(Append(x, p))
<1>1. x \in Seq(Packets)
  BY DEF AdmSeq
<1>2. Append(x, p) \in Seq(Packets) /\ Len(Append(x, p)) = Len(x) + 1
  BY <1>1
<1>3. ASSUME NEW j \in 1..Len(Append(x, p)) PROVE Admissible(Append(x, p)[j])
  <2>1. CASE j <= Len(x)
    <3>1. Append(x, p)[j] = x[j]
      BY <1>1, <2>1
    <3> QED  BY <2>1, <3>1 DEF AdmSeq
  <2>2. CASE j = Len(x) + 1
    <3>1. Append(x, p)[j] = p
      BY <1>1, <2>2
    <3> QED  BY <3>1
  <2> QED  BY <1>2, <2>1, <2>2
<1> QED  BY <1>2, <1>3 DEF AdmSeq

\* Every vector the filter loop builds holds only admissible packets.
LEMMA KeptAdmissible ==
  ASSUME NEW b \in Seq(Packets), NEW f,
         f = [i \in 0..Len(b) |-> KeptStep(b, f, i)]
  PROVE  \A n \in 0..Len(b) : AdmSeq(f[n])
<1> DEFINE T == {n \in 0..Len(b) : ~AdmSeq(f[n])}
<1> SUFFICES ASSUME T # {} PROVE FALSE
  OBVIOUS
<1>0. T \in SUBSET Nat
  OBVIOUS
<1>1. PICK m \in T : \A k \in T : ~(k < m)
  BY <1>0, NatLeastElement
<1>2. CASE m = 0
  <2>1. f[0] = << >>
    BY DEF KeptStep
  <2> QED  BY <1>1, <1>2, <2>1 DEF AdmSeq
<1>3. CASE m # 0
  <2>1. m - 1 \in 0..Len(b) /\ m - 1 < m /\ m \in 1..Len(b)
    BY <1>1, <1>3
  <2>2. AdmSeq(f[m - 1])
    BY <1>1, <2>1, Zenon
  <2>3. f[m] = KeptStep(b, f, m)
    BY <2>1
  <2>4. CASE Admissible(b[m])
    <3>1. f[m] = Append(f[m - 1], b[m])
      BY <2>1, <2>3, <2>4 DEF KeptStep
    <3>2. b[m] \in Packets
      BY <2>1
    <3>3. AdmSeq(f[m])
      BY <2>2, <2>4, <3>1, <3>2, AppendAdmissible
    <3> QED  BY <1>1, <3>3
  <2>5. CASE ~Admissible(b[m])
    <3>1. f[m] = f[m - 1]
      BY <2>1, <2>3, <2>5 DEF KeptStep
    <3> QED  BY <1>1, <2>2, <3>1
  <2> QED  BY <2>4, <2>5
<1> QED  BY <1>2, <1>3

\* What .filter(..).filter_map(..).collect() keeps of a batch is a vector
\* of packets that are neither discarded nor (with OFAC on) undecodable or
\* OFAC-related.
LEMMA SurvivorsAdmissible ==
  ASSUME NEW b \in Seq(Packets)
  PROVE  AdmSeq(Survivors(b))
<1> DEFINE F == CHOOSE f : f = [i \in 0..Len(b) |-> KeptStep(b, f, i)]
<1>1. F = [i \in 0..Len(b) |-> KeptStep(b, F, i)]
  BY KeptExists
<1>2. Survivors(b) = F[Len(b)]
  BY SurvivorsIsKept
<1>3. Len(b) \in 0..Len(b)
  OBVIOUS
<1> QED  BY <1>1, <1>2, <1>3, KeptAdmissible

\* A batch message holds between 1 and validator_packet_batch_size packets,
\* all admissible; heartbeats carry none.
BatchOk(m) ==
  m.kind = "batch" =>
    /\ Len(m.pkts) \in 1..BatchSize
    /\ \A j \in 1..Len(m.pkts) : Admissible(m.pkts[j])
\* Every message buffered in a channel is well formed.
QueueOk(q) == \A i \in 1..Len(q) : BatchOk(q[i])

\* The bounds packets.chunks(size) slices the vector with: chunk i is not
\* empty and has at most size packets.
LEMMA ChunkBounds ==
  ASSUME NEW L \in Nat, NEW i \in 1..((L + BatchSize - 1) \div BatchSize)
  PROVE  /\ (i - 1) * BatchSize + 1 <= MinOf(i * BatchSize, L)
         /\ MinOf(i * BatchSize, L) - ((i - 1) * BatchSize + 1) + 1 <= BatchSize
<1> DEFINE B == BatchSize
           q == (L + B - 1) \div B
<1>1. B \in Nat \ {0} /\ q \in Nat
  OBVIOUS
<1>2. q * B <= L + B - 1
  BY <1>1
<1>3. i * B <= q * B
  BY <1>1
<1>4. (i - 1) * B + 1 <= L
  BY <1>2, <1>3
<1>5. (i - 1) * B + 1 <= i * B
  BY <1>1
<1> QED  BY <1>4, <1>5 DEF MinOf

\* Every chunk forward_packets sends of an admissible vector is a batch
\* of 1..validator_packet_batch_size admissible packets.
LEMMA ChunksAdmissible ==
  ASSUME NEW s, AdmSeq(s)
  PROVE  QueueOk(Chunks(s))
<1> DEFINE L == Len(s)
           lo(i) == (i - 1) * BatchSize + 1
           hi(i) == MinOf(i * BatchSize, L)
<1>0. s \in Seq(Packets) /\ L \in Nat /\ NumChunks(s) \in Nat
  BY DEF AdmSeq, NumChunks
<1>1. Len(Chunks(s)) = NumChunks(s)
  BY <1>0 DEF Chunks
<1> SUFFICES ASSUME NEW i \in 1..NumChunks(s) PROVE BatchOk(Chunks(s)[i])
  BY <1>1 DEF QueueOk
<1>2. Chunks(s)[i] = [kind |-> "batch", pkts |-> SubSeq(s, lo(i), hi(i))]
  BY DEF Chunks
<1>3. lo(i) <= hi(i) /\ hi(i) - lo(i) + 1 <= BatchSize
  BY ChunkBounds DEF NumChunks
<1>4. lo(i) \in 1..L /\ hi(i) \in 1..L
  BY <1>0, <1>3 DEF MinOf
<1> DEFINE p == SubSeq(s, lo(i), hi(i))
<1>5. Len(p) = hi(i) - lo(i) + 1 /\ Len(p) \in 1..BatchSize
  BY <1>0, <1>3, <1>4
<1>6. ASSUME NEW j \in 1..Len(p) PROVE Admissible(p[j])
  <2>1. p[j] = s[lo(i) + j - 1] /\ lo(i) + j - 1 \in 1..L
    BY <1>0, <1>4, <1>5
  <2> QED  BY <2>1 DEF AdmSeq
<1> DEFINE r == [kind |-> "batch", pkts |-> p]
<1>7. r.kind = "batch" /\ r.pkts = p
  OBVIOUS
<1>8. Chunks(s)[i] = r
  BY <1>2
<1>9. Chunks(s)[i].kind = "batch" /\ Chunks(s)[i].pkts = p
  BY <1>7, <1>8
<1> QED  BY <1>5, <1>6, <1>9, Zenon DEF BatchOk

\* Appending two queues of well-formed messages gives a queue of them.
LEMMA ConcatOk ==
  ASSUME NEW a \in Seq(Msg), NEW b \in Seq(Msg), QueueOk(a), QueueOk(b)
  PROVE  QueueOk(a \o b)
<1> SUFFICES ASSUME NEW i \in 1..Len(a \o b) PROVE BatchOk((a \o b)[i])
  BY DEF QueueOk
<1>1. CASE i <= Len(a)
  <2>1. (a \o b)[i] = a[i] /\ i \in 1..Len(a)
    BY <1>1
  <2>2. QED  BY <2>1 DEF QueueOk
<1>2. CASE i > Len(a)
  <2>1. (a \o b)[i] = b[i - Len(a)] /\ i - Len(a) \in 1..Len(b)
    BY <1>2
  <2>2. QED  BY <2>1 DEF QueueOk
<1> QED  BY <1>1, <1>2

\* A prefix of a queue of well-formed messages is one.
LEMMA TakeOk ==
  ASSUME NEW q \in Seq(Msg), QueueOk(q), NEW n \in Nat
  PROVE  Take(q, n) \in Seq(Msg) /\ QueueOk(Take(q, n))
<1>1. MinOf(n, Len(q)) \in 0..Len(q)
  BY DEF MinOf
<1>2. Take(q, n) = [k \in 1..MinOf(n, Len(q)) |-> q[k]]
  BY <1>1 DEF Take
<1>3. Take(q, n) \in Seq(Msg)
  BY <1>1, <1>2
<1>4. QueueOk(Take(q, n))
  BY <1>1, <1>2 DEF QueueOk
<1> QED  BY <1>3, <1>4

\* try_send into every channel of S keeps each channel well formed.
LEMMA DeliverOk ==
  ASSUME queue \in [Conns -> Seq(Msg)],
         \A c \in Conns : Len(queue[c]) <= QueueCap /\ QueueOk(queue[c]),
         NEW S, NEW msgs \in Seq(Msg), QueueOk(msgs)
  PROVE  \A c \in Conns : QueueOk(Deliver(S, msgs)[c])
<1> SUFFICES ASSUME NEW c \in Conns PROVE QueueOk(Deliver(S, msgs)[c])
  OBVIOUS
<1>1. CASE \E v \in S : subs[v] = c
  <2>1. Deliver(S, msgs)[c] = queue[c] \o Take(msgs, QueueCap - Len(queue[c]))
    BY <1>1 DEF Deliver
  <2>2. QueueCap - Len(queue[c]) \in Nat
    OBVIOUS
  <2>3. Take(msgs, QueueCap - Len(queue[c])) \in Seq(Msg)
        /\ QueueOk(Take(msgs, QueueCap - Len(queue[c])))
    BY <2>2, TakeOk
  <2> QED  BY <2>1, <2>3, ConcatOk
<1>2. CASE ~\E v \in S : subs[v] = c
  BY <1>2 DEF Deliver
<1> QED  BY <1>1, <1>2

====
