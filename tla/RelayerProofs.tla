--------------------------- MODULE RelayerProofs ---------------------------
(***************************************************************************)
(* Proofs about the relayer event loop of Relayer.tla, for every value of  *)
(* the constants that satisfies ConstAssumption.                           *)
(***************************************************************************)
EXTENDS ForwardPacketsLemmas

USE ConstAssumption

-----------------------------------------------------------------------------
(* Lemmas about the sequence helpers of forward_packets.                    *)

\* A slice of a sequence that ends inside it is a sequence over the same set.
LEMMA SubSeqType ==
  ASSUME NEW S, NEW s \in Seq(S), NEW m \in Nat \ {0}, NEW n \in Nat,
         n <= Len(s)
  PROVE  SubSeq(s, m, n) \in Seq(S)
OBVIOUS

\* Take(s, n) keeps the first n elements of s, or all of them.
LEMMA TakeType ==
  ASSUME NEW S, NEW s \in Seq(S), NEW n \in Nat
  PROVE  /\ Take(s, n) \in Seq(S)
         /\ Len(Take(s, n)) = MinOf(n, Len(s))
BY DEF Take, MinOf

\* The chunks of a sequence of packets are batch messages.
LEMMA ChunksType ==
  ASSUME NEW s \in Seq(Packets)
  PROVE  Chunks(s) \in Seq(Msg)
<1> DEFINE lo(i) == (i - 1) * BatchSize + 1
           hi(i) == MinOf(i * BatchSize, Len(s))
<1>1. NumChunks(s) \in Nat
  BY DEF NumChunks
<1>2. \A i \in 1..NumChunks(s) : SubSeq(s, lo(i), hi(i)) \in Seq(Packets)
  <2> SUFFICES ASSUME NEW i \in 1..NumChunks(s)
               PROVE  SubSeq(s, lo(i), hi(i)) \in Seq(Packets)
    OBVIOUS
  <2>1. lo(i) \in Nat \ {0} /\ hi(i) \in Nat /\ hi(i) <= Len(s)
    BY <1>1 DEF MinOf
  <2> QED  BY <2>1, SubSeqType
<1>3. \A i \in 1..NumChunks(s) :
        [kind |-> "batch", pkts |-> SubSeq(s, lo(i), hi(i))] \in Msg
  BY <1>2 DEF Msg
<1> QED  BY <1>1, <1>3 DEF Chunks

\* try_send into bounded channels keeps every channel within its bound.
LEMMA DeliverType ==
  ASSUME TypeOK, NEW S, NEW msgs \in Seq(Msg)
  PROVE  /\ Deliver(S, msgs) \in [Conns -> Seq(Msg)]
         /\ \A c \in Conns : Len(Deliver(S, msgs)[c]) <= QueueCap
<1> SUFFICES ASSUME NEW c \in Conns
             PROVE  /\ Deliver(S, msgs)[c] \in Seq(Msg)
                    /\ Len(Deliver(S, msgs)[c]) <= QueueCap
  BY DEF Deliver
<1>1. CASE \E v \in S : subs[v] = c
  <2> DEFINE room == QueueCap - Len(queue[c])
  <2>1. room \in Nat
    BY DEF TypeOK
  <2>2. Take(msgs, room) \in Seq(Msg) /\ Len(Take(msgs, room)) = MinOf(room, Len(msgs))
    BY <2>1, TakeType
  <2>3. Deliver(S, msgs)[c] = queue[c] \o Take(msgs, room)
    BY <1>1 DEF Deliver
  <2> QED  BY <2>2, <2>3 DEF TypeOK, MinOf
<1>2. CASE ~\E v \in S : subs[v] = c
  BY <1>2 DEF Deliver, TypeOK
<1> QED  BY <1>1, <1>2

-----------------------------------------------------------------------------
(* Type correctness.                                                        *)

\* The recipients of forward_packets are validators.
LEMMA RecipientsType ==
  ASSUME TypeOK
  PROVE  Recipients \subseteq Validators
BY DEF Recipients, Subscribed, TypeOK

\* Every step of the event loop and of its environment keeps the types, and
\* every subscriber channel within SUBSCRIBER_QUEUE_CAPACITY.
LEMMA TypeNext ==
  ASSUME TypeOK, [Next]_vars
  PROVE  TypeOK'
<1>1. CASE SlotArm
  <2>1. Window(Head(slotQ)) \subseteq SchedSlots
    BY <1>1 DEF SlotArm, TypeOK, Window, SchedSlots, Slots
  <2> QED  BY <1>1, <2>1 DEF SlotArm, LeadersForSlots, TypeOK
<1>2. CASE PacketArm
  <2> DEFINE msgs == Chunks(Survivors(Head(delayQ)))
  <2>0. Survivors(Head(delayQ)) \in Seq(Packets)
    <3>1. Head(delayQ) \in Seq(Packets)
      BY <1>2 DEF PacketArm, TypeOK
    <3> QED  BY <3>1, SurvivorsAdmissible DEF AdmSeq
  <2>1. msgs \in Seq(Msg)
    BY <2>0, ChunksType
  <2>2. Recipients \subseteq Validators
    BY RecipientsType
  <2>3. \A S : /\ Deliver(S, msgs) \in [Conns -> Seq(Msg)]
               /\ \A c \in Conns : Len(Deliver(S, msgs)[c]) <= QueueCap
    BY <2>1, DeliverType
  <2>4. subs' \in [Validators -> Conns \cup {NoConn}]
    BY <1>2, <2>2 DEF PacketArm, TypeOK
  <2>5. delayQ' \in Seq(InputBatches)
    BY <1>2 DEF PacketArm, TypeOK
  <2> QED  BY <1>2, <2>3, <2>4, <2>5 DEF PacketArm, TypeOK
<1>3. CASE SubscriptionArm
  <2>1. Head(subQ) \in Subscription
    BY <1>3 DEF SubscriptionArm, TypeOK
  <2>2. Head(subQ).pubkey \in Validators /\ Head(subQ).conn \in Conns
    BY <2>1 DEF Subscription
  <2> QED  BY <1>3, <2>2 DEF SubscriptionArm, TypeOK
<1>4. CASE HeartbeatArm
  <2>1. Heartbeat \in Msg
    BY DEF Heartbeat, Msg
  <2>2. CASE health = Healthy
    <3>0. queue' = [c \in Conns |->
                     IF /\ \E v \in Subscribed : subs[v] = c
                        /\ rxOpen[c] /\ Len(queue[c]) < QueueCap
                     THEN Append(queue[c], Heartbeat)
                     ELSE queue[c]]
      BY <1>4, <2>2 DEF HeartbeatArm, Healthy, Unhealthy
    <3>1. queue' \in [Conns -> Seq(Msg)] /\ \A c \in Conns : Len(queue'[c]) <= QueueCap
      <4> SUFFICES ASSUME NEW c \in Conns
                   PROVE  queue'[c] \in Seq(Msg) /\ Len(queue'[c]) <= QueueCap
        BY <3>0
      <4>1. queue[c] \in Seq(Msg) /\ Len(queue[c]) <= QueueCap
        BY DEF TypeOK
      <4> QED  BY <3>0, <2>1, <4>1
    <3>2. subs' \in [Validators -> Conns \cup {NoConn}]
      BY <1>4, <2>2 DEF HeartbeatArm, TypeOK, Healthy, Unhealthy, Subscribed
    <3> QED  BY <1>4, <2>2, <3>1, <3>2 DEF HeartbeatArm, TypeOK, Healthy, Unhealthy
  <2>3. CASE health # Healthy
    BY <1>4, <2>3 DEF HeartbeatArm, TypeOK
  <2> QED  BY <2>2, <2>3
<1>5. CASE \E v \in Validators : SubscribePackets(v)
  BY <1>5 DEF SubscribePackets, TypeOK, Subscription
<1>6. CASE \E e \in Epochs : \E f \in {e, e + 1} : UpdateLeaderCache(e, f)
  BY <1>6 DEF UpdateLeaderCache, EpochSchedule, TypeOK, Epochs
<1>7. CASE \E c \in Conns : ClientRecv(c)
  BY <1>7 DEF ClientRecv, TypeOK
<1>12. CASE \E c \in Conns : ClientDisconnect(c)
  BY <1>12 DEF ClientDisconnect, TypeOK
<1>8. CASE \E s \in Slots : SlotArrives(s)
  BY <1>8 DEF SlotArrives, TypeOK
<1>9. CASE \E b \in InputBatches : BatchArrives(b)
  BY <1>9 DEF BatchArrives, TypeOK
<1>10. CASE \E h \in {Healthy, Unhealthy} : HealthChange(h)
  BY <1>10 DEF HealthChange, TypeOK
<1>11. CASE UNCHANGED vars
  BY <1>11 DEF vars, TypeOK
<1> QED
  BY <1>1, <1>2, <1>3, <1>4, <1>5, <1>6, <1>7, <1>8, <1>9, <1>10, <1>11, <1>12
  DEF Next, EventLoop, Environment

\* The initial state is well typed.
LEMMA TypeInit ==
  Init => TypeOK
<1> SUFFICES ASSUME Init PROVE TypeOK
  OBVIOUS
<1>1. queue \in [Conns -> Seq(Msg)] /\ \A c \in Conns : Len(queue[c]) <= QueueCap
  BY DEF Init
<1>2. highestSlot \in Slots
  BY DEF Init, Slots
<1>3. health \in {Healthy, Unhealthy}
  BY DEF Init
<1>4. /\ subs \in [Validators -> Conns \cup {NoConn}]
      /\ rxOpen \in [Conns -> BOOLEAN]
      /\ owner \in [Conns -> Validators \cup {NoVal}]
      /\ schedule \in [SchedSlots -> Validators \cup {NoVal}]
  BY DEF Init
<1>5. /\ subQ \in Seq(Subscription) /\ slotQ \in Seq(Slots)
      /\ delayQ \in Seq(InputBatches)
  BY DEF Init
<1>6. slotLeaders \subseteq Validators /\ massDropped \in BOOLEAN
  BY DEF Init
<1> QED  BY <1>1, <1>2, <1>3, <1>4, <1>5, <1>6 DEF TypeOK

\* Type correctness of the whole specification: in particular no subscriber
\* channel ever holds more than SUBSCRIBER_QUEUE_CAPACITY messages, whatever
\* forward_packets and the heartbeat arm send into it.
THEOREM TypeCorrect == Spec => []TypeOK
BY TypeInit, TypeNext, PTL DEF Spec

-----------------------------------------------------------------------------
(* The inductive invariant behind DeliveredOnlyToScheduled.               *)

\* The schedule cache holds, at each slot, the leader of that slot or of the
\* same slot index one epoch later: never a validator from further away.
ScheduleSound ==
  \A s \in SchedSlots : schedule[s] # NoVal => ScheduledFor(s, schedule[s])

\* slot_leaders are so scheduled for a slot of the window at highest_slot.
LeadersSound ==
  \A v \in slotLeaders : \E s \in Window(highestSlot) : ScheduledFor(s, v)

\* The sender the map holds for a pubkey is one created for that pubkey.
OwnerSound ==
  \A v \in Validators : subs[v] # NoConn => owner[subs[v]] = v

\* So is every sender waiting in the subscription channel.
SubQSound ==
  \A i \in 1..Len(subQ) : owner[subQ[i].conn] = subQ[i].pubkey

IInv == TypeOK /\ ScheduleSound /\ LeadersSound /\ OwnerSound /\ SubQSound


LEMMA IInvInit ==
  Init => IInv
<1> SUFFICES ASSUME Init PROVE IInv
  OBVIOUS
<1>1. TypeOK
  BY TypeInit
<1> QED
  BY <1>1, NoConn \notin Conns DEF Init, IInv, ScheduleSound, LeadersSound,
                                     OwnerSound, SubQSound

LEMMA IInvNext ==
  ASSUME IInv, [Next]_vars
  PROVE  IInv'
<1> USE DEF IInv
<1>0. TypeOK'
  BY TypeNext
<1>1. CASE SlotArm
  <2>1. Window(Head(slotQ)) \subseteq SchedSlots
    BY <1>1 DEF SlotArm, TypeOK, Window, SchedSlots, Slots
  <2>2. LeadersSound'
    BY <1>1, <2>1 DEF SlotArm, LeadersForSlots, ScheduleSound, LeadersSound
  <2> QED  BY <1>0, <1>1, <2>2 DEF SlotArm, ScheduleSound, OwnerSound, SubQSound
<1>2. CASE PacketArm
  <2>1. OwnerSound'
    <3>1. \/ subs' = subs
          \/ \E fc \in Validators : subs' = [subs EXCEPT ![fc] = NoConn]
      BY <1>2, RecipientsType DEF PacketArm
    <3> QED  BY <1>2, <3>1 DEF PacketArm, OwnerSound, TypeOK
  <2> QED  BY <1>0, <1>2, <2>1 DEF PacketArm, ScheduleSound, LeadersSound, SubQSound
<1>3. CASE SubscriptionArm
  <2>1. owner[Head(subQ).conn] = Head(subQ).pubkey
    <3>1. 1 \in 1..Len(subQ) /\ Head(subQ) = subQ[1]
      BY <1>3 DEF SubscriptionArm, TypeOK
    <3> QED  BY <3>1 DEF SubQSound
  <2>2. OwnerSound'
    BY <1>3, <2>1 DEF SubscriptionArm, OwnerSound, TypeOK
  <2>3. SubQSound'
    BY <1>3 DEF SubscriptionArm, SubQSound, TypeOK
  <2> QED  BY <1>0, <1>3, <2>2, <2>3 DEF SubscriptionArm, ScheduleSound, LeadersSound
<1>4. CASE HeartbeatArm
  <2>1. OwnerSound'
    BY <1>4 DEF HeartbeatArm, OwnerSound, TypeOK
  <2> QED  BY <1>0, <1>4, <2>1 DEF HeartbeatArm, ScheduleSound, LeadersSound, SubQSound
<1>5. CASE \E v \in Validators : SubscribePackets(v)
  <2> SUFFICES ASSUME NEW v \in Validators, NEW c \in Conns, owner[c] = NoVal,
                      owner' = [owner EXCEPT ![c] = v],
                      subQ' = Append(subQ, [pubkey |-> v, conn |-> c]),
                      UNCHANGED <<subs, highestSlot, slotLeaders, schedule>>
               PROVE  IInv'
    BY <1>5 DEF SubscribePackets
  <2>1. \A w \in Validators : subs[w] # c
    BY DEF OwnerSound, TypeOK
  <2>2. \A i \in 1..Len(subQ) : subQ[i].conn # c
    <3> SUFFICES ASSUME NEW i \in 1..Len(subQ) PROVE subQ[i].conn # c
      OBVIOUS
    <3>0. subQ[i] \in Subscription
      BY DEF TypeOK
    <3>1. subQ[i].pubkey \in Validators
      BY <3>0 DEF Subscription
    <3> QED  BY <3>1 DEF SubQSound
  <2>3. OwnerSound'
    BY <2>1 DEF OwnerSound, TypeOK
  <2>4. SubQSound'
    BY <2>2 DEF SubQSound, TypeOK
  <2> QED  BY <1>0, <2>3, <2>4 DEF ScheduleSound, LeadersSound
<1>6. CASE \E e \in Epochs : \E f \in {e, e + 1} : UpdateLeaderCache(e, f)
  <2>0. PICK e \in Epochs : \E f \in {e, e + 1} : UpdateLeaderCache(e, f)
    BY <1>6
  <2>1. PICK f \in {e, e + 1} : UpdateLeaderCache(e, f)
    BY <2>0
  <2>2. ScheduleSound'
    <3> SUFFICES ASSUME NEW s \in SchedSlots, schedule'[s] # NoVal
                 PROVE  ScheduledFor(s, schedule'[s])
      BY DEF ScheduleSound
    <3> DEFINE r == s - e * SlotsPerEpoch
    <3>0. e \in Nat /\ SlotsPerEpoch \in Nat
      BY ConstAssumption DEF Epochs, Slots
    <3>1. f * SlotsPerEpoch + r \in SchedSlots
          /\ schedule'[s] = TrueLeader[f * SlotsPerEpoch + r]
      BY <2>1 DEF UpdateLeaderCache, EpochSchedule
    <3>2. CASE f = e
      <4>1. f * SlotsPerEpoch + r = s
        BY <3>0, <3>2 DEF SchedSlots
      <4> QED  BY <3>1, <4>1 DEF ScheduledFor
    <3>3. CASE f = e + 1
      <4>1. f * SlotsPerEpoch + r = s + SlotsPerEpoch
        BY <3>0, <3>3 DEF SchedSlots
      <4> QED  BY <3>1, <4>1 DEF ScheduledFor
    <3> QED  BY <3>2, <3>3
  <2> QED
    BY <1>0, <2>1, <2>2 DEF UpdateLeaderCache, LeadersSound, OwnerSound, SubQSound
<1>7. CASE \E c \in Conns : ClientRecv(c) \/ ClientDisconnect(c)
  BY <1>0, <1>7 DEF ClientRecv, ClientDisconnect, ScheduleSound, LeadersSound,
                   OwnerSound, SubQSound
<1>8. CASE \/ \E s \in Slots : SlotArrives(s)
           \/ \E b \in InputBatches : BatchArrives(b)
           \/ \E h \in {Healthy, Unhealthy} : HealthChange(h)
  BY <1>0, <1>8 DEF SlotArrives, BatchArrives, HealthChange, ScheduleSound,
                   LeadersSound, OwnerSound, SubQSound
<1>9. CASE UNCHANGED vars
  BY <1>0, <1>9 DEF vars, ScheduleSound, LeadersSound, OwnerSound, SubQSound
<1> QED
  BY <1>1, <1>2, <1>3, <1>4, <1>5, <1>6, <1>7, <1>8, <1>9
  DEF Next, EventLoop, Environment


\* Every step whose packet batches grow a channel is a packet arm step whose
\* recipients include that channel's holder.
LEMMA DeliveredStep ==
  ASSUME IInv, [Next]_vars, NEW c \in Conns, NewBatch(c)
  PROVE  \/ ForwardAll
         \/ \E s \in Window(highestSlot) : ScheduledFor(s, owner[c])
<1> USE DEF IInv
<1>1. CASE PacketArm
  <2> DEFINE msgs == Chunks(Survivors(Head(delayQ)))
  <2>1. PICK S \in SUBSET Recipients : queue' = Deliver(S, msgs)
    BY <1>1 DEF PacketArm
  <2>2. PICK v \in S : subs[v] = c
    <3> SUFFICES ASSUME ~\E v \in S : subs[v] = c PROVE FALSE
      OBVIOUS
    <3>1. queue'[c] = queue[c]
      BY <2>1 DEF Deliver
    <3> QED  BY <3>1 DEF NewBatch
  <2>3. v \in Validators /\ (~ForwardAll => v \in slotLeaders)
    BY <2>1, <2>2, RecipientsType DEF Recipients
  <2>4. owner[c] = v
    BY <2>2, <2>3, ConstAssumption DEF OwnerSound
  <2> QED  BY <2>3, <2>4 DEF LeadersSound
<1>2. CASE HeartbeatArm
  <2>1. CASE health = Healthy
    <3>1. queue'[c] = IF /\ \E v \in Subscribed : subs[v] = c
                        /\ rxOpen[c] /\ Len(queue[c]) < QueueCap
                     THEN Append(queue[c], Heartbeat)
                     ELSE queue[c]
      BY <1>2, <2>1 DEF HeartbeatArm, Healthy, Unhealthy
    <3>2. queue[c] \in Seq(Msg)
      BY DEF TypeOK
    <3> QED  BY <3>1, <3>2 DEF NewBatch, Heartbeat
  <2>2. CASE health # Healthy
    BY <1>2, <2>2 DEF HeartbeatArm, NewBatch
  <2> QED  BY <2>1, <2>2
<1>3. CASE \E d \in Conns : ClientRecv(d) \/ ClientDisconnect(d)
  <2>1. PICK d \in Conns : ClientRecv(d) \/ ClientDisconnect(d)
    BY <1>3
  <2>2. queue[c] \in Seq(Msg)
    BY DEF TypeOK
  <2>3. CASE c = d
    <3>1. CASE ClientRecv(d)
      BY <2>2, <2>3, <3>1 DEF ClientRecv, NewBatch, TypeOK
    <3>2. CASE ClientDisconnect(d)
      BY <2>2, <2>3, <3>2 DEF ClientDisconnect, NewBatch, TypeOK
    <3> QED  BY <2>1, <3>1, <3>2
  <2>4. CASE c # d
    <3>1. queue'[c] = queue[c]
      BY <2>1, <2>4 DEF ClientRecv, ClientDisconnect, TypeOK
    <3> QED  BY <3>1 DEF NewBatch
  <2> QED  BY <2>3, <2>4
<1>4. CASE ~PacketArm /\ ~HeartbeatArm
         /\ ~\E d \in Conns : ClientRecv(d) \/ ClientDisconnect(d)
  <2>1. UNCHANGED queue
    BY <1>4 DEF Next, EventLoop, Environment, vars, SlotArm, SubscriptionArm,
                SubscribePackets, UpdateLeaderCache, SlotArrives, BatchArrives,
                HealthChange
  <2> QED  BY <2>1 DEF NewBatch
<1> QED  BY <1>1, <1>2, <1>3, <1>4

\* A packet batch is only ever put into the stream of a validator that leads
\* a slot of the lookahead window at highest_slot, by that slot's epoch
\* schedule or by the next epoch's at the same slot index (or forward_all is
\* set): the slot arm, the update_leader_cache refresh and the packet arm of
\* run_event_loop, in any order and with the epoch turning between the two
\* RPCs of the refresh, never send further off than one epoch.
THEOREM DeliveredOnlyToScheduledThm == Spec => DeliveredOnlyToScheduled
<1>1. Spec => []IInv
  BY IInvInit, IInvNext, PTL DEF Spec
<1>2. IInv /\ [Next]_vars =>
        [\A c \in Conns :
           NewBatch(c) =>
             \/ ForwardAll
             \/ \E s \in Window(highestSlot) : ScheduledFor(s, owner[c])]_vars
  BY DeliveredStep
<1> QED  BY <1>1, <1>2, PTL DEF Spec, DeliveredOnlyToScheduled

-----------------------------------------------------------------------------
(* What subscribers read has passed the filters of forward_packets.        *)

\* ForwardedPacketsAdmissible says that every channel is well formed.
LEMMA AdmissibleIsQueueOk ==
  ForwardedPacketsAdmissible <=> \A c \in Conns : QueueOk(queue[c])
BY DEF ForwardedPacketsAdmissible, QueueOk, BatchOk

\* The channels start empty.
LEMMA AdmissibleInit ==
  Init => \A c \in Conns : QueueOk(queue[c])
BY DEF Init, QueueOk

\* The packet arm sends chunks of the filtered batch, the heartbeat arm
\* pushes heartbeats, the validator pops from the front or drops the whole
\* channel: every channel stays well formed.
LEMMA AdmissibleNext ==
  ASSUME TypeOK, \A c \in Conns : QueueOk(queue[c]), [Next]_vars
  PROVE  \A c \in Conns : QueueOk(queue'[c])
<1> USE DEF TypeOK
<1>1. CASE PacketArm
  <2> DEFINE msgs == Chunks(Survivors(Head(delayQ)))
  <2>1. Head(delayQ) \in Seq(Packets)
    BY <1>1 DEF PacketArm
  <2>2. AdmSeq(Survivors(Head(delayQ)))
    BY <2>1, SurvivorsAdmissible
  <2>3. msgs \in Seq(Msg) /\ QueueOk(msgs)
    BY <2>2, ChunksAdmissible, ChunksType DEF AdmSeq
  <2>4. PICK S \in SUBSET Recipients : queue' = Deliver(S, msgs)
    BY <1>1 DEF PacketArm
  <2> QED  BY <2>3, <2>4, DeliverOk
<1>2. CASE HeartbeatArm
  <2> SUFFICES ASSUME NEW c \in Conns PROVE QueueOk(queue'[c])
    OBVIOUS
  <2>1. CASE health = Healthy
    <3>1. queue'[c] = IF /\ \E v \in Subscribed : subs[v] = c
                        /\ rxOpen[c] /\ Len(queue[c]) < QueueCap
                     THEN Append(queue[c], Heartbeat)
                     ELSE queue[c]
      BY <1>2, <2>1 DEF HeartbeatArm, Healthy, Unhealthy
    <3>2. ~BatchOk(Heartbeat) => FALSE
      BY DEF BatchOk, Heartbeat
    <3>3. QueueOk(Append(queue[c], Heartbeat))
      BY <3>2 DEF QueueOk
    <3> QED  BY <3>1, <3>3
  <2>2. CASE health # Healthy
    BY <1>2, <2>2 DEF HeartbeatArm
  <2> QED  BY <2>1, <2>2
<1>3. CASE \E d \in Conns : ClientRecv(d) \/ ClientDisconnect(d)
  <2> SUFFICES ASSUME NEW c \in Conns PROVE QueueOk(queue'[c])
    OBVIOUS
  <2>1. PICK d \in Conns : ClientRecv(d) \/ ClientDisconnect(d)
    BY <1>3
  <2>2. CASE c = d /\ ClientRecv(d)
    <3>1. queue'[c] = Tail(queue[c]) /\ queue[c] # << >>
      BY <2>2 DEF ClientRecv
    <3> QED  BY <3>1 DEF QueueOk
  <2>3. CASE c = d /\ ClientDisconnect(d)
    BY <2>3 DEF ClientDisconnect, QueueOk
  <2>4. CASE c # d
    BY <2>1, <2>4 DEF ClientRecv, ClientDisconnect
  <2> QED  BY <2>1, <2>2, <2>3, <2>4
<1>4. CASE ~PacketArm /\ ~HeartbeatArm
         /\ ~\E d \in Conns : ClientRecv(d) \/ ClientDisconnect(d)
  <2>1. UNCHANGED queue
    BY <1>4 DEF Next, EventLoop, Environment, vars, SlotArm, SubscriptionArm,
                SubscribePackets, UpdateLeaderCache, SlotArrives, BatchArrives,
                HealthChange
  <2> QED  BY <2>1
<1> QED  BY <1>1, <1>2, <1>3, <1>4

\* Every batch message a validator can read from its packet stream holds
\* between 1 and validator_packet_batch_size packets, none of them flagged
\* discard and, when the OFAC denylist is on, none undecodable or
\* OFAC-related: forward_packets filters every batch before chunking it, the
\* bounded try_send only ever drops a suffix, and the heartbeats that
\* interleave with the batches carry no packets.
THEOREM ForwardedPacketsAdmissibleThm == Spec => []ForwardedPacketsAdmissible
<1> DEFINE QInv == TypeOK /\ \A c \in Conns : QueueOk(queue[c])
<1>1. Init => QInv
  BY TypeInit, AdmissibleInit
<1>2. QInv /\ [Next]_vars => QInv'
  BY TypeNext, AdmissibleNext
<1>3. QInv => ForwardedPacketsAdmissible
  BY AdmissibleIsQueueOk
<1> QED  BY <1>1, <1>2, <1>3, PTL DEF Spec


=============================================================================
