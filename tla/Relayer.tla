------------------------------ MODULE Relayer ------------------------------
(***************************************************************************)
(* The relayer fan-out engine of src/relayer/src/relayer.rs: the single    *)
(* event-loop thread (RelayerImpl::run_event_loop) with its slot, packet,  *)
(* subscription and heartbeat arms, the SubscribePackets RPC that feeds    *)
(* the subscription channel, and the leader-schedule cache refresh of      *)
(* src/relayer/src/schedule_cache.rs that the slot arm reads.              *)
(*                                                                         *)
(* Every subscriber stream is a bounded tokio channel, named by a model    *)
(* value of Conns.  The relayer holds its sender in the map `subs`; the    *)
(* validator holds its receiver and may consume from it or drop it at any *)
(* time.  The health flag, the slot stream and the delayed packet batches  *)
(* are inputs produced by other threads (HealthManager, LoadBalancer and   *)
(* the forwarder); here they are produced by environment actions.          *)
(***************************************************************************)
EXTENDS Naturals, Sequences, FiniteSets

CONSTANTS
  Validators,     \* validator identities (Pubkey)
  Conns,          \* subscriber channels, each created by one SubscribePackets call
  NoConn,         \* "no sender in the map for this pubkey"
  NoVal,          \* "no validator": unused channel, or slot absent from the schedule
  Packets,        \* packet payloads
  Discard,        \* packets whose meta().discard() flag is set
  Undecodable,    \* packets that fail deserialize_slice into a VersionedTransaction
  OfacRelated,    \* packets whose transaction is_tx_ofac_related
  OfacEnabled,    \* ofac_addresses is non-empty
  InputBatches,   \* packet batches the forwarder may hand to the relayer
  BatchSize,      \* validator_packet_batch_size
  QueueCap,       \* SUBSCRIBER_QUEUE_CAPACITY
  ForwardAll,     \* forward_all
  Lookahead,      \* slot_lookahead
  MaxSlot,        \* largest slot the slot stream carries
  SlotsPerEpoch,  \* slots per epoch of the leader schedule
  TrueLeader,     \* the cluster's leader schedule: slot -> leader
  SlotQCap,       \* bound of the slot channel (SLOT_QUEUE_CAPACITY)
  SubQCap,        \* bound of the subscription channel (SLOT_QUEUE_CAPACITY)
  DelayQCap       \* bound of the delayed-packet channel (TPU_QUEUE_CAPACITY)

Slots == 0..MaxSlot
\* Every slot a lookahead window starting in Slots can name.
SchedSlots == 0..(MaxSlot + Lookahead)
\* The epochs the cluster can be in: those of the slots it reaches.
Epochs == {s \div SlotsPerEpoch : s \in Slots}

ASSUME ConstAssumption ==
  /\ NoConn \notin Conns
  /\ NoVal \notin Validators
  /\ Discard \subseteq Packets /\ Undecodable \subseteq Packets
  /\ OfacRelated \subseteq Packets
  /\ OfacEnabled \in BOOLEAN /\ ForwardAll \in BOOLEAN
  /\ InputBatches \subseteq Seq(Packets)
  /\ BatchSize \in Nat \ {0}
  /\ QueueCap \in Nat \ {0}
  /\ Lookahead \in Nat
  /\ MaxSlot \in Nat
  /\ SlotsPerEpoch \in Nat \ {0}
  /\ TrueLeader \in [SchedSlots -> Validators]
  /\ SlotQCap \in Nat /\ SubQCap \in Nat /\ DelayQCap \in Nat

Healthy == "Healthy"
Unhealthy == "Unhealthy"

\* A message of a SubscribePacketsResponse stream: a packet batch or a heartbeat.
Msg == [kind : {"batch", "heartbeat"}, pkts : Seq(Packets)]
Heartbeat == [kind |-> "heartbeat", pkts |-> << >>]
\* An entry of the subscription channel (Subscription::ValidatorPacketSubscription).
Subscription == [pubkey : Validators, conn : Conns]

VARIABLES
  subs,          \* packet_subscriptions: pubkey -> sender, or NoConn
  queue,         \* conn -> messages buffered in that bounded channel
  rxOpen,        \* conn -> the validator still holds the receiving stream
  owner,         \* conn -> the pubkey that subscribed with it (NoVal: unused)
  subQ,          \* the subscription channel
  slotQ,         \* the slot channel from the health manager
  delayQ,        \* the delayed packet channel from the forwarder
  highestSlot,   \* highest_slot of the event loop
  slotLeaders,   \* slot_leaders of the event loop
  schedule,      \* the leader-schedule cache: slot -> pubkey, or NoVal
  health,        \* the shared HealthState
  massDropped    \* history: the last heartbeat tick found the relayer unhealthy
                 \* and health has not come back since

vars == <<subs, queue, rxOpen, owner, subQ, slotQ, delayQ, highestSlot,
          slotLeaders, schedule, health, massDropped>>

-----------------------------------------------------------------------------
(* Helpers of forward_packets and of the schedule cache.                   *)

MinOf(a, b) == IF a < b THEN a ELSE b

\* The packets of a batch that survive the discard flag, decoding and the
\* OFAC filter.
Admissible(p) ==
  /\ p \notin Discard
  /\ OfacEnabled => p \notin Undecodable /\ p \notin OfacRelated

\* Mutant: the discard flag is not filtered.
SurvivorsNoDiscard(b) ==
  SelectSeq(b, LAMBDA p : OfacEnabled => p \notin Undecodable /\ p \notin OfacRelated)

\* .iter().filter(..).filter_map(..).collect(): the batch is walked in
\* order and every admissible packet is pushed onto the collected vector;
\* kept[i] is the vector after the first i packets.
Survivors(b) ==
  LET kept[i \in 0..Len(b)] ==
        IF i = 0 THEN << >>
        ELSE IF Admissible(b[i]) THEN Append(kept[i - 1], b[i]) ELSE kept[i - 1]
  IN  kept[Len(b)]

\* packets.chunks(validator_packet_batch_size), each wrapped as a batch message.
NumChunks(s) == (Len(s) + BatchSize - 1) \div BatchSize
Chunks(s) ==
  [i \in 1..NumChunks(s) |->
     [kind |-> "batch",
      pkts |-> SubSeq(s, (i - 1) * BatchSize + 1, MinOf(i * BatchSize, Len(s)))]]

\* The first n elements of s.
Take(s, n) == SubSeq(s, 1, MinOf(n, Len(s)))

\* Mutant: a blocking send that ignores the channel bound.
DeliverNoCap(S, msgs) ==
  [c \in Conns |-> IF \E v \in S : subs[v] = c THEN queue[c] \o msgs ELSE queue[c]]

\* try_send of every message of msgs in turn into the channel of every pubkey
\* of S: each goes in while there is room and is dropped (Full) after.
Deliver(S, msgs) ==
  [c \in Conns |->
     IF \E v \in S : subs[v] = c
     THEN queue[c] \o Take(msgs, QueueCap - Len(queue[c]))
     ELSE queue[c]]

\* leaders_for_slots over highest_slot..highest_slot + slot_lookahead.
Window(s) == s..(s + Lookahead - 1)
LeadersForSlots(sched, slots) == {sched[s] : s \in slots} \ {NoVal}

\* The new_schedule map update_leader_cache builds: epoch_offset is the
\* first slot of epoch e (get_epoch_info, absolute_slot - slot_index), and
\* every relative slot r of the schedule get_leader_schedule(None) returns
\* for epoch f is inserted at r + epoch_offset.
EpochSchedule(e, f) ==
  [s \in SchedSlots |->
     LET r == s - e * SlotsPerEpoch IN
     IF /\ s \div SlotsPerEpoch = e
        /\ f * SlotsPerEpoch + r \in SchedSlots
     THEN TrueLeader[f * SlotsPerEpoch + r] ELSE NoVal]

Subscribed == {v \in Validators : subs[v] # NoConn}

\* The senders forward_packets iterates over.
Recipients == IF ForwardAll THEN Subscribed ELSE slotLeaders \cap Subscribed

-----------------------------------------------------------------------------
Init ==
  /\ subs = [v \in Validators |-> NoConn]
  /\ queue = [c \in Conns |-> << >>]
  /\ rxOpen = [c \in Conns |-> FALSE]
  /\ owner = [c \in Conns |-> NoVal]
  /\ subQ = << >>
  /\ slotQ = << >>
  /\ delayQ = << >>
  /\ highestSlot = 0
  /\ slotLeaders = {}
  /\ schedule = [s \in SchedSlots |-> NoVal]
  /\ health = Unhealthy
  /\ massDropped = FALSE

-----------------------------------------------------------------------------
(* The event loop: one action per select! arm.                            *)

\* Slot arm: highest_slot takes the received slot, and slot_leaders the
\* cached leaders of the lookahead window starting there.
SlotArm ==
  /\ slotQ # << >>
  /\ highestSlot' = Head(slotQ)
  /\ slotLeaders' = LeadersForSlots(schedule, Window(Head(slotQ)))
  /\ slotQ' = Tail(slotQ)
  /\ UNCHANGED <<subs, queue, rxOpen, owner, subQ, delayQ, schedule, health,
                 massDropped>>

\* Packet arm: forward_packets then drop_connections.  The recipients are
\* visited in the iteration order of a HashMap/HashSet, the same for every
\* chunk.  A Closed send records the pubkey and breaks out of the loop over
\* recipients, so for each chunk only the recipients visited before the first
\* closed one get it; that first closed one is removed from the map.  The
\* outcome over all orders is: no closed recipient, and everyone is served;
\* or a first closed one `fc` and an arbitrary set `before` of open ones.
PacketArm ==
  /\ delayQ # << >>
  /\ LET msgs   == Chunks(Survivors(Head(delayQ)))
         closed == {v \in Recipients : ~rxOpen[subs[v]]}
     IN  \/ /\ msgs = << >> \/ closed = {}
            /\ queue' = Deliver(Recipients, msgs)
            /\ UNCHANGED subs
         \/ /\ msgs # << >>
            /\ \E fc \in closed, before \in SUBSET (Recipients \ closed) :
                 /\ queue' = Deliver(before, msgs)
                 /\ subs' = [subs EXCEPT ![fc] = NoConn]
  /\ delayQ' = Tail(delayQ)
  /\ UNCHANGED <<rxOpen, owner, subQ, slotQ, highestSlot, slotLeaders,
                 schedule, health, massDropped>>

\* Subscription arm: insert the sender, replacing (and dropping) a previous
\* sender of the same pubkey.
SubscriptionArm ==
  /\ subQ # << >>
  /\ subs' = [subs EXCEPT ![Head(subQ).pubkey] = Head(subQ).conn]
  /\ subQ' = Tail(subQ)
  /\ UNCHANGED <<queue, rxOpen, owner, slotQ, delayQ, highestSlot,
                 slotLeaders, schedule, health, massDropped>>

\* Mutant: a Closed heartbeat send is ignored like a Full one.
HeartbeatArmKeepsClosed ==
  /\ \/ /\ health = Healthy
        /\ queue' = [c \in Conns |->
                       IF /\ \E v \in Subscribed : subs[v] = c
                          /\ rxOpen[c] /\ Len(queue[c]) < QueueCap
                       THEN Append(queue[c], Heartbeat)
                       ELSE queue[c]]
        /\ UNCHANGED <<subs, massDropped>>
     \/ /\ health = Unhealthy
        /\ subs' = [v \in Validators |-> NoConn]
        /\ massDropped' = TRUE
        /\ UNCHANGED queue
  /\ UNCHANGED <<rxOpen, owner, subQ, slotQ, delayQ, highestSlot, slotLeaders,
                 schedule, health>>

\* Heartbeat arm: when healthy, try_send a heartbeat to every subscriber and
\* drop those whose receiver is closed; when unhealthy, drop everyone.
HeartbeatArm ==
  /\ \/ /\ health = Healthy
        /\ queue' = [c \in Conns |->
                       IF /\ \E v \in Subscribed : subs[v] = c
                          /\ rxOpen[c] /\ Len(queue[c]) < QueueCap
                       THEN Append(queue[c], Heartbeat)
                       ELSE queue[c]]
        /\ subs' = [v \in Validators |->
                      IF v \in Subscribed /\ ~rxOpen[subs[v]]
                      THEN NoConn ELSE subs[v]]
        /\ UNCHANGED massDropped
     \/ /\ health = Unhealthy
        /\ subs' = [v \in Validators |-> NoConn]
        /\ massDropped' = TRUE
        /\ UNCHANGED queue
  /\ UNCHANGED <<rxOpen, owner, subQ, slotQ, delayQ, highestSlot, slotLeaders,
                 schedule, health>>

-----------------------------------------------------------------------------
(* The SubscribePackets RPC, the schedule refresher and the environment.  *)

\* subscribe_packets: reject unless healthy, create a fresh bounded channel
\* and send the subscription to the event loop (a blocking send).
SubscribePackets(v) ==
  /\ health = Healthy
  /\ Len(subQ) < SubQCap
  /\ \E c \in Conns :
       /\ owner[c] = NoVal
       /\ owner' = [owner EXCEPT ![c] = v]
       /\ rxOpen' = [rxOpen EXCEPT ![c] = TRUE]
       /\ subQ' = Append(subQ, [pubkey |-> v, conn |-> c])
  /\ UNCHANGED <<subs, queue, slotQ, delayQ, highestSlot, slotLeaders,
                 schedule, health, massDropped>>

\* update_leader_cache: get_epoch_info and then get_leader_schedule(None),
\* two RPCs to a node at Processed commitment.  The node is in epoch e at
\* the first and in e or, if the epoch turned in between, e + 1 at the
\* second; the whole cache is replaced by the map built from the two
\* answers.  (A failed RPC leaves it alone: a stutter.)
UpdateLeaderCache(e, f) ==
  /\ schedule' = EpochSchedule(e, f)
  /\ UNCHANGED <<subs, queue, rxOpen, owner, subQ, slotQ, delayQ, highestSlot,
                 slotLeaders, health, massDropped>>

\* The validator reads the next message of its stream.
ClientRecv(c) ==
  /\ rxOpen[c] /\ queue[c] # << >>
  /\ queue' = [queue EXCEPT ![c] = Tail(@)]
  /\ UNCHANGED <<subs, rxOpen, owner, subQ, slotQ, delayQ, highestSlot,
                 slotLeaders, schedule, health, massDropped>>

\* The validator drops its stream: the channel closes and its buffer is freed.
ClientDisconnect(c) ==
  /\ rxOpen[c]
  /\ rxOpen' = [rxOpen EXCEPT ![c] = FALSE]
  /\ queue' = [queue EXCEPT ![c] = << >>]
  /\ UNCHANGED <<subs, owner, subQ, slotQ, delayQ, highestSlot, slotLeaders,
                 schedule, health, massDropped>>

\* The health manager republishes a slot.
SlotArrives(s) ==
  /\ Len(slotQ) < SlotQCap
  /\ slotQ' = Append(slotQ, s)
  /\ UNCHANGED <<subs, queue, rxOpen, owner, subQ, delayQ, highestSlot,
                 slotLeaders, schedule, health, massDropped>>

\* The forwarder hands over a batch.
BatchArrives(b) ==
  /\ Len(delayQ) < DelayQCap
  /\ delayQ' = Append(delayQ, b)
  /\ UNCHANGED <<subs, queue, rxOpen, owner, subQ, slotQ, highestSlot,
                 slotLeaders, schedule, health, massDropped>>

\* The health manager's tick writes a new health state.
HealthChange(h) ==
  /\ health' = h
  /\ massDropped' = (massDropped /\ h = Unhealthy)
  /\ UNCHANGED <<subs, queue, rxOpen, owner, subQ, slotQ, delayQ, highestSlot,
                 slotLeaders, schedule>>

-----------------------------------------------------------------------------
EventLoop == SlotArm \/ PacketArm \/ SubscriptionArm \/ HeartbeatArm

Environment ==
  \/ \E v \in Validators : SubscribePackets(v)
  \/ \E e \in Epochs : \E f \in {e, e + 1} : UpdateLeaderCache(e, f)
  \/ \E c \in Conns : ClientRecv(c) \/ ClientDisconnect(c)
  \/ \E s \in Slots : SlotArrives(s)
  \/ \E b \in InputBatches : BatchArrives(b)
  \/ \E h \in {Healthy, Unhealthy} : HealthChange(h)

Next == EventLoop \/ Environment

\* crossbeam select! picks uniformly among ready arms, and the heartbeat tick
\* is always ready every 500 ms: every arm that stays enabled is taken.
Fairness ==
  /\ WF_vars(SlotArm) /\ WF_vars(PacketArm)
  /\ WF_vars(SubscriptionArm) /\ WF_vars(HeartbeatArm)

Spec == Init /\ [][Next]_vars
FairSpec == Spec /\ Fairness

-----------------------------------------------------------------------------
(* Properties.                                                             *)

TypeOK ==
  /\ subs \in [Validators -> Conns \cup {NoConn}]
  /\ queue \in [Conns -> Seq(Msg)]
  /\ \A c \in Conns : Len(queue[c]) <= QueueCap
  /\ rxOpen \in [Conns -> BOOLEAN]
  /\ owner \in [Conns -> Validators \cup {NoVal}]
  /\ subQ \in Seq(Subscription)
  /\ slotQ \in Seq(Slots)
  /\ delayQ \in Seq(InputBatches)
  /\ highestSlot \in Slots
  /\ slotLeaders \subseteq Validators
  /\ schedule \in [SchedSlots -> Validators \cup {NoVal}]
  /\ health \in {Healthy, Unhealthy}
  /\ massDropped \in BOOLEAN

\* Every batch message any subscriber can read holds between 1 and BatchSize
\* packets, none of them discarded and, with a denylist, each one decodable
\* and not OFAC-related (forward_packets' filter and chunking).
ForwardedPacketsAdmissible ==
  \A c \in Conns : \A i \in 1..Len(queue[c]) :
    queue[c][i].kind = "batch" =>
      /\ Len(queue[c][i].pkts) \in 1..BatchSize
      /\ \A j \in 1..Len(queue[c][i].pkts) : Admissible(queue[c][i].pkts[j])

NewBatch(c) ==
  /\ Len(queue'[c]) > Len(queue[c])
  /\ queue'[c][Len(queue'[c])].kind = "batch"

\* Spec 7 (line 198): a packet batch is only ever put into the stream of a
\* validator that, by the cluster's real leader schedule, leads one of the
\* slots highest_slot .. highest_slot + slot_lookahead - 1 (unless
\* forward_all).  update_leader_cache breaks it: when the epoch turns
\* between get_epoch_info and get_leader_schedule(None), the next epoch's
\* leaders are cached at this epoch's slots (see README).
DeliveredOnlyToLeaders ==
  [][\A c \in Conns :
       NewBatch(c) =>
         \/ ForwardAll
         \/ \E s \in Window(highestSlot) : TrueLeader[s] = owner[c]]_vars

\* v leads slot s by the schedule of s's epoch, or leads the slot with the
\* same index in the next epoch.
ScheduledFor(s, v) ==
  \/ TrueLeader[s] = v
  \/ s + SlotsPerEpoch \in SchedSlots /\ TrueLeader[s + SlotsPerEpoch] = v

\* What the slot arm, the schedule refresh and the packet arm do guarantee
\* together, whatever order they run in: a batch goes only to a validator
\* that leads a slot of the window at highest_slot, in this epoch's or, at
\* the same slot index, in the next epoch's schedule.
DeliveredOnlyToScheduled ==
  [][\A c \in Conns :
       NewBatch(c) =>
         \/ ForwardAll
         \/ \E s \in Window(highestSlot) : ScheduledFor(s, owner[c])]_vars

\* A subscriber whose stream the validator has dropped does not stay in the
\* subscription map: the heartbeat arm eventually removes it.
Held(c) == owner[c] # NoVal /\ subs[owner[c]] = c
ClosedEventuallyRemoved ==
  \A c \in Conns : (Held(c) /\ ~rxOpen[c]) ~> ~Held(c)

\* When a batch with surviving packets is dispatched, every recipient whose
\* stream is open and has room receives its first chunk: a closed or full
\* subscriber never costs another subscriber its packets (spec 4.I, 9).
OpenRecipientsServed ==
  [][(delayQ # << >> /\ delayQ' = Tail(delayQ)
      /\ Chunks(Survivors(Head(delayQ))) # << >>) =>
       \A v \in Recipients :
         (rxOpen[subs[v]] /\ Len(queue[subs[v]]) < QueueCap)
           => Len(queue'[subs[v]]) > Len(queue[subs[v]])]_vars

\* Once a heartbeat tick has found the relayer unhealthy and dropped every
\* subscriber, nobody is subscribed again until health comes back (spec 8:
\* "subsequent Subscribe calls fail until health returns").
NoSubscriberAfterMassDrop ==
  massDropped => Subscribed = {}

=============================================================================
