---------------------------- MODULE SlotPipeline ----------------------------
(***************************************************************************)
(* The slot pipeline: the per-server subscription threads of the          *)
(* LoadBalancer (src/rpc/src/load_balancer.rs), the HealthManager thread   *)
(* (src/relayer/src/health_manager.rs) that republishes their slots and    *)
(* keeps the health flag, and the slot arm of the relayer event loop       *)
(* (update_highest_slot in src/relayer/src/relayer.rs) at the end of it.   *)
(* They are wired in src/transaction-relayer/src/main.rs:647-748 through  *)
(* two bounded crossbeam channels of SLOT_QUEUE_CAPACITY.                  *)
(*                                                                         *)
(* Slot events of each RPC server, connection failures and the passing of  *)
(* time are inputs.  Time is counted in half-periods of the health check   *)
(* (missing_slot_unhealthy_threshold / 2).                                 *)
(***************************************************************************)
EXTENDS Naturals, Sequences

CONSTANTS
  Servers,     \* the (rpc url, websocket url) pairs
  MaxSlot,     \* largest slot a server reports
  LbQCap,      \* bound of the LoadBalancer -> HealthManager channel
  RelayQCap,   \* bound of the HealthManager -> relayer channel
  AgeCap       \* half-periods after which last_update is counted as "long ago"

ASSUME SlotPipelineAssumption ==
  /\ MaxSlot \in Nat /\ LbQCap \in Nat \ {0} /\ RelayQCap \in Nat \ {0}
  /\ AgeCap \in Nat /\ AgeCap >= 3

Slots == 0..MaxSlot
Healthy == "Healthy"
Unhealthy == "Unhealthy"

VARIABLES
  pc,            \* server -> where its subscription thread is
  pending,       \* server -> the new highest slot it is about to send
  serverToSlot,  \* server_to_slot
  highest,       \* the shared AtomicU64 highest_slot of the threads
  lbQ,           \* slot channel LoadBalancer -> HealthManager
  hmBlocked,     \* the HealthManager is blocked in slot_sender.send
  hmSlot,        \* the slot it is sending
  hmAge,         \* half-periods since last_update, capped at AgeCap
  tickDue,       \* a check_and_metrics_tick message is waiting
  health,        \* the shared HealthState
  relayQ,        \* slot channel HealthManager -> relayer
  relayerSlot,   \* highest_slot of the relayer event loop
  published,     \* history: slots the LoadBalancer has sent
  lastPublished, \* history: the last slot it sent
  slotSeen       \* history: the HealthManager has received a slot

vars == <<pc, pending, serverToSlot, highest, lbQ, hmBlocked, hmSlot, hmAge,
          tickDue, health, relayQ, relayerSlot, published, lastPublished,
          slotSeen>>
lbVars == <<pc, pending, serverToSlot, highest>>
hmVars == <<hmBlocked, hmSlot, hmAge, tickDue, health>>

MaxOf(a, b) == IF a < b THEN b ELSE a
MinOf(a, b) == IF a < b THEN a ELSE b

Init ==
  /\ pc = [s \in Servers |-> "connect"]
  /\ pending = [s \in Servers |-> 0]
  /\ serverToSlot = [s \in Servers |-> 0]
  /\ highest = 0
  /\ lbQ = << >>
  /\ hmBlocked = FALSE
  /\ hmSlot = 0
  /\ hmAge = 0            \* last_update = Instant::now() when the thread starts
  /\ tickDue = FALSE
  /\ health = Unhealthy
  /\ relayQ = << >>
  /\ relayerSlot = 0
  /\ published = {}
  /\ lastPublished = 0
  /\ slotSeen = FALSE

-----------------------------------------------------------------------------
(* A LoadBalancer subscription thread.                                     *)

\* PubsubClient::slot_subscribe succeeds, or fails and the thread sleeps.
Connect(s) ==
  /\ pc[s] = "connect"
  /\ \E ok \in BOOLEAN : pc' = [pc EXCEPT ![s] = IF ok THEN "subscribed" ELSE "sleep"]
  /\ UNCHANGED <<pending, serverToSlot, highest, lbQ, hmVars, relayQ,
                 relayerSlot, published, lastPublished, slotSeen>>

\* Mutant: a slot equal to the old maximum also counts as new.
RecvNotStrict(s, v) ==
  /\ pc[s] = "subscribed"
  /\ serverToSlot' = [serverToSlot EXCEPT ![s] = v]
  /\ highest' = MaxOf(highest, v)
  /\ IF v >= highest
       THEN /\ pc' = [pc EXCEPT ![s] = "send"]
            /\ pending' = [pending EXCEPT ![s] = v]
       ELSE UNCHANGED <<pc, pending>>
  /\ UNCHANGED <<lbQ, hmVars, relayQ, relayerSlot, published, lastPublished,
                 slotSeen>>

\* Mutant: the comparison is made against the value after fetch_max.
RecvAfterMax(s, v) ==
  /\ pc[s] = "subscribed"
  /\ serverToSlot' = [serverToSlot EXCEPT ![s] = v]
  /\ highest' = MaxOf(highest, v)
  /\ IF v > MaxOf(highest, v)
       THEN /\ pc' = [pc EXCEPT ![s] = "send"]
            /\ pending' = [pending EXCEPT ![s] = v]
       ELSE UNCHANGED <<pc, pending>>
  /\ UNCHANGED <<lbQ, hmVars, relayQ, relayerSlot, published, lastPublished,
                 slotSeen>>

\* A slot notification v: record it in server_to_slot, then fetch_max on
\* highest_slot; a slot above the old maximum is to be sent downstream.
Recv(s, v) ==
  /\ pc[s] = "subscribed"
  /\ serverToSlot' = [serverToSlot EXCEPT ![s] = v]
  /\ highest' = MaxOf(highest, v)
  /\ IF v > highest
       THEN /\ pc' = [pc EXCEPT ![s] = "send"]
            /\ pending' = [pending EXCEPT ![s] = v]
       ELSE UNCHANGED <<pc, pending>>
  /\ UNCHANGED <<lbQ, hmVars, relayQ, relayerSlot, published, lastPublished,
                 slotSeen>>

\* Mutant: the send does not wait for room in the channel.
SendNoBound(s) ==
  /\ pc[s] = "send"
  /\ lbQ' = Append(lbQ, pending[s])
  /\ pc' = [pc EXCEPT ![s] = "subscribed"]
  /\ published' = published \cup {pending[s]}
  /\ lastPublished' = pending[s]
  /\ UNCHANGED <<pending, serverToSlot, highest, hmVars, relayQ, relayerSlot,
                 slotSeen>>

\* slot_sender.send: blocks while the channel is full.
Send(s) ==
  /\ pc[s] = "send"
  /\ Len(lbQ) < LbQCap
  /\ lbQ' = Append(lbQ, pending[s])
  /\ pc' = [pc EXCEPT ![s] = "subscribed"]
  /\ published' = published \cup {pending[s]}
  /\ lastPublished' = pending[s]
  /\ UNCHANGED <<pending, serverToSlot, highest, hmVars, relayQ, relayerSlot,
                 slotSeen>>

\* recv_timeout reports a disconnect, or 30 s without a slot: leave the
\* message loop and sleep before reconnecting.
RecvFails(s) ==
  /\ pc[s] = "subscribed"
  /\ pc' = [pc EXCEPT ![s] = "sleep"]
  /\ UNCHANGED <<pending, serverToSlot, highest, lbQ, hmVars, relayQ,
                 relayerSlot, published, lastPublished, slotSeen>>

\* sleep(1 s), then reconnect.
Wake(s) ==
  /\ pc[s] = "sleep"
  /\ pc' = [pc EXCEPT ![s] = "connect"]
  /\ UNCHANGED <<pending, serverToSlot, highest, lbQ, hmVars, relayQ,
                 relayerSlot, published, lastPublished, slotSeen>>

-----------------------------------------------------------------------------
(* The HealthManager thread and the relayer's slot arm.                    *)

\* recv(slot_receiver) arm: take a slot; the forwarding send may block.
HmRecv ==
  /\ ~hmBlocked /\ lbQ # << >>
  /\ hmBlocked' = TRUE
  /\ hmSlot' = Head(lbQ)
  /\ lbQ' = Tail(lbQ)
  /\ slotSeen' = TRUE
  /\ UNCHANGED <<lbVars, hmAge, tickDue, health, relayQ, relayerSlot,
                 published, lastPublished>>

\* slot_sender.send(slot) returns; last_update = Instant::now().
HmForward ==
  /\ hmBlocked /\ Len(relayQ) < RelayQCap
  /\ relayQ' = Append(relayQ, hmSlot)
  /\ hmBlocked' = FALSE
  /\ hmAge' = 0
  /\ UNCHANGED <<lbVars, lbQ, hmSlot, tickDue, health, relayerSlot,
                 published, lastPublished, slotSeen>>

\* Mutant: the threshold comparison never fails.
HmTickNoThreshold ==
  /\ tickDue /\ ~hmBlocked
  /\ health' = Healthy
  /\ tickDue' = FALSE
  /\ UNCHANGED <<lbVars, lbQ, hmBlocked, hmSlot, hmAge, relayQ, relayerSlot,
                 published, lastPublished, slotSeen>>

\* recv(check_and_metrics_tick) arm: Healthy iff last_update.elapsed() <=
\* missing_slot_unhealthy_threshold, i.e. at most two half-periods ago.
HmTick ==
  /\ tickDue /\ ~hmBlocked
  /\ health' = IF hmAge <= 2 THEN Healthy ELSE Unhealthy
  /\ tickDue' = FALSE
  /\ UNCHANGED <<lbVars, lbQ, hmBlocked, hmSlot, hmAge, relayQ, relayerSlot,
                 published, lastPublished, slotSeen>>

\* Half a threshold passes: the tick fires (a pending tick is not doubled).
Elapse ==
  /\ hmAge' = MinOf(hmAge + 1, AgeCap)
  /\ tickDue' = TRUE
  /\ UNCHANGED <<lbVars, lbQ, hmBlocked, hmSlot, health, relayQ, relayerSlot,
                 published, lastPublished, slotSeen>>

\* The relayer's slot arm: update_highest_slot assigns the received slot.
RelayerSlotArm ==
  /\ relayQ # << >>
  /\ relayerSlot' = Head(relayQ)
  /\ relayQ' = Tail(relayQ)
  /\ UNCHANGED <<lbVars, lbQ, hmVars, published, lastPublished, slotSeen>>

-----------------------------------------------------------------------------
LoadBalancerThread(s) ==
  \/ Connect(s) \/ Send(s) \/ RecvFails(s) \/ Wake(s)
  \/ \E v \in (serverToSlot[s] + 1)..MaxSlot : Recv(s, v)

\* The select! loop of the health_manager thread (the channel-metrics arm
\* changes nothing modelled).
HealthManagerThread == HmRecv \/ HmForward \/ HmTick \/ Elapse

Next ==
  \/ \E s \in Servers : LoadBalancerThread(s)
  \/ HealthManagerThread
  \/ RelayerSlotArm

\* Every thread is an OS thread that keeps running; time keeps passing.
\* Slot notifications and connection failures are not forced.
Fairness ==
  /\ \A s \in Servers : WF_vars(Connect(s)) /\ WF_vars(Send(s)) /\ WF_vars(Wake(s))
  /\ WF_vars(HmRecv) /\ WF_vars(HmForward) /\ WF_vars(HmTick)
  /\ WF_vars(Elapse) /\ WF_vars(RelayerSlotArm)

Spec == Init /\ [][Next]_vars
FairSpec == Spec /\ Fairness

-----------------------------------------------------------------------------
(* Properties.                                                             *)

TypeOK ==
  /\ pc \in [Servers -> {"connect", "subscribed", "send", "sleep"}]
  /\ pending \in [Servers -> Slots]
  /\ serverToSlot \in [Servers -> Slots]
  /\ highest \in Slots
  /\ lbQ \in Seq(Slots) /\ Len(lbQ) <= LbQCap
  /\ hmBlocked \in BOOLEAN /\ hmSlot \in Slots
  /\ hmAge \in 0..AgeCap /\ tickDue \in BOOLEAN
  /\ health \in {Healthy, Unhealthy}
  /\ relayQ \in Seq(Slots) /\ Len(relayQ) <= RelayQCap
  /\ relayerSlot \in Slots
  /\ published \subseteq Slots /\ lastPublished \in Slots
  /\ slotSeen \in BOOLEAN

\* The LoadBalancer never publishes the same slot twice, although several
\* subscription threads may report it: only the thread whose fetch_max
\* raised highest_slot to it sends it.
NoSlotPublishedTwice ==
  [][Len(lbQ') > Len(lbQ) => lbQ'[Len(lbQ')] \notin published]_vars

\* Every slot that becomes the maximum over all servers is eventually sent
\* downstream: nothing is lost between fetch_max and slot_sender.send.
NewMaxEventuallyPublished ==
  \A v \in 1..MaxSlot : (highest = v) ~> (v \in published)

\* When the last slot was forwarded long ago, the health check eventually
\* reports Unhealthy, or a new slot arrives: a stall of the slot stream
\* surfaces as a health regression.
StaleEventuallyUnhealthy ==
  (hmAge = AgeCap) ~> (health = Unhealthy \/ hmAge < AgeCap)

\* The published slot stream is strictly increasing (spec 4.A: "no
\* duplicates, no regressions").
PublishedIncreasing ==
  [][Len(lbQ') > Len(lbQ) => lbQ'[Len(lbQ')] > lastPublished]_vars

\* The HealthManager starts Unhealthy "until we receive slot updates"
\* (health_manager.rs:86): it is never Healthy before a slot arrived.
HealthyOnlyAfterSlot ==
  health = Healthy => slotSeen

=============================================================================
