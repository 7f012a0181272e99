------------------------- MODULE SlotPipelineProofs -------------------------
(***************************************************************************)
(* Proofs about the slot pipeline for every set of servers, every largest *)
(* slot and every channel bound.                                           *)
(***************************************************************************)
EXTENDS SlotPipeline, TLAPS

USE SlotPipelineAssumption DEF Healthy, Unhealthy

\* The subscription threads that have won fetch_max and are about to send.
Sending == {s \in Servers : pc[s] = "send"}

(***************************************************************************)
(* What fetch_max guarantees between the threads: every slot already sent  *)
(* is at most highest_slot; a slot a thread is about to send is at most    *)
(* highest_slot and not yet sent; and no two threads are about to send the *)
(* same slot.  A thread only gets to "send" with a slot strictly above the *)
(* old highest_slot, which is above everything sent or pending.            *)
(***************************************************************************)
PublishedBelowHighest == \A x \in published : x <= highest
PendingFresh ==
  \A s \in Sending : pending[s] <= highest /\ pending[s] \notin published
PendingDistinct ==
  \A s, t \in Sending : s # t => pending[s] # pending[t]

IInv == TypeOK /\ PublishedBelowHighest /\ PendingFresh /\ PendingDistinct

\* The pipeline starts with nothing sent and every thread connecting.
LEMMA IInvInit == Init => IInv
<1> SUFFICES ASSUME Init PROVE IInv
  OBVIOUS
<1>1. TypeOK
  <2>1. /\ pc \in [Servers -> {"connect", "subscribed", "send", "sleep"}]
        /\ pending \in [Servers -> Slots]
        /\ serverToSlot \in [Servers -> Slots]
    BY DEF Init, Slots
  <2>2. lbQ \in Seq(Slots) /\ Len(lbQ) <= LbQCap
        /\ relayQ \in Seq(Slots) /\ Len(relayQ) <= RelayQCap
    BY DEF Init
  <2>3. /\ highest \in Slots /\ hmSlot \in Slots /\ relayerSlot \in Slots
        /\ hmAge \in 0..AgeCap /\ health \in {Healthy, Unhealthy}
        /\ published \subseteq Slots /\ lastPublished \in Slots
    BY DEF Init, Slots
  <2>4. hmBlocked \in BOOLEAN /\ tickDue \in BOOLEAN /\ slotSeen \in BOOLEAN
    BY Zenon DEF Init
  <2>5. QED
    BY <2>1, <2>2, <2>3, <2>4 DEF TypeOK
<1>2. Sending = {}
  BY DEF Init, Sending
<1>3. QED
  BY <1>1, <1>2 DEF Init, IInv, PublishedBelowHighest, PendingFresh,
                    PendingDistinct

\* A slot notification: the thread goes to "send" only with a slot above
\* the old highest_slot, so above everything sent or pending.
LEMMA RecvInv ==
  ASSUME IInv, NEW s \in Servers, NEW v \in (serverToSlot[s] + 1)..MaxSlot,
         Recv(s, v)
  PROVE  IInv'
<1> USE DEF IInv, TypeOK, Slots, lbVars, hmVars
<1>1. CASE v > highest
  <2>1. highest' = v /\ pc' = [pc EXCEPT ![s] = "send"]
                    /\ pending' = [pending EXCEPT ![s] = v]
    BY <1>1 DEF Recv, MaxOf
  <2>2. Sending' = Sending \cup {s}
    BY <2>1 DEF Sending
  <2>3. TypeOK'
    BY <2>1 DEF Recv
  <2>4. PublishedBelowHighest'
    BY <1>1, <2>1 DEF Recv, PublishedBelowHighest
  <2>5. PendingFresh'
    <3> SUFFICES ASSUME NEW t \in Sending'
                 PROVE  pending'[t] <= highest' /\ pending'[t] \notin published'
      BY DEF PendingFresh
    <3>1. CASE t = s
      BY <1>1, <2>1, <3>1 DEF Recv, PublishedBelowHighest
    <3>2. CASE t # s
      <4>1. t \in Sending /\ pending'[t] = pending[t]
        BY <2>1, <2>2, <3>2 DEF Sending
      <4>2. published' = published
        BY DEF Recv
      <4>3. pending[t] <= highest /\ pending[t] \notin published
        BY <4>1 DEF PendingFresh
      <4>4. pending[t] \in Nat /\ highest \in Nat /\ v \in Nat
        BY <4>1 DEF Sending
      <4>5. pending'[t] <= highest'
        BY <1>1, <2>1, <4>1, <4>3, <4>4
      <4>6. QED
        BY <4>1, <4>2, <4>3, <4>5
    <3>3. QED
      BY <3>1, <3>2
  <2>6. PendingDistinct'
    BY <1>1, <2>1, <2>2 DEF PendingDistinct, PendingFresh
  <2>7. QED
    BY <2>3, <2>4, <2>5, <2>6
<1>2. CASE ~(v > highest)
  <2>1. highest' = highest /\ pc' = pc /\ pending' = pending
    BY <1>2 DEF Recv, MaxOf
  <2>2. Sending' = Sending
    BY <2>1 DEF Sending
  <2>3. TypeOK'
    BY <2>1 DEF Recv
  <2>4. QED
    BY <2>1, <2>2, <2>3 DEF Recv, PublishedBelowHighest, PendingFresh,
                            PendingDistinct
<1>3. QED
  BY <1>1, <1>2

\* slot_sender.send: the slot sent was pending, hence not yet sent and
\* different from what every other thread is about to send.
LEMMA SendInv ==
  ASSUME IInv, NEW s \in Servers, Send(s)
  PROVE  IInv'
<1> USE DEF IInv, TypeOK, Slots, lbVars, hmVars
<1>1. Sending' = Sending \ {s}
  BY DEF Send, Sending
<1>2. s \in Sending
  BY DEF Send, Sending
<1>3. TypeOK'
  <2>1. pending[s] \in Slots
    OBVIOUS
  <2>2. lbQ' \in Seq(Slots) /\ Len(lbQ') <= LbQCap
    BY <2>1 DEF Send
  <2>3. pc' \in [Servers -> {"connect", "subscribed", "send", "sleep"}]
    BY DEF Send
  <2>4. published' \subseteq Slots /\ lastPublished' \in Slots
    BY <2>1 DEF Send
  <2>5. QED
    BY <2>2, <2>3, <2>4 DEF Send
<1>4. PublishedBelowHighest'
  BY <1>2 DEF Send, PublishedBelowHighest, PendingFresh
<1>5. PendingFresh'
  BY <1>1, <1>2 DEF Send, PendingFresh, PendingDistinct
<1>6. PendingDistinct'
  BY <1>1 DEF Send, PendingDistinct
<1>7. QED
  BY <1>3, <1>4, <1>5, <1>6

\* Every step of a thread keeps the invariant.
LEMMA IInvNext == IInv /\ [Next]_vars => IInv'
<1> SUFFICES ASSUME IInv, [Next]_vars PROVE IInv'
  OBVIOUS
<1> USE DEF IInv, TypeOK, Slots, lbVars, hmVars
<1>1. ASSUME NEW s \in Servers, Connect(s) PROVE IInv'
  <2>1. Sending' = Sending
    BY <1>1 DEF Connect, Sending
  <2>2. QED
    BY <1>1, <2>1 DEF Connect, PublishedBelowHighest, PendingFresh,
                      PendingDistinct
<1>2. ASSUME NEW s \in Servers, RecvFails(s) PROVE IInv'
  <2>1. Sending' = Sending
    BY <1>2 DEF RecvFails, Sending
  <2>2. QED
    BY <1>2, <2>1 DEF RecvFails, PublishedBelowHighest, PendingFresh,
                      PendingDistinct
<1>3. ASSUME NEW s \in Servers, Wake(s) PROVE IInv'
  <2>1. Sending' = Sending
    BY <1>3 DEF Wake, Sending
  <2>2. QED
    BY <1>3, <2>1 DEF Wake, PublishedBelowHighest, PendingFresh,
                      PendingDistinct
<1>4. ASSUME NEW s \in Servers, Send(s) PROVE IInv'
  BY <1>4, SendInv
<1>5. ASSUME NEW s \in Servers, NEW v \in (serverToSlot[s] + 1)..MaxSlot,
             Recv(s, v)
      PROVE IInv'
  BY <1>5, RecvInv
<1>6. CASE HmRecv
  BY <1>6 DEF HmRecv, Sending, PublishedBelowHighest, PendingFresh,
              PendingDistinct
<1>7. CASE HmForward
  <2>1. relayQ' \in Seq(Slots) /\ Len(relayQ') <= RelayQCap
    <3>1. relayQ' = Append(relayQ, hmSlot) /\ Len(relayQ) < RelayQCap
      BY <1>7 DEF HmForward
    <3>2. QED
      BY <3>1
  <2>2. hmAge' \in 0..AgeCap
    BY <1>7 DEF HmForward
  <2>3. hmBlocked' \in BOOLEAN
    BY <1>7, Zenon DEF HmForward
  <2>4. QED
    BY <1>7, <2>1, <2>2, <2>3 DEF HmForward, Sending, PublishedBelowHighest,
                            PendingFresh, PendingDistinct
<1>8. CASE HmTick
  BY <1>8 DEF HmTick, Sending, PublishedBelowHighest, PendingFresh,
              PendingDistinct
<1>9. CASE Elapse
  BY <1>9 DEF Elapse, MinOf, Sending, PublishedBelowHighest, PendingFresh,
              PendingDistinct
<1>10. CASE RelayerSlotArm
  BY <1>10 DEF RelayerSlotArm, Sending, PublishedBelowHighest, PendingFresh,
               PendingDistinct
<1>11. CASE UNCHANGED vars
  BY <1>11 DEF vars, Sending, PublishedBelowHighest, PendingFresh,
               PendingDistinct
<1>12. QED
  BY <1>1, <1>2, <1>3, <1>4, <1>5, <1>6, <1>7, <1>8, <1>9, <1>10, <1>11
  DEF Next, LoadBalancerThread, HealthManagerThread

-----------------------------------------------------------------------------
(* The action property: a slot put into the channel was not sent before.  *)

\* Only slot_sender.send of a subscription thread lengthens the channel,
\* and the slot it sends is one the invariant calls pending, hence fresh.
LEMMA NoRepeatStep ==
  IInv /\ [Next]_vars =>
    [Len(lbQ') > Len(lbQ) => lbQ'[Len(lbQ')] \notin published]_vars
<1> SUFFICES ASSUME IInv, [Next]_vars, Len(lbQ') > Len(lbQ)
             PROVE  lbQ'[Len(lbQ')] \notin published
  BY DEF vars
<1> USE DEF IInv, TypeOK, Slots
<1>1. ASSUME NEW s \in Servers, Send(s)
      PROVE  lbQ'[Len(lbQ')] \notin published
  <2>1. s \in Sending /\ pending[s] \in Slots
    BY <1>1 DEF Send, Sending
  <2>2. lbQ'[Len(lbQ')] = pending[s]
    BY <1>1, <2>1 DEF Send
  <2>3. QED
    BY <2>1, <2>2 DEF PendingFresh
<1>2. CASE HmRecv
  <2>1. lbQ # << >> /\ lbQ' = Tail(lbQ)
    BY <1>2 DEF HmRecv
  <2>2. Len(lbQ') < Len(lbQ)
    BY <2>1
  <2>3. QED
    BY <2>2
<1>4. ASSUME NEW s \in Servers, LoadBalancerThread(s)
      PROVE  lbQ'[Len(lbQ')] \notin published
  <2>1. CASE Send(s)
    BY <1>1, <2>1
  <2>2. CASE ~Send(s)
    <3>1. UNCHANGED lbQ
      BY <1>4, <2>2 DEF LoadBalancerThread, Connect, RecvFails, Wake, Recv
    <3> QED  BY <3>1
  <2> QED  BY <2>1, <2>2
<1>5. CASE HealthManagerThread
  <2>1. CASE HmRecv
    BY <1>2, <2>1
  <2>2. CASE ~HmRecv
    <3>1. UNCHANGED lbQ
      BY <1>5, <2>2 DEF HealthManagerThread, HmForward, HmTick, Elapse
    <3> QED  BY <3>1
  <2> QED  BY <2>1, <2>2
<1>6. CASE RelayerSlotArm
  <2>1. UNCHANGED lbQ
    BY <1>6 DEF RelayerSlotArm
  <2> QED  BY <2>1
<1>7. CASE UNCHANGED vars
  <2>1. UNCHANGED lbQ
    BY <1>7 DEF vars
  <2> QED  BY <2>1
<1>8. QED
  BY <1>4, <1>5, <1>6, <1>7 DEF Next

(***************************************************************************)
(* Theorems.                                                               *)
(***************************************************************************)

\* Both slot channels of the load balancer and the health manager stay
\* within SLOT_QUEUE_CAPACITY, and every slot, counter and flag of the
\* threads stays in range, for every number of servers and every bound.
THEOREM SlotTypeCorrect == Spec => []TypeOK
<1>1. IInv => TypeOK
  BY DEF IInv
<1>2. QED
  BY <1>1, IInvInit, IInvNext, PTL DEF Spec

\* However many subscription threads report the same slot, and in whatever
\* order their fetch_max and slot_sender.send interleave, the load balancer
\* never puts a slot into the channel that it has sent before.
THEOREM NoSlotPublishedTwiceThm == Spec => NoSlotPublishedTwice
<1>1. Spec => []IInv
  BY IInvInit, IInvNext, PTL DEF Spec
<1>2. QED
  BY <1>1, NoRepeatStep, PTL DEF Spec, NoSlotPublishedTwice

=============================================================================
