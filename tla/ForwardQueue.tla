---------------------------- MODULE ForwardQueue ----------------------------
(***************************************************************************)
(* What the fetch stage's forwarder promises the rest of the TPU, without  *)
(* its threads and channels: every batch the QUIC forwards server hands    *)
(* over is delivered to the tpu channel (for sigverify) once, marked       *)
(* forwarded, and in the order it was handed over.  `pending` holds the    *)
(* ids accepted and not yet delivered, oldest first; `delivered` the ids   *)
(* delivered so far.                                                       *)
(***************************************************************************)
EXTENDS Sequences

CONSTANT Items   \* batch identities

VARIABLES pending, delivered

avars == <<pending, delivered>>

Init == pending = << >> /\ delivered = << >>

\* A batch enters the stage.
Accept(i) ==
  /\ pending' = Append(pending, i)
  /\ UNCHANGED delivered

\* The oldest pending batch is delivered.
Deliver ==
  /\ pending # << >>
  /\ delivered' = Append(delivered, Head(pending))
  /\ pending' = Tail(pending)

Next == (\E i \in Items : Accept(i)) \/ Deliver

Spec == Init /\ [][Next]_avars

\* Nothing accepted waits for ever.
FairSpec == Spec /\ WF_avars(Deliver)
=============================================================================
