----------------------------- MODULE FetchStage -----------------------------
(***************************************************************************)
(* The forwarder thread of src/core/src/fetch_stage.rs.  It moves packet   *)
(* batches from the bounded tpu_forwards channel (filled by the QUIC       *)
(* forwards server) into the bounded tpu channel that the QUIC TPU server  *)
(* also fills and sigverify drains (src/core/src/tpu.rs).  One call of     *)
(* handle_forwarded_packets: a blocking recv of one batch, try_recv of     *)
(* more batches until the channel is empty or more than the packet limit   *)
(* has been collected, then a blocking send of every collected batch,      *)
(* each marked FORWARDED.                                                  *)
(*                                                                         *)
(* A batch is a record with a unique id and its packet count.              *)
(***************************************************************************)
EXTENDS Naturals, Sequences

CONSTANTS
  Sizes,       \* packet counts a batch may have
  Limit,       \* the 1024 of `num_packets > 1024`
  FwdCap,      \* capacity of tpu_forwards (TPU_QUEUE_CAPACITY)
  TpuCap,      \* capacity of tpu (TPU_QUEUE_CAPACITY)
  MaxBatches   \* batches the environment produces in a run

ASSUME FetchStageAssumption ==
  /\ Sizes \subseteq Nat \ {0} /\ Limit \in Nat
  /\ FwdCap \in Nat \ {0} /\ TpuCap \in Nat \ {0} /\ MaxBatches \in Nat

Ids == 1..MaxBatches
Batch == [id : Ids, size : Sizes, forwarded : BOOLEAN]

VARIABLES
  fwdQ,       \* the tpu_forwards channel
  tpuQ,       \* the tpu channel
  pc,         \* "recv", "drain" or "send"
  collected,  \* packet_batches of the current call
  num,        \* num_packets of the current call
  produced,   \* batches produced so far (ids are handed out in order)
  fwdIn,      \* history: ids put into tpu_forwards, in order
  fwdOut      \* history: ids of forwarded batches put into tpu, in order

vars == <<fwdQ, tpuQ, pc, collected, num, produced, fwdIn, fwdOut>>

Init ==
  /\ fwdQ = << >> /\ tpuQ = << >>
  /\ pc = "recv" /\ collected = << >> /\ num = 0
  /\ produced = 0 /\ fwdIn = << >> /\ fwdOut = << >>

-----------------------------------------------------------------------------
(* handle_forwarded_packets                                               *)

\* recv()?: block for the first batch and mark its packets forwarded.
RecvFirst ==
  /\ pc = "recv" /\ fwdQ # << >>
  /\ collected' = << [Head(fwdQ) EXCEPT !.forwarded = TRUE] >>
  /\ num' = Head(fwdQ).size
  /\ fwdQ' = Tail(fwdQ)
  /\ pc' = "drain"
  /\ UNCHANGED <<tpuQ, produced, fwdIn, fwdOut>>

\* Mutant: the limit is tested before the batch just taken is kept.
TryRecvBreakFirst ==
  /\ pc = "drain" /\ fwdQ # << >>
  /\ num' = num + Head(fwdQ).size
  /\ fwdQ' = Tail(fwdQ)
  /\ IF num + Head(fwdQ).size > Limit
       THEN pc' = "send" /\ UNCHANGED collected
       ELSE collected' = Append(collected, [Head(fwdQ) EXCEPT !.forwarded = TRUE])
            /\ UNCHANGED pc
  /\ UNCHANGED <<tpuQ, produced, fwdIn, fwdOut>>

\* while let Ok(..) = try_recv(): push the batch, then stop once more than
\* Limit packets are collected.
TryRecv ==
  /\ pc = "drain" /\ fwdQ # << >>
  /\ collected' = Append(collected, [Head(fwdQ) EXCEPT !.forwarded = TRUE])
  /\ num' = num + Head(fwdQ).size
  /\ fwdQ' = Tail(fwdQ)
  /\ pc' = IF num + Head(fwdQ).size > Limit THEN "send" ELSE "drain"
  /\ UNCHANGED <<tpuQ, produced, fwdIn, fwdOut>>

\* Mutant: the collection loop blocks for more batches (recv for try_recv):
\* on an empty channel it takes no step.
DrainEmptyBlocks ==
  /\ pc = "drain" /\ fwdQ = << >> /\ FALSE
  /\ UNCHANGED <<fwdQ, tpuQ, pc, collected, num, produced, fwdIn, fwdOut>>

\* try_recv finds the channel empty: the loop ends.
DrainEmpty ==
  /\ pc = "drain" /\ fwdQ = << >>
  /\ pc' = "send"
  /\ UNCHANGED <<fwdQ, tpuQ, collected, num, produced, fwdIn, fwdOut>>

\* Mutant: the send does not wait for room in the tpu channel.
SendOneUnbounded ==
  /\ pc = "send" /\ collected # << >>
  /\ tpuQ' = Append(tpuQ, Head(collected))
  /\ fwdOut' = Append(fwdOut, Head(collected).id)
  /\ collected' = Tail(collected)
  /\ IF Tail(collected) = << >>
       THEN pc' = "recv" /\ num' = 0
       ELSE UNCHANGED <<pc, num>>
  /\ UNCHANGED <<fwdQ, produced, fwdIn>>

\* tpu_sender.send(batch): blocks while the tpu channel is full; after the
\* last one the call returns Ok and the thread loops to recv again.
SendOne ==
  /\ pc = "send" /\ collected # << >>
  /\ Len(tpuQ) < TpuCap
  /\ tpuQ' = Append(tpuQ, Head(collected))
  /\ fwdOut' = Append(fwdOut, Head(collected).id)
  /\ collected' = Tail(collected)
  /\ IF Tail(collected) = << >>
       THEN pc' = "recv" /\ num' = 0
       ELSE UNCHANGED <<pc, num>>
  /\ UNCHANGED <<fwdQ, produced, fwdIn>>

-----------------------------------------------------------------------------
(* The other threads: the QUIC forwards server, the QUIC TPU server and    *)
(* sigverify.                                                              *)

ForwardsServerSend(sz) ==
  /\ produced < MaxBatches /\ Len(fwdQ) < FwdCap
  /\ produced' = produced + 1
  /\ fwdQ' = Append(fwdQ, [id |-> produced + 1, size |-> sz, forwarded |-> FALSE])
  /\ fwdIn' = Append(fwdIn, produced + 1)
  /\ UNCHANGED <<tpuQ, pc, collected, num, fwdOut>>

TpuServerSend(sz) ==
  /\ produced < MaxBatches /\ Len(tpuQ) < TpuCap
  /\ produced' = produced + 1
  /\ tpuQ' = Append(tpuQ, [id |-> produced + 1, size |-> sz, forwarded |-> FALSE])
  /\ UNCHANGED <<fwdQ, pc, collected, num, fwdIn, fwdOut>>

SigVerifyRecv ==
  /\ tpuQ # << >>
  /\ tpuQ' = Tail(tpuQ)
  /\ UNCHANGED <<fwdQ, pc, collected, num, produced, fwdIn, fwdOut>>

Forwarder == RecvFirst \/ TryRecv \/ DrainEmpty \/ SendOne

Next ==
  \/ Forwarder
  \/ \E sz \in Sizes : ForwardsServerSend(sz) \/ TpuServerSend(sz)
  \/ SigVerifyRecv

Spec == Init /\ [][Next]_vars

\* The forwarder is an OS thread looping while !exit; sigverify keeps
\* draining the tpu channel.
FairSpec == Spec /\ WF_vars(Forwarder) /\ WF_vars(SigVerifyRecv)

-----------------------------------------------------------------------------
(* Properties.                                                             *)

TypeOK ==
  /\ fwdQ \in Seq(Batch) /\ Len(fwdQ) <= FwdCap
  /\ tpuQ \in Seq(Batch) /\ Len(tpuQ) <= TpuCap
  /\ pc \in {"recv", "drain", "send"}
  /\ collected \in Seq(Batch)
  /\ num \in Nat
  /\ produced \in 0..MaxBatches
  /\ fwdIn \in Seq(Ids) /\ fwdOut \in Seq(Ids)

IdsOf(s) == [i \in 1..Len(s) |-> s[i].id]

\* Across the three places a forwarded batch can be (sent on to tpu, held
\* by the thread, still in tpu_forwards) no batch is lost, duplicated or
\* reordered: the drain loop's early break keeps the batch that crossed
\* the limit, and the sends go out in receive order.
ForwardedInOrder ==
  fwdOut \o IdsOf(collected) \o IdsOf(fwdQ) = fwdIn

\* Every batch the forwards server hands over eventually reaches the tpu
\* channel, even when no further batch arrives after it.
ForwardedEventuallySent ==
  \A i \in Ids :
    (\E k \in 1..Len(fwdIn) : fwdIn[k] = i) ~> (\E k \in 1..Len(fwdOut) : fwdOut[k] = i)

\* The doc comment of handle_forwarded_packets: batches packets "up to 1024
\* packets per batch", so one call collects at most Limit packets.
CollectedWithinLimit == num <= Limit

-----------------------------------------------------------------------------
(* Refinement: the forwarder implements the order-preserving hand-over of  *)
(* ForwardQueue.  A batch is pending while it waits in tpu_forwards or is  *)
(* held by the thread, the held ones being older; it is delivered once    *)
(* the thread has put it into tpu.                                         *)

FQ == INSTANCE ForwardQueue WITH
        Items <- Ids,
        pending <- IdsOf(collected) \o IdsOf(fwdQ),
        delivered <- fwdOut

=============================================================================
