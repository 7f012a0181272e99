-------------------------- MODULE FetchStageProofs --------------------------
(***************************************************************************)
(* Proofs about the forwarder thread of FetchStage.tla, for every value of *)
(* the constants that satisfies FetchStageAssumption: the type invariant, *)
(* ForwardedInOrder, and that the forwarder implements the safety part of *)
(* ForwardQueue under the refinement mapping of FetchStage.               *)
(***************************************************************************)
EXTENDS FetchStage, SequenceTheorems, TLAPS

USE FetchStageAssumption

\* The ids still to be delivered: those held by the thread, then those
\* waiting in tpu_forwards (the abstract `pending`).
Pend == IdsOf(collected) \o IdsOf(fwdQ)

-----------------------------------------------------------------------------
(* Lemmas about IdsOf.                                                      *)

\* The ids of a sequence of batches form a sequence of ids of equal length.
LEMMA IdsOfType ==
  ASSUME NEW s \in Seq(Batch)
  PROVE  /\ IdsOf(s) \in Seq(Ids)
         /\ Len(IdsOf(s)) = Len(s)
<1>1. \A i \in 1..Len(s) : s[i] \in Batch
  OBVIOUS
<1>2. \A b \in Batch : b.id \in Ids
  BY Zenon DEF Batch
<1>. QED
  BY <1>1, <1>2 DEF IdsOf

\* Appending a batch appends its id.
LEMMA IdsOfAppend ==
  ASSUME NEW s \in Seq(Batch), NEW b \in Batch
  PROVE  IdsOf(Append(s, b)) = Append(IdsOf(s), b.id)
BY DEF IdsOf, Batch

\* Taking the head batch off takes its id off.
LEMMA IdsOfTail ==
  ASSUME NEW s \in Seq(Batch), s # << >>
  PROVE  /\ IdsOf(Tail(s)) = Tail(IdsOf(s))
         /\ Head(IdsOf(s)) = Head(s).id
         /\ IdsOf(s) # << >>
BY DEF IdsOf, Batch

\* Marking a batch forwarded keeps it a batch with the same id.
LEMMA MarkForwarded ==
  ASSUME NEW b \in Batch
  PROVE  /\ [b EXCEPT !.forwarded = TRUE] \in Batch
         /\ [b EXCEPT !.forwarded = TRUE].id = b.id
BY DEF Batch

\* Appending to the right operand of \o appends to the concatenation.
LEMMA ConcatAppend ==
  ASSUME NEW S, NEW a \in Seq(S), NEW p \in Seq(S), NEW x \in S
  PROVE  a \o Append(p, x) = Append(a \o p, x)
OBVIOUS

\* Moving the head of p to the end of a leaves a \o p as it is.
LEMMA MoveHead ==
  ASSUME NEW S, NEW a \in Seq(S), NEW p \in Seq(S), p # << >>
  PROVE  Append(a, Head(p)) \o Tail(p) = a \o p
OBVIOUS

\* The ids of a single batch.
LEMMA IdsOfSingle ==
  ASSUME NEW b \in Batch
  PROVE  IdsOf(<< b >>) = << b.id >>
BY DEF IdsOf

\* Head and Tail of a concatenation whose left part is not empty.
LEMMA HeadTailConcat ==
  ASSUME NEW S, NEW a \in Seq(S), NEW b \in Seq(S), a # << >>
  PROVE  /\ a \o b # << >>
         /\ Head(a \o b) = Head(a)
         /\ Tail(a \o b) = Tail(a) \o b
OBVIOUS

-----------------------------------------------------------------------------
(* The inductive invariant.                                                 *)

\* Between two calls the thread holds no batch: RecvFirst may overwrite
\* packet_batches.
IdleEmpty == pc = "recv" => collected = << >>

IInv == TypeOK /\ IdleEmpty

LEMMA IInvInit == Init => IInv
BY DEF Init, IInv, TypeOK, IdleEmpty

LEMMA IInvNext == IInv /\ [Next]_vars => IInv'
<1> SUFFICES ASSUME IInv, [Next]_vars PROVE IInv'
  OBVIOUS
<1>. USE DEF IInv, TypeOK, IdleEmpty
<1>1. CASE RecvFirst
  <2>1. [Head(fwdQ) EXCEPT !.forwarded = TRUE] \in Batch
    BY <1>1, MarkForwarded DEF RecvFirst
  <2>. QED
    BY <1>1, <2>1 DEF RecvFirst, Batch
<1>2. CASE TryRecv
  <2>1. [Head(fwdQ) EXCEPT !.forwarded = TRUE] \in Batch
    BY <1>2, MarkForwarded DEF TryRecv
  <2>. QED
    BY <1>2, <2>1 DEF TryRecv, Batch
<1>3. CASE DrainEmpty
  BY <1>3 DEF DrainEmpty
<1>4. CASE SendOne
  <2>1. Head(collected) \in Batch /\ Tail(collected) \in Seq(Batch)
    BY <1>4 DEF SendOne
  <2>2. Head(collected).id \in Ids
    BY <2>1 DEF Batch
  <2>3. tpuQ' \in Seq(Batch) /\ Len(tpuQ') =< TpuCap
    BY <1>4, <2>1 DEF SendOne
  <2>4. fwdOut' \in Seq(Ids)
    BY <1>4, <2>2 DEF SendOne
  <2>5. pc' \in {"recv", "drain", "send"} /\ num' \in Nat
    BY <1>4 DEF SendOne
  <2>6. TypeOK'
    BY <1>4, <2>1, <2>3, <2>4, <2>5 DEF SendOne
  <2>7. IdleEmpty'
    BY <1>4 DEF SendOne
  <2>. QED
    BY <2>6, <2>7
<1>5. ASSUME NEW sz \in Sizes, ForwardsServerSend(sz) PROVE IInv'
  BY <1>5 DEF ForwardsServerSend, Batch, Ids
<1>6. ASSUME NEW sz \in Sizes, TpuServerSend(sz) PROVE IInv'
  BY <1>6 DEF TpuServerSend, Batch, Ids
<1>7. CASE SigVerifyRecv
  BY <1>7 DEF SigVerifyRecv
<1>8. CASE UNCHANGED vars
  BY <1>8 DEF vars
<1>. QED
  BY <1>1, <1>2, <1>3, <1>4, <1>5, <1>6, <1>7, <1>8 DEF Next, Forwarder

\* Every state of the forwarder is well typed: in particular neither
\* bounded channel ever holds more than its capacity.
THEOREM FetchTypeCorrect == Spec => []TypeOK
<1>1. Spec => []IInv
  BY IInvInit, IInvNext, PTL DEF Spec
<1>. QED
  BY <1>1, PTL DEF IInv

-----------------------------------------------------------------------------
(* How each step of the forwarder moves the pending ids.                    *)

\* The first recv moves the head of tpu_forwards into the empty
\* packet_batches: nothing pending changes place.
LEMMA PendRecvFirst == IInv /\ RecvFirst => Pend' = Pend
<1> SUFFICES ASSUME IInv, RecvFirst PROVE Pend' = Pend
  OBVIOUS
<1>. DEFINE m == [Head(fwdQ) EXCEPT !.forwarded = TRUE]
<1>1. fwdQ \in Seq(Batch) /\ fwdQ # << >> /\ collected = << >>
  BY DEF IInv, TypeOK, IdleEmpty, RecvFirst
<1>2. m \in Batch /\ m.id = Head(fwdQ).id
  BY <1>1, MarkForwarded
<1>3. IdsOf(collected') = << Head(IdsOf(fwdQ)) >>
  <2>1. collected' = << m >>
    BY DEF RecvFirst
  <2>2. IdsOf(<< m >>) = << m.id >>
    BY <1>2, IdsOfSingle
  <2>. QED
    BY <1>1, <1>2, <2>1, <2>2, IdsOfTail
<1>4. IdsOf(fwdQ') = Tail(IdsOf(fwdQ))
  BY <1>1, IdsOfTail DEF RecvFirst
<1>5. IdsOf(collected) = << >>
  BY <1>1 DEF IdsOf
<1>6. IdsOf(fwdQ) \in Seq(Ids) /\ IdsOf(fwdQ) # << >>
  BY <1>1, IdsOfType, IdsOfTail
<1>. QED
  BY <1>3, <1>4, <1>5, <1>6, MoveHead DEF Pend

\* try_recv moves the head of tpu_forwards to the end of packet_batches.
LEMMA PendTryRecv == IInv /\ TryRecv => Pend' = Pend
<1> SUFFICES ASSUME IInv, TryRecv PROVE Pend' = Pend
  OBVIOUS
<1>. DEFINE m == [Head(fwdQ) EXCEPT !.forwarded = TRUE]
<1>1. fwdQ \in Seq(Batch) /\ fwdQ # << >> /\ collected \in Seq(Batch)
  BY DEF IInv, TypeOK, TryRecv
<1>2. m \in Batch /\ m.id = Head(fwdQ).id
  BY <1>1, MarkForwarded
<1>3. IdsOf(collected') = Append(IdsOf(collected), Head(IdsOf(fwdQ)))
  BY <1>1, <1>2, IdsOfAppend, IdsOfTail DEF TryRecv
<1>4. IdsOf(fwdQ') = Tail(IdsOf(fwdQ))
  BY <1>1, IdsOfTail DEF TryRecv
<1>5. IdsOf(fwdQ) \in Seq(Ids) /\ IdsOf(fwdQ) # << >>
      /\ IdsOf(collected) \in Seq(Ids)
  BY <1>1, IdsOfType, IdsOfTail
<1>. QED
  BY <1>3, <1>4, <1>5, MoveHead DEF Pend

\* A send delivers the oldest pending id.
LEMMA PendSendOne ==
  IInv /\ SendOne => /\ Pend # << >>
                     /\ fwdOut' = Append(fwdOut, Head(Pend))
                     /\ Pend' = Tail(Pend)
<1> SUFFICES ASSUME IInv, SendOne
             PROVE  /\ Pend # << >>
                    /\ fwdOut' = Append(fwdOut, Head(Pend))
                    /\ Pend' = Tail(Pend)
  OBVIOUS
<1>1. collected \in Seq(Batch) /\ collected # << >> /\ fwdQ \in Seq(Batch)
  BY DEF IInv, TypeOK, SendOne
<1>2. /\ IdsOf(collected) \in Seq(Ids) /\ IdsOf(collected) # << >>
      /\ IdsOf(fwdQ) \in Seq(Ids)
      /\ IdsOf(collected') = Tail(IdsOf(collected))
      /\ Head(IdsOf(collected)) = Head(collected).id
  BY <1>1, IdsOfType, IdsOfTail DEF SendOne
<1>3. /\ Pend # << >>
      /\ Head(Pend) = Head(IdsOf(collected))
      /\ Tail(Pend) = Tail(IdsOf(collected)) \o IdsOf(fwdQ)
  BY <1>2, HeadTailConcat DEF Pend
<1>. QED
  BY <1>2, <1>3 DEF Pend, SendOne

\* The forwards server appends one batch, whose id is the next one.
LEMMA PendServerSend ==
  ASSUME IInv, NEW sz \in Sizes, ForwardsServerSend(sz)
  PROVE  /\ produced + 1 \in Ids
         /\ Pend' = Append(Pend, produced + 1)
         /\ fwdIn' = Append(fwdIn, produced + 1)
<1>. DEFINE b == [id |-> produced + 1, size |-> sz, forwarded |-> FALSE]
<1>1. b \in Batch /\ b.id = produced + 1
  BY DEF IInv, TypeOK, ForwardsServerSend, Batch, Ids
<1>2. fwdQ \in Seq(Batch) /\ collected \in Seq(Batch)
  BY DEF IInv, TypeOK
<1>3. IdsOf(fwdQ') = Append(IdsOf(fwdQ), produced + 1)
  BY <1>1, <1>2, IdsOfAppend DEF ForwardsServerSend
<1>4. IdsOf(fwdQ) \in Seq(Ids) /\ IdsOf(collected) \in Seq(Ids)
  BY <1>2, IdsOfType
<1>5. produced + 1 \in Ids
  BY DEF IInv, TypeOK, ForwardsServerSend, Ids
<1>6. collected' = collected
  BY DEF ForwardsServerSend
<1>7. IdsOf(collected) \o Append(IdsOf(fwdQ), produced + 1)
        = Append(IdsOf(collected) \o IdsOf(fwdQ), produced + 1)
  BY <1>4, <1>5, ConcatAppend
<1>. QED
  BY <1>3, <1>5, <1>6, <1>7 DEF Pend, ForwardsServerSend

\* The other steps leave the pending ids and both histories alone.
LEMMA PendOther ==
  IInv /\ (DrainEmpty \/ SigVerifyRecv \/ (\E sz \in Sizes : TpuServerSend(sz))
          \/ UNCHANGED vars)
  => Pend' = Pend /\ fwdOut' = fwdOut /\ fwdIn' = fwdIn
BY DEF Pend, DrainEmpty, SigVerifyRecv, TpuServerSend, vars

-----------------------------------------------------------------------------
(* ForwardedInOrder.                                                        *)

\* ForwardedInOrder, with the pending ids grouped.
OrderInv == fwdOut \o Pend = fwdIn

LEMMA OrderIsForwardedInOrder == IInv => (OrderInv <=> ForwardedInOrder)
<1> SUFFICES ASSUME IInv PROVE OrderInv <=> ForwardedInOrder
  OBVIOUS
<1>1. IdsOf(collected) \in Seq(Ids) /\ IdsOf(fwdQ) \in Seq(Ids)
  BY IdsOfType DEF IInv, TypeOK
<1>2. fwdOut \in Seq(Ids)
  BY DEF IInv, TypeOK
<1>3. fwdOut \o Pend = (fwdOut \o IdsOf(collected)) \o IdsOf(fwdQ)
  BY <1>1, <1>2, ConcatAssociative DEF Pend
<1>. QED
  BY <1>3 DEF OrderInv, ForwardedInOrder

LEMMA OrderNext == IInv /\ OrderInv /\ [Next]_vars => OrderInv'
<1> SUFFICES ASSUME IInv, OrderInv, [Next]_vars PROVE OrderInv'
  OBVIOUS
<1>0. /\ fwdOut \in Seq(Ids) /\ Pend \in Seq(Ids)
  BY IdsOfType DEF IInv, TypeOK, Pend
<1>1. CASE RecvFirst
  BY <1>1, PendRecvFirst DEF OrderInv, RecvFirst
<1>2. CASE TryRecv
  BY <1>2, PendTryRecv DEF OrderInv, TryRecv
<1>3. CASE SendOne
  BY <1>0, <1>3, PendSendOne, MoveHead DEF OrderInv, SendOne
<1>4. ASSUME NEW sz \in Sizes, ForwardsServerSend(sz) PROVE OrderInv'
  <2>1. /\ produced + 1 \in Ids
        /\ Pend' = Append(Pend, produced + 1)
        /\ fwdIn' = Append(fwdIn, produced + 1)
        /\ fwdOut' = fwdOut
    BY <1>4, PendServerSend DEF ForwardsServerSend
  <2>2. fwdOut \o Append(Pend, produced + 1) = Append(fwdOut \o Pend, produced + 1)
    BY <1>0, <2>1, ConcatAppend
  <2>. QED
    BY <2>1, <2>2 DEF OrderInv
<1>5. CASE DrainEmpty \/ SigVerifyRecv \/ (\E sz \in Sizes : TpuServerSend(sz))
           \/ UNCHANGED vars
  BY <1>5, PendOther DEF OrderInv
<1>. QED
  BY <1>1, <1>2, <1>3, <1>4, <1>5 DEF Next, Forwarder

\* No batch the forwards server hands over is lost, duplicated or
\* reordered between tpu_forwards, the forwarder's packet_batches and the
\* tpu channel, for every capacity, limit and batch size.
THEOREM ForwardedInOrderThm == Spec => []ForwardedInOrder
<1>1. Init => OrderInv
  BY DEF Init, OrderInv, Pend, IdsOf
<1>2. Spec => [](IInv /\ OrderInv)
  BY <1>1, IInvInit, IInvNext, OrderNext, PTL DEF Spec
<1>. QED
  BY <1>2, OrderIsForwardedInOrder, PTL

-----------------------------------------------------------------------------
(* Refinement.                                                              *)

\* The forwarder implements the safety part of ForwardQueue: each of its
\* steps hands a new batch to the stage, delivers the oldest pending one,
\* or changes neither.
THEOREM RefinesForwardQueue == Spec => FQ!Spec
<1>1. Init => FQ!Init
  BY DEF Init, FQ!Init, IdsOf
<1>2. IInv /\ [Next]_vars => [FQ!Next]_FQ!avars
  <2> SUFFICES ASSUME IInv, [Next]_vars PROVE [FQ!Next]_FQ!avars
    OBVIOUS
  <2>1. CASE RecvFirst
    BY <2>1, PendRecvFirst DEF FQ!avars, Pend, RecvFirst
  <2>2. CASE TryRecv
    BY <2>2, PendTryRecv DEF FQ!avars, Pend, TryRecv
  <2>3. CASE SendOne
    BY <2>3, PendSendOne DEF FQ!Next, FQ!Deliver, Pend
  <2>4. ASSUME NEW sz \in Sizes, ForwardsServerSend(sz) PROVE [FQ!Next]_FQ!avars
    <3>1. produced + 1 \in Ids /\ Pend' = Append(Pend, produced + 1)
      BY <2>4, PendServerSend
    <3>2. FQ!Accept(produced + 1)
      BY <2>4, <3>1 DEF FQ!Accept, Pend, ForwardsServerSend
    <3>. QED
      BY <3>1, <3>2 DEF FQ!Next
  <2>5. CASE DrainEmpty \/ SigVerifyRecv \/ (\E sz \in Sizes : TpuServerSend(sz))
             \/ UNCHANGED vars
    BY <2>5, PendOther DEF FQ!avars, Pend
  <2>. QED
    BY <2>1, <2>2, <2>3, <2>4, <2>5 DEF Next, Forwarder
<1>. QED
  BY <1>1, <1>2, IInvInit, IInvNext, PTL DEF Spec, FQ!Spec
=============================================================================
