--------------------------- MODULE ShutdownProofs ---------------------------
(***************************************************************************)
(* Proofs about the shutdown model for every set of servers and every     *)
(* channel bound.                                                          *)
(***************************************************************************)
EXTENDS Shutdown, TLAPS

USE ShutdownAssumption

(***************************************************************************)
(* Until the operator's signal, no thread of the slot pipeline has ended   *)
(* and the exit flag is clear; after it, main is joining.  The health      *)
(* manager's two panics need a producer that has ended, so neither can    *)
(* happen before the signal.                                               *)
(***************************************************************************)
BeforeSignal ==
  /\ exit => main = "join"
  /\ ~exit => /\ \A s \in Servers : lb[s] # "done"
              /\ rl # "done"
              /\ fwd = "running"
              /\ hm \notin {"hook", "done"}

IInv == TypeOK /\ BeforeSignal

\* The program starts with exit clear and every thread running.
LEMMA IInvInit == Init => IInv
<1> SUFFICES ASSUME Init PROVE IInv
  OBVIOUS
<1>1. lb \in [Servers -> {"top", "subscribed", "send", "sleep", "done"}]
  BY DEF Init
<1>2. lbQ \in 0..LbQCap /\ relayQ \in 0..RelayQCap
  BY DEF Init
<1>3. TypeOK
  BY <1>1, <1>2 DEF Init, TypeOK
<1>4. BeforeSignal
  BY DEF Init, BeforeSignal
<1>5. QED
  BY <1>3, <1>4 DEF IInv

\* No thread step ends a pipeline thread or sets exit before the signal,
\* and the health manager panics only after one of them ended.
LEMMA IInvNext == IInv /\ [Next]_vars => IInv'
<1> SUFFICES ASSUME IInv, [Next]_vars PROVE IInv'
  OBVIOUS
<1> USE DEF IInv, TypeOK, BeforeSignal
<1>1. ASSUME NEW s \in Servers, LbTop(s) PROVE IInv'
  BY <1>1 DEF LbTop
<1>2. ASSUME NEW s \in Servers, LbConnectFails(s) PROVE IInv'
  BY <1>2 DEF LbConnectFails
<1>3. ASSUME NEW s \in Servers, LbRecv(s) PROVE IInv'
  BY <1>3 DEF LbRecv
<1>4. ASSUME NEW s \in Servers, LbSend(s) PROVE IInv'
  BY <1>4 DEF LbSend
<1>5. ASSUME NEW s \in Servers, LbSleep(s) PROVE IInv'
  BY <1>5 DEF LbSleep
<1>6. CASE HmTop
  BY <1>6 DEF HmTop
<1>7. CASE HmTick
  BY <1>7 DEF HmTick
<1>8. CASE HmRecv
  BY <1>8 DEF HmRecv
<1>9. CASE HmRecvClosed
  \* every server's thread has ended, which only happens after exit
  <2>1. PICK s \in Servers : TRUE
    OBVIOUS
  <2>2. exit
    BY <1>9, <2>1 DEF HmRecvClosed
  <2>3. QED
    BY <1>9, <2>2 DEF HmRecvClosed
<1>10. CASE HmSend
  <2>1. CASE rl = "done"
    \* the relayer has ended, so exit is set and main is joining
    <3>1. exit /\ main = "join"
      BY <2>1
    <3>2. QED
      BY <1>10, <2>1, <3>1 DEF HmSend
  <2>2. CASE rl # "done"
    BY <1>10, <2>2 DEF HmSend
  <2>3. QED
    BY <2>1, <2>2
<1>11. CASE PanicHookExit
  BY <1>11 DEF PanicHookExit
<1>12. CASE RlTop
  BY <1>12 DEF RlTop
<1>13. CASE RlSlot
  BY <1>13 DEF RlSlot
<1>14. CASE RlSlotClosed
  BY <1>14 DEF RlSlotClosed
<1>15. CASE RlPacket
  BY <1>15 DEF RlPacket
<1>16. CASE RlPacketClosed
  BY <1>16 DEF RlPacketClosed
<1>17. CASE RlTick
  BY <1>17 DEF RlTick
<1>18. CASE Signal
  BY <1>18 DEF Signal
<1>19. CASE MainJoin
  BY <1>19 DEF MainJoin
<1>20. CASE ForwarderExits
  BY <1>20 DEF ForwarderExits
<1>21. CASE Elapse
  BY <1>21 DEF Elapse
<1>22. CASE Terminated
  BY <1>22 DEF Terminated, vars
<1>23. CASE UNCHANGED vars
  BY <1>23 DEF vars
<1>24. QED
  BY <1>1, <1>2, <1>3, <1>4, <1>5, <1>6, <1>7, <1>8, <1>9, <1>10,
     <1>11, <1>12, <1>13, <1>14, <1>15, <1>16, <1>17, <1>18, <1>19,
     <1>20, <1>21, <1>22, <1>23 DEF Next, Step

\* Every reachable state of the shutdown model is well typed; in
\* particular both slot channels stay within their crossbeam bounds.
THEOREM ShutdownTypeCorrect == Spec => []TypeOK
<1>1. IInv => TypeOK
  BY DEF IInv
<1>2. QED
  BY <1>1, IInvInit, IInvNext, PTL DEF Spec

\* The health manager's expect() panics (on a disconnected slot receiver
\* or a dropped relayer receiver) never happen while the relayer serves.
THEOREM NoPanicWhileServingThm == Spec => []NoPanicWhileServing
<1>1. IInv => NoPanicWhileServing
  BY DEF IInv, BeforeSignal, NoPanicWhileServing
<1>2. QED
  BY <1>1, IInvInit, IInvNext, PTL DEF Spec
=============================================================================
