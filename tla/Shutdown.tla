------------------------------ MODULE Shutdown ------------------------------
(***************************************************************************)
(* Shutdown of the slot pipeline: the load-balancer subscription threads  *)
(* (rpc/src/load_balancer.rs), the health manager (relayer/src/            *)
(* health_manager.rs), the relayer event loop (relayer/src/relayer.rs),    *)
(* the panic hook of graceful_panic (core/src/lib.rs) and the end of       *)
(* main (transaction-relayer/src/main.rs).  They share one AtomicBool      *)
(* `exit`.  Each thread polls it at the top of its loop; a thread that     *)
(* ends drops its end of the channels it owns, and a crossbeam operation   *)
(* on a channel whose other end is gone fails.                             *)
(*                                                                         *)
(* Slot values, health and packets are abstracted away (SlotPipeline and   *)
(* Relayer model them): a channel is its length, and each loop keeps the   *)
(* control of its arms, its exit check and its error paths.                *)
(***************************************************************************)
EXTENDS Naturals

CONSTANTS
  Servers,    \* RPC websocket servers, one subscription thread each
  LbQCap,     \* capacity of the load balancer -> health manager channel
  RelayQCap   \* capacity of the health manager -> relayer channel

\* main passes at least one (rpc, websocket) pair to LoadBalancer::new.
ASSUME ShutdownAssumption ==
  /\ Servers # {}
  /\ LbQCap \in Nat \ {0}
  /\ RelayQCap \in Nat \ {0}

VARIABLES
  exit,     \* the shared exit flag
  lb,       \* program counter of each subscription thread
  lbQ,      \* number of slots in the load balancer -> health manager channel
  hm,       \* program counter of the health manager thread
  hmTick,   \* a tick of the health manager (check or channel stats) is due
  relayQ,   \* number of slots in the health manager -> relayer channel
  rl,       \* program counter of the relayer event-loop thread
  rlTick,   \* a heartbeat or metrics tick of the event loop is due
  fwd,      \* the packet forwarder thread (the delay channel's sender)
  main,     \* program counter of the main thread
  code      \* the process's exit status, "running" until it ends

vars == <<exit, lb, lbQ, hm, hmTick, relayQ, rl, rlTick, fwd, main, code>>

Running == code = "running"

TypeOK ==
  /\ exit \in BOOLEAN
  /\ lb \in [Servers -> {"top", "subscribed", "send", "sleep", "done"}]
  /\ lbQ \in 0..LbQCap
  /\ hm \in {"top", "select", "send", "hook", "done"}
  /\ relayQ \in 0..RelayQCap
  /\ rl \in {"top", "select", "done"}
  /\ hmTick \in BOOLEAN /\ rlTick \in BOOLEAN
  /\ fwd \in {"running", "done"}
  /\ main \in {"serve", "join"}
  /\ code \in {"running", "status0", "status1"}

Init ==
  /\ exit = FALSE
  /\ lb = [s \in Servers |-> "top"]
  /\ lbQ = 0
  /\ hm = "top"
  /\ relayQ = 0
  /\ rl = "top"
  /\ hmTick = FALSE /\ rlTick = FALSE
  /\ fwd = "running"
  /\ main = "serve"
  /\ code = "running"

(***************************************************************************)
(* Load-balancer subscription thread s.                                    *)
(***************************************************************************)

\* Top of the reconnection loop: the thread ends on exit, else
\* slot_subscribe succeeds and the message loop starts ...
LbTop(s) ==
  /\ Running
  /\ lb[s] = "top"
  /\ lb' = [lb EXCEPT ![s] = IF exit THEN "done" ELSE "subscribed"]
  /\ UNCHANGED <<exit, lbQ, hm, hmTick, relayQ, rl, rlTick, fwd, main, code>>

\* ... or fails, and the thread sleeps 1 s before retrying.
LbConnectFails(s) ==
  /\ Running
  /\ lb[s] = "top" /\ ~exit
  /\ lb' = [lb EXCEPT ![s] = "sleep"]
  /\ UNCHANGED <<exit, lbQ, hm, hmTick, relayQ, rl, rlTick, fwd, main, code>>

\* One pass of the message loop: on exit the loop ends and the thread goes
\* to sleep; otherwise recv_timeout yields a slot, which is sent on when
\* fetch_max finds it a new maximum, or a stale timeout or disconnect ends
\* the loop.
LbRecv(s) ==
  /\ Running
  /\ lb[s] = "subscribed"
  /\ \/ exit /\ lb' = [lb EXCEPT ![s] = "sleep"]
     \/ ~exit /\ \E next \in {"send", "subscribed", "sleep"} :
                   lb' = [lb EXCEPT ![s] = next]
  /\ UNCHANGED <<exit, lbQ, hm, hmTick, relayQ, rl, rlTick, fwd, main, code>>

\* Mutant: a send that ignores the channel's bound.
LbSendUnbounded(s) ==
  /\ Running
  /\ lb[s] = "send"
  /\ \/ hm = "done" /\ lb' = [lb EXCEPT ![s] = "sleep"] /\ UNCHANGED lbQ
     \/ hm # "done"
        /\ lbQ' = lbQ + 1 /\ lb' = [lb EXCEPT ![s] = "subscribed"]
  /\ UNCHANGED <<exit, hm, hmTick, relayQ, rl, rlTick, fwd, main, code>>

\* slot_sender.send blocks while the channel is full and fails once the
\* health manager's receiver is dropped, which breaks the message loop.
LbSend(s) ==
  /\ Running
  /\ lb[s] = "send"
  /\ \/ hm = "done" /\ lb' = [lb EXCEPT ![s] = "sleep"] /\ UNCHANGED lbQ
     \/ hm # "done" /\ lbQ < LbQCap
        /\ lbQ' = lbQ + 1 /\ lb' = [lb EXCEPT ![s] = "subscribed"]
  /\ UNCHANGED <<exit, hm, hmTick, relayQ, rl, rlTick, fwd, main, code>>

\* Mutant: a thread that gives up after one failed subscription.
LbSleepEnds(s) ==
  /\ Running
  /\ lb[s] = "sleep"
  /\ lb' = [lb EXCEPT ![s] = "done"]
  /\ UNCHANGED <<exit, lbQ, hm, hmTick, relayQ, rl, rlTick, fwd, main, code>>

\* After the 1 s sleep the reconnection loop starts over.
LbSleep(s) ==
  /\ Running
  /\ lb[s] = "sleep"
  /\ lb' = [lb EXCEPT ![s] = "top"]
  /\ UNCHANGED <<exit, lbQ, hm, hmTick, relayQ, rl, rlTick, fwd, main, code>>

(***************************************************************************)
(* Health manager thread.                                                  *)
(***************************************************************************)

\* Top of `while !exit`: the thread returns, dropping its slot receiver
\* and its sender to the relayer, or blocks in select!.
HmTop ==
  /\ Running
  /\ hm = "top"
  /\ hm' = IF exit THEN "done" ELSE "select"
  /\ UNCHANGED <<exit, lb, lbQ, hmTick, relayQ, rl, rlTick, fwd, main, code>>

\* The check_and_metrics or channel_len tick arm.
HmTick ==
  /\ Running
  /\ hm = "select" /\ hmTick
  /\ hmTick' = FALSE /\ hm' = "top"
  /\ UNCHANGED <<exit, lb, lbQ, relayQ, rl, rlTick, fwd, main, code>>

\* The slot arm receives a slot ...
HmRecv ==
  /\ Running
  /\ hm = "select" /\ lbQ > 0
  /\ lbQ' = lbQ - 1 /\ hm' = "send"
  /\ UNCHANGED <<exit, lb, hmTick, relayQ, rl, rlTick, fwd, main, code>>

\* ... or, once every subscription thread has dropped its sender and the
\* channel is empty, gets RecvError, and expect() panics.  The panic hook
\* runs on this thread and sets exit.
HmRecvClosed ==
  /\ Running
  /\ hm = "select" /\ lbQ = 0
  /\ \A s \in Servers : lb[s] = "done"
  /\ hm' = "hook" /\ exit' = TRUE
  /\ UNCHANGED <<lb, lbQ, hmTick, relayQ, rl, rlTick, fwd, main, code>>

\* Mutant: a send that waits for room even when the relayer is gone.
HmSendWaits ==
  /\ Running
  /\ hm = "send" /\ relayQ < RelayQCap
  /\ relayQ' = relayQ + 1 /\ hm' = "top"
  /\ UNCHANGED <<exit, lb, lbQ, hmTick, rl, rlTick, fwd, main, code>>

\* slot_sender.send blocks while the relayer's channel is full; it fails
\* once the event loop has dropped its receiver, and expect() panics.
HmSend ==
  /\ Running
  /\ hm = "send"
  /\ \/ rl = "done" /\ hm' = "hook" /\ exit' = TRUE /\ UNCHANGED relayQ
     \/ rl # "done" /\ relayQ < RelayQCap
        /\ relayQ' = relayQ + 1 /\ hm' = "top" /\ UNCHANGED exit
  /\ UNCHANGED <<lb, lbQ, hmTick, rl, rlTick, fwd, main, code>>

\* The panic hook, after its 5 s sleep, ends the process with status 1.
PanicHookExit ==
  /\ Running
  /\ hm = "hook"
  /\ code' = "status1"
  /\ UNCHANGED <<exit, lb, lbQ, hm, hmTick, relayQ, rl, rlTick, fwd, main>>

(***************************************************************************)
(* Relayer event-loop thread.                                              *)
(***************************************************************************)

\* Top of `while !exit`: run_event_loop returns Ok(()) or blocks in select!.
RlTop ==
  /\ Running
  /\ rl = "top"
  /\ rl' = IF exit THEN "done" ELSE "select"
  /\ UNCHANGED <<exit, lb, lbQ, hm, hmTick, relayQ, rlTick, fwd, main, code>>

\* The slot arm takes a slot ...
RlSlot ==
  /\ Running
  /\ rl = "select" /\ relayQ > 0
  /\ relayQ' = relayQ - 1 /\ rl' = "top"
  /\ UNCHANGED <<exit, lb, lbQ, hm, hmTick, rlTick, fwd, main, code>>

\* ... or meets the health manager's dropped sender: update_highest_slot's
\* `?` returns the RecvError and the thread ends.
RlSlotClosed ==
  /\ Running
  /\ rl = "select" /\ relayQ = 0 /\ hm = "done"
  /\ rl' = "done"
  /\ UNCHANGED <<exit, lb, lbQ, hm, hmTick, relayQ, rlTick, fwd, main, code>>

\* The packet or subscription arm handles an arrival ...
RlPacket ==
  /\ Running
  /\ rl = "select" /\ fwd = "running"
  /\ rl' = "top"
  /\ UNCHANGED <<exit, lb, lbQ, hm, hmTick, relayQ, rlTick, fwd, main, code>>

\* ... and forward_packets' `?` ends the thread once the forwarder is gone.
RlPacketClosed ==
  /\ Running
  /\ rl = "select" /\ fwd = "done"
  /\ rl' = "done"
  /\ UNCHANGED <<exit, lb, lbQ, hm, hmTick, relayQ, rlTick, fwd, main, code>>

\* The heartbeat or metrics tick arm.
RlTick ==
  /\ Running
  /\ rl = "select" /\ rlTick
  /\ rlTick' = FALSE /\ rl' = "top"
  /\ UNCHANGED <<exit, lb, lbQ, hm, hmTick, relayQ, fwd, main, code>>

(***************************************************************************)
(* Main thread and environment.                                            *)
(***************************************************************************)

\* SIGTERM or Ctrl-C: shutdown_signal sets exit, serve_with_shutdown
\* returns, and main sets exit again before joining the threads.
Signal ==
  /\ Running
  /\ main = "serve"
  /\ exit' = TRUE /\ main' = "join"
  /\ UNCHANGED <<lb, lbQ, hm, hmTick, relayQ, rl, rlTick, fwd, code>>

\* main joins the TPU, then the health manager, then the other threads,
\* and returns: status 0.  The other joined threads are not modelled and
\* are taken to end on exit.
MainJoin ==
  /\ Running
  /\ main = "join" /\ hm = "done"
  /\ code' = "status0"
  /\ UNCHANGED <<exit, lb, lbQ, hm, hmTick, relayQ, rl, rlTick, fwd, main>>

\* The packet forwarder thread stops once exit is set.
ForwarderExits ==
  /\ Running
  /\ fwd = "running" /\ exit
  /\ fwd' = "done"
  /\ UNCHANGED <<exit, lb, lbQ, hm, hmTick, relayQ, rl, rlTick, main, code>>

\* Time passes: the crossbeam tickers of both loops fire.
Elapse ==
  /\ Running
  /\ ~hmTick \/ ~rlTick
  /\ hmTick' = TRUE /\ rlTick' = TRUE
  /\ UNCHANGED <<exit, lb, lbQ, hm, relayQ, rl, fwd, main, code>>

\* Once the process has exited nothing changes.
Terminated == ~Running /\ UNCHANGED vars

Step ==
  \/ \E s \in Servers : LbTop(s) \/ LbConnectFails(s) \/ LbRecv(s)
                        \/ LbSend(s) \/ LbSleep(s)
  \/ HmTop \/ HmTick \/ HmRecv \/ HmRecvClosed \/ HmSend \/ PanicHookExit
  \/ RlTop \/ RlSlot \/ RlSlotClosed \/ RlPacket \/ RlPacketClosed \/ RlTick
  \/ Signal \/ MainJoin \/ ForwarderExits \/ Elapse

Next == Step \/ Terminated

Spec == Init /\ [][Next]_vars

\* Every thread step is weakly fair, and the tickers keep firing; the
\* operator's signal, the forwarder and packet arrivals are not.
Fairness ==
  /\ \A s \in Servers :
       WF_vars(LbTop(s) \/ LbRecv(s) \/ LbSend(s) \/ LbSleep(s))
  /\ WF_vars(HmTop \/ HmTick \/ HmRecv \/ HmRecvClosed \/ HmSend
             \/ PanicHookExit)
  /\ WF_vars(RlTop \/ RlSlot \/ RlSlotClosed \/ RlPacketClosed \/ RlTick)
  /\ WF_vars(MainJoin)
  /\ WF_vars(Elapse)

FairSpec == Spec /\ Fairness

(***************************************************************************)
(* Properties.                                                             *)
(***************************************************************************)

\* Once exit is set the process ends: no thread that main joins (the
\* health manager, blocked in select! or in a send to the relayer) waits
\* for ever on a thread that has already stopped.
ShutdownTerminates == exit ~> ~Running

\* While the relayer serves (no signal yet), the health manager never
\* panics: its producers, the subscription threads and the event loop,
\* only stop after exit is set.
NoPanicWhileServing == hm = "hook" => main = "join"

\* A shutdown started by SIGTERM or Ctrl-C ends with status 0 (spec:
\* "0 on clean shutdown; 1 on forced exit after panic drain").
CleanExitCode == (main = "join" /\ ~Running) => code = "status0"
=============================================================================
