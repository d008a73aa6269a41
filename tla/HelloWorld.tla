------------------------------ MODULE HelloWorld -----------------------------
(***************************************************************************)
(* The example server of src/libevent_test/hello-world.c on the reactor of *)
(* EventBase.  main() creates the base, a listener on port 9995 and a      *)
(* SIGINT event, then runs event_base_dispatch().  For every accepted      *)
(* connection listener_cb() wraps the socket in a bufferevent that only   *)
(* writes, and queues MESSAGE on it; conn_writecb() frees the bufferevent  *)
(* (closing the socket) once its output is flushed; conn_eventcb() frees   *)
(* it on EOF or error.  signal_cb() asks the loop to exit in two seconds;  *)
(* after the loop returns main() frees the listener, the signal event and  *)
(* the base.                                                               *)
(*                                                                         *)
(* The events of the base are the listener's read event LevEv, the signal *)
(* event SigEv and, for each connection c, the write event of its          *)
(* bufferevent, named c itself.  The bytes of MESSAGE are a count: the     *)
(* properties only compare how many were queued and written.               *)
(***************************************************************************)
EXTENDS Naturals, Sequences, FiniteSets, SequencesExt

CONSTANTS
  Conns,          \* the client connections that may arrive
  MsgLen,         \* bytes in MESSAGE ("Hello, World!\n"), as chunks
  MaxSigs,        \* bound on SIGINTs delivered
  LevEv,          \* the evconnlistener's EV_READ|EV_PERSIST event
  SigEv,          \* evsignal_new(base, SIGINT, ...): EV_SIGNAL|EV_PERSIST
  ExitEv, NoEvent,
  BevNewMayFail,  \* bufferevent_socket_new() may return NULL
  WriteMayFail    \* bufferevent_write() may return -1

ASSUME /\ MsgLen \in Nat \ {0} /\ MaxSigs \in Nat
       /\ {BevNewMayFail, WriteMayFail} \subseteq BOOLEAN
       /\ LevEv # SigEv /\ {LevEv, SigEv} \cap Conns = {}

VARIABLES
  pending, timed, activeq, exits, lstate, lflags, running, gotbreak, gotterm,
  gotcont, acts, calls, delSinceAct, addedInCb, iterPrio,
  phase,     \* main(): "init", "setup" (base, listener, signal event made),
             \* "dispatch" (in or after event_base_dispatch), "done", "failed"
  conn,      \* conn[c]: "none", "backlog" (connected, not accepted), "open"
             \* (bufferevent alive), "closed" (freed, fd closed), "leaked"
             \* (accepted, no bufferevent made, fd never closed)
  out,       \* bytes in the output evbuffer of c's bufferevent
  sent,      \* bytes of MESSAGE written to c's socket
  peer,      \* "up" or "reset": the client has closed or reset its end
  sigs,      \* SIGINTs delivered and not yet handled by signal_cb
  sigsSent,  \* SIGINTs delivered so far (bounded by MaxSigs)
  live       \* EventBase's made-and-not-freed events: always all of them,
             \* a connection's freed bufferevent is told by conn[c] instead

hwVars == <<phase, conn, out, sent, peer, sigs, sigsSent, live>>
vars == <<pending, timed, activeq, exits, lstate, lflags, running, gotbreak,
          gotterm, gotcont, acts, calls, delSinceAct, addedInCb, iterPrio,
          hwVars>>

HWEvents == {LevEv, SigEv} \cup Conns

\* Enough activations for every accept, signal and one-byte write.
HWMaxActs == Cardinality(Conns) * (MsgLen + 1) + MaxSigs

(* Readiness the backend reports: the listening socket when a connection   *)
(* waits in the backlog, the signal pipe when a SIGINT was caught, a       *)
(* connected socket whenever (its send buffer has room, or it errors).     *)
CanFire(e) ==
  CASE e = LevEv -> \E c \in Conns : conn[c] = "backlog"
    [] e = SigEv -> sigs > 0
    [] OTHER     -> TRUE

EB == INSTANCE EventBase WITH
        Events <- HWEvents, IoEvents <- HWEvents, Persist <- HWEvents,
        Prio <- [e \in HWEvents |-> 0], NPrio <- 1,
        MaxActs <- HWMaxActs, ActsPerPoll <- FALSE, MaxExits <- MaxSigs,
        MaxCalls <- Cardinality(Conns), Fd <- [e \in HWEvents |-> e],
        Dynamic <- {}

-----------------------------------------------------------------------------
(* main(), lines 53-79: event_base_new(), evconnlistener_new_bind() (which *)
(* adds the listener's event), evsignal_new() and event_add().  Any of    *)
(* them failing makes main() print and return 1.                           *)
MainSetup ==
  /\ phase = "init"
  /\ \/ /\ phase' = "setup"
        /\ pending' = {LevEv, SigEv}
     \/ /\ phase' = "failed"
        /\ UNCHANGED pending
  /\ UNCHANGED <<timed, activeq, exits, lstate, lflags, running, gotbreak,
                 gotterm, gotcont, acts, calls, delSinceAct, addedInCb,
                 iterPrio, conn, out, sent, peer, sigs, sigsSent, live>>

(* main(), line 81: event_base_dispatch(base) is event_base_loop(base, 0). *)
MainDispatch ==
  /\ phase = "setup"
  /\ phase' = "dispatch"
  /\ EB!LoopEnter({})
  /\ UNCHANGED <<conn, out, sent, peer, sigs, sigsSent, live>>

(* main(), lines 83-88, after the loop returned: evconnlistener_free(),   *)
(* event_free(signal_event), event_base_free().                           *)
MainShutdown ==
  /\ phase = "dispatch"
  /\ lstate = "idle"
  /\ phase' = "done"
  /\ pending' = pending \ {LevEv, SigEv}
  /\ activeq' = [p \in {0} |-> Remove(Remove(activeq[p], LevEv), SigEv)]
  /\ UNCHANGED <<timed, exits, lstate, lflags, running, gotbreak, gotterm,
                 gotcont, acts, calls, delSinceAct, addedInCb, iterPrio,
                 conn, out, sent, peer, sigs, sigsSent, live>>

-----------------------------------------------------------------------------
\* Mutant: bufferevent_free() that leaves the write event registered.
BevFreeKeepEvent(c) ==
  /\ conn' = [conn EXCEPT ![c] = "closed"]
  /\ UNCHANGED <<pending, timed, activeq, delSinceAct, live>>

(* bufferevent_free(bev) with BEV_OPT_CLOSE_ON_FREE: the bufferevent's    *)
(* events are deleted (event_del) and its socket is closed.               *)
BevFree(c) ==
  /\ conn' = [conn EXCEPT ![c] = "closed"]
  /\ pending' = pending \ {c}
  /\ timed' = timed \ {c}
  /\ activeq' = [p \in {0} |-> Remove(activeq[p], c)]
  /\ delSinceAct' = delSinceAct \cup {c}

(* bufferevent_enable(bev, EV_WRITE): the bufferevent's write event is   *)
(* added, whether or not its output holds anything.  The mutant leaves it *)
(* out.                                                                    *)
BevEnableWriteNoRegister(c) == pending' = pending

BevEnableWrite(c) == pending' = pending \cup {c}

\* bufferevent_write(bev, MESSAGE): MESSAGE is appended to the output.
BevWrite(c) == out' = [out EXCEPT ![c] = MsgLen]

(* The listener's read callback accepts connection c and calls            *)
(* listener_cb() (lines 92-111).  bufferevent_socket_new() failing: print, *)
(* event_base_loopbreak(), return (the accepted fd is left open).          *)
(* Otherwise setcb, enable(EV_WRITE), which adds the write event,          *)
(* disable(EV_READ) and bufferevent_write(MESSAGE), whose result is not   *)
(* checked: when it fails the output stays empty.                          *)
ListenerCb(c) ==
  /\ lstate = "callback" /\ running = LevEv
  /\ calls < Cardinality(Conns)
  /\ conn[c] = "backlog"
  /\ calls' = calls + 1
  /\ \/ /\ BevNewMayFail
        /\ conn' = [conn EXCEPT ![c] = "leaked"]
        /\ gotbreak' = TRUE
        /\ UNCHANGED <<pending, out>>
     \/ /\ conn' = [conn EXCEPT ![c] = "open"]
        /\ BevEnableWrite(c)
        /\ UNCHANGED gotbreak
        /\ \/ BevWrite(c)
           \/ WriteMayFail /\ UNCHANGED out
  /\ UNCHANGED <<timed, activeq, exits, lstate, lflags, running, gotterm,
                 gotcont, acts, delSinceAct, addedInCb, iterPrio, phase,
                 sent, peer, sigs, sigsSent, live>>

(* write() on the socket takes from one byte to all of the output; with   *)
(* the output empty nothing is written.  The mutant lets it take more than *)
(* is queued.                                                               *)
WriteAmountsPastEnd(c) == 1..MsgLen

WriteAmounts(c) == IF out[c] = 0 THEN {0} ELSE 1..out[c]

(* evbuffer_drain(output, k) after write() took k bytes; the mutant drains *)
(* the whole output on a partial write.                                     *)
DrainedAll(c, k) == 0

Drained(c, k) == out[c] - k

(* The write event of c's bufferevent fires: the socket is writable       *)
(* (bufferevent.h 349-350).  Up to the whole output is written; when the   *)
(* output is empty, written out now or empty from the start, the write    *)
(* event is unregistered and, the output being at the low watermark 0     *)
(* (138-139), the write callback conn_writecb() runs (lines 113-121): the  *)
(* length is 0, so it frees the bufferevent.  A write to a reset peer may  *)
(* instead fail:                                                            *)
(* the event callback conn_eventcb() (lines 123-135) gets                  *)
(* BEV_EVENT_ERROR|BEV_EVENT_WRITING and frees the bufferevent.            *)
WriteCb(c) ==
  /\ lstate = "callback" /\ running = c
  /\ calls = 0 /\ conn[c] = "open"
  /\ calls' = 1
  /\ \/ \E k \in WriteAmounts(c) :
          /\ out' = [out EXCEPT ![c] = Drained(c, k)]
          /\ sent' = [sent EXCEPT ![c] = @ + k]
          /\ IF out'[c] = 0 THEN BevFree(c)
             ELSE UNCHANGED <<conn, pending, timed, activeq, delSinceAct, live>>
     \/ /\ peer[c] = "reset" /\ out[c] > 0
        /\ BevFree(c)
        /\ UNCHANGED <<out, sent, live>>
  /\ UNCHANGED <<exits, lstate, lflags, running, gotbreak, gotterm, gotcont,
                 acts, addedInCb, iterPrio, phase, peer, sigs, sigsSent, live>>

\* Mutant: signal_cb() without its event_base_loopexit() call.
SignalCbNoExit ==
  /\ lstate = "callback" /\ running = SigEv
  /\ calls = 0
  /\ calls' = 1
  /\ sigs' = 0
  /\ UNCHANGED <<pending, timed, activeq, exits, lstate, lflags, running,
                 gotbreak, gotterm, gotcont, acts, delSinceAct, addedInCb,
                 iterPrio, phase, conn, out, sent, peer, sigsSent, live>>

(* The signal event fires; signal_cb() (lines 137-146) calls               *)
(* event_base_loopexit(base, {2, 0}).                                       *)
SignalCb ==
  /\ lstate = "callback" /\ running = SigEv
  /\ calls = 0
  /\ calls' = 1
  /\ sigs' = 0
  /\ exits < MaxSigs
  /\ exits' = exits + 1
  /\ UNCHANGED <<pending, timed, activeq, lstate, lflags, running, gotbreak,
                 gotterm, gotcont, acts, delSinceAct, addedInCb, iterPrio,
                 phase, conn, out, sent, peer, sigsSent, live>>

\* A callback returns once its handler has run.
HWEndCallback == calls > 0 /\ EB!EndCallback /\ UNCHANGED hwVars

-----------------------------------------------------------------------------
(* The environment: clients connect and may hang up; the user presses     *)
(* ctrl-c while the loop runs.                                             *)
ClientConnect(c) ==
  /\ phase \in {"setup", "dispatch"}
  /\ conn[c] = "none"
  /\ conn' = [conn EXCEPT ![c] = "backlog"]
  /\ UNCHANGED <<pending, timed, activeq, exits, lstate, lflags, running,
                 gotbreak, gotterm, gotcont, acts, calls, delSinceAct,
                 addedInCb, iterPrio, phase, out, sent, peer, sigs,
                 sigsSent, live>>

ClientReset(c) ==
  /\ conn[c] \in {"backlog", "open"}
  /\ peer[c] = "up"
  /\ peer' = [peer EXCEPT ![c] = "reset"]
  /\ UNCHANGED <<pending, timed, activeq, exits, lstate, lflags, running,
                 gotbreak, gotterm, gotcont, acts, calls, delSinceAct,
                 addedInCb, iterPrio, phase, conn, out, sent, sigs,
                 sigsSent, live>>

SigInt ==
  /\ phase = "dispatch"
  /\ sigsSent < MaxSigs
  /\ sigs' = sigs + 1
  /\ sigsSent' = sigsSent + 1
  /\ UNCHANGED <<pending, timed, activeq, exits, lstate, lflags, running,
                 gotbreak, gotterm, gotcont, acts, calls, delSinceAct,
                 addedInCb, iterPrio, phase, conn, out, sent, peer, live>>

-----------------------------------------------------------------------------
HWPoll == EB!Poll({e \in HWEvents : CanFire(e)}) /\ UNCHANGED hwVars

\* The reactor's own steps other than the poll and the callback return.
LoopInternal ==
  (EB!TopReturn \/ EB!BeginCallback \/ EB!ExitTimerCb \/ EB!DispatchBreak
   \/ EB!DispatchDone) /\ UNCHANGED hwVars

Handler ==
  \/ \E c \in Conns : ListenerCb(c)
  \/ \E c \in Conns : WriteCb(c)
  \/ SignalCb

Environment ==
  \/ \E c \in Conns : ClientConnect(c)
  \/ \E c \in Conns : ClientReset(c)
  \/ SigInt

Init ==
  /\ EB!EbInit
  /\ phase = "init"
  /\ conn = [c \in Conns |-> "none"]
  /\ out = [c \in Conns |-> 0]
  /\ sent = [c \in Conns |-> 0]
  /\ peer = [c \in Conns |-> "up"]
  /\ sigs = 0
  /\ sigsSent = 0

Next ==
  \/ MainSetup \/ MainDispatch \/ MainShutdown
  \/ HWPoll \/ LoopInternal \/ HWEndCallback
  \/ Handler
  \/ Environment

Spec == Init /\ [][Next]_vars

(* A poll that reports e ready: the kernel eventually reports a connection *)
(* waiting in the backlog, a caught signal, and room in a connected        *)
(* socket's send buffer (the client's kernel acknowledges what it gets).   *)
PollReady(e) == HWPoll /\ Contains(activeq'[0], e)

(* The loop thread is never preempted for good and its callbacks return;   *)
(* main() goes on after setup and after the loop; readiness is reported.   *)
(* The clients and the user (connect, reset, ctrl-c) are not fair.         *)
Fairness ==
  /\ WF_vars(MainSetup) /\ WF_vars(MainDispatch) /\ WF_vars(MainShutdown)
  /\ WF_vars(LoopInternal) /\ WF_vars(HWEndCallback)
  /\ WF_vars(Handler)
  /\ WF_vars(EB!ExpireExit /\ UNCHANGED hwVars)
  /\ WF_vars(EB!PollNow /\ UNCHANGED hwVars)
  /\ \A e \in HWEvents : WF_vars(PollReady(e))

FairSpec == Spec /\ Fairness

-----------------------------------------------------------------------------
TypeOK ==
  /\ EB!TypeOK
  /\ phase \in {"init", "setup", "dispatch", "done", "failed"}
  /\ conn \in [Conns -> {"none", "backlog", "open", "closed", "leaked"}]
  /\ out \in [Conns -> 0..MsgLen] /\ sent \in [Conns -> 0..MsgLen]
  /\ peer \in [Conns -> {"up", "reset"}]
  /\ sigs \in 0..MaxSigs /\ sigsSent \in 0..MaxSigs

(* The server's point: a client that never hangs up has been sent the     *)
(* whole MESSAGE when its connection is closed.  conn_writecb() frees the *)
(* bufferevent only at output length 0, and the socket write path drains *)
(* only what write() took, over as many writable callbacks as it needs.   *)
FullMessageBeforeClose ==
  \A c \in Conns : conn[c] = "closed" /\ peer[c] = "up" => sent[c] = MsgLen

(* Use after free: bufferevent_free() in conn_writecb()/conn_eventcb()     *)
(* deletes the bufferevent's persistent write event, so no callback of a   *)
(* freed bufferevent is ever dispatched afterwards.                        *)
NoCallbackAfterFree ==
  [][\A c \in Conns : EB!Starts /\ running' = c => conn[c] = "open"]_vars

(* Every client whose message bufferevent_write() queued is answered and  *)
(* closed while the loop runs: the write event enable(EV_WRITE) added keeps *)
(* conn_writecb() coming until the output is empty (lines 110-121), or the  *)
(* peer's reset reaches conn_eventcb() (lines 123-135).                    *)
EveryQueuedClientAnswered ==
  \A c \in Conns : (conn[c] = "open" /\ out[c] > 0) ~> (conn[c] = "closed" \/ lstate = "idle")

(* ctrl-c stops the server: after a SIGINT, signal_cb()'s loopexit timer   *)
(* expires, event_base_dispatch() returns and main() frees the base.       *)
SigintShutsDown == (sigs > 0) ~> (phase = "done")

(* spec section 3: every event owned by a base is freed before the base.  *)
(* When main() calls event_base_free() every accepted connection has been *)
(* closed.                                                                 *)
NoConnAtBaseFree ==
  phase = "done" => \A c \in Conns : conn[c] \notin {"open", "leaked"}

=============================================================================
