------------------------------ MODULE EventBase ------------------------------
(***************************************************************************)
(* The reactor: one event_base, the events registered on it, its active   *)
(* queues (one per priority) and the dispatch loop event_base_loop() with *)
(* the loop-control calls loopbreak / loopcontinue / loopexit.            *)
(*                                                                         *)
(* The loop runs on one thread.  After each poll it runs the callbacks of  *)
(* the most urgent non-empty active queue, one at a time, and then polls   *)
(* again before it looks at less urgent ones (event.h 1699-1703); a callback *)
(* runs to completion and, while it runs, may call back into the base      *)
(* (event_add, event_del, event_active, the loop controls).  Those calls   *)
(* are the actions guarded by lstate = "callback".  Outside the loop       *)
(* (lstate = "idle") the owning thread makes the same calls.               *)
(*                                                                         *)
(* Time is abstract: a timeout "expires" at some poll, chosen by TLC.      *)
(* The events whose fd or signal is ready are the argument of Poll, given *)
(* by the module that composes this one with its environment.            *)
(***************************************************************************)
EXTENDS Naturals, Sequences, FiniteSets, SequencesExt

CONSTANTS
  Events,      \* the struct event objects created on this base
  IoEvents,    \* those watching an fd or a signal (EV_READ/EV_WRITE/EV_SIGNAL)
  Persist,     \* those created with EV_PERSIST
  Prio,        \* Prio[e] \in 0..NPrio-1, 0 the most urgent
  NPrio,       \* number of active queues (event_base_priority_init)
  ExitEv,      \* the one-shot internal timer event_base_loopexit() schedules
  NoEvent,     \* "no callback running"
  MaxActs,     \* bound on activations: per behaviour, or per iteration
  ActsPerPoll, \* TRUE: the MaxActs budget is renewed at every poll
  MaxExits,    \* bound on loopexit timers scheduled and not yet fired
  MaxCalls,    \* bound on the calls one callback makes into the base
  Fd,          \* Fd[e]: the fd or signal number an I/O event watches
  Dynamic      \* events the program makes and frees while the base runs

ASSUME /\ IoEvents \subseteq Events /\ Persist \subseteq Events
       /\ NPrio \in Nat \ {0} /\ Prio \in [Events -> 0..NPrio-1]
       /\ ExitEv \notin Events /\ NoEvent \notin Events \cup {ExitEv}
       /\ {MaxActs, MaxExits, MaxCalls} \subseteq Nat /\ ActsPerPoll \in BOOLEAN
       /\ DOMAIN Fd = IoEvents /\ Dynamic \subseteq Events

VARIABLES
  pending,     \* events added (event_add) and not deleted: event_pending()
  timed,       \* pending events that have a timeout scheduled
  activeq,     \* activeq[p]: FIFO of active events of priority p
  exits,       \* loopexit timers scheduled and not yet expired
  lstate,      \* "idle" (no loop running), "top", "dispatch", "callback"
  lflags,      \* the flags of the running event_base_loop() call
  running,     \* event whose callback runs (event_base_get_running_event)
  gotbreak,    \* event_break: set by loopbreak, cleared on loop entry
  gotterm,     \* event_gotterm: set by the loopexit timer, cleared on entry
  gotcont,     \* event_continue: set by loopcontinue while the loop runs
  acts,        \* activations so far (since the latest poll if ActsPerPoll)
  calls,       \* calls the running callback has made into the base
  \* history variables, read only by the properties
  delSinceAct, \* events deleted after their latest activation
  addedInCb,   \* events (re-)added by the running callback
  iterPrio,    \* {p}: the queue this iteration runs, once its first callback ran
  live         \* events made (event_new / event_assign) and not freed

ebVars == <<pending, timed, activeq, exits, lstate, lflags, running, gotbreak,
            gotterm, gotcont, acts, calls, delSinceAct, addedInCb, iterPrio,
            live>>

Prios == 0..NPrio-1

\* By default every event gets the middle priority; so does the loopexit timer.
DefaultPrio == NPrio \div 2

\* EVLOOP_ONCE and EVLOOP_NONBLOCK as flag sets an event_base_loop() call takes.
LoopFlagSets == {{}, {"once"}, {"nonblock"}}

Queued(e) == \E p \in Prios : Contains(activeq[p], e)

NoActive == \A p \in Prios : activeq[p] = <<>>

\* The most urgent non-empty active queue.
TopPrio == CHOOSE p \in Prios : activeq[p] # <<>> /\ \A q \in 0..p-1 : activeq[q] = <<>>

(* The queue an iteration runs: the most urgent non-empty one after the    *)
(* poll, kept until it is empty; callbacks activated meanwhile at another  *)
(* priority wait for the next iteration (event.h 1699-1703).               *)
RunPrio == IF iterPrio = {} THEN TopPrio ELSE CHOOSE p \in iterPrio : TRUE

MoreToRun == IF iterPrio = {} THEN ~NoActive ELSE activeq[RunPrio] # <<>>

\* event_haveevents(): nothing added, nothing active, no loopexit timer.
NoEventsLeft == pending = {} /\ NoActive /\ exits = 0

-----------------------------------------------------------------------------
(* Activation (event_active_nolock): the events of the sequence ord that   *)
(* are not already active are appended, in order, to the queue of their    *)
(* priority, followed by n loopexit timers at the default priority; an     *)
(* event already active keeps its place (its result flags are merged).     *)
(* Pending state is left alone: it changes when the activation is         *)
(* dispatched (BeginCallback).                                             *)
Enqueue(ord, n) ==
  [p \in Prios |->
     activeq[p] \o SelectSeq(ord, LAMBDA e : Prio[e] = p /\ ~Queued(e))
                \o (IF p = DefaultPrio THEN [i \in 1..n |-> ExitEv] ELSE <<>>)]

Activate(ord, n) ==
  LET fired == ToSet(ord) IN
  /\ activeq' = Enqueue(ord, n)
  /\ delSinceAct' = delSinceAct \ fired

\* The loop thread may call into the base from a callback, or the owning
\* thread while no loop runs.
CanCall == \/ lstate = "idle"
           \/ lstate = "callback" /\ calls < MaxCalls

CountCall == calls' = IF lstate = "callback" THEN calls + 1 ELSE calls

-----------------------------------------------------------------------------
(* A timer: made with evtimer_new / evtimer_assign (event.h 1120-1135),   *)
(* that is event_new(b, -1, 0, cb, arg): no fd, so only its timeout or     *)
(* event_active() makes it active.                                         *)
IsTimer(e) == e \notin IoEvents

(* event_add(ev, tv): make ev pending; a non-NULL tv (re)schedules its     *)
(* timeout, a NULL tv keeps the one it has.  A timer is only added with a  *)
(* timeout (evtimer_add; otherwise nothing could ever activate it).        *)
EvAdd(e, tmo) ==
  /\ CanCall
  /\ e \in live
  /\ tmo \/ ~IsTimer(e)
  /\ pending' = pending \cup {e}
  /\ timed' = IF tmo THEN timed \cup {e} ELSE timed
  /\ addedInCb' = IF lstate = "callback" THEN addedInCb \cup {e} ELSE addedInCb
  /\ CountCall
  /\ UNCHANGED <<activeq, exits, lstate, lflags, running, gotbreak, gotterm,
                 gotcont, acts, delSinceAct, iterPrio, live>>

(* Mutants of event_del(): the timeout stays scheduled; the event stays in *)
(* its active queue.                                                       *)
EvDelKeepTimer(e) ==
  /\ CanCall
  /\ e \in live
  /\ pending' = pending \ {e}
  /\ activeq' = [p \in Prios |-> Remove(activeq[p], e)]
  /\ delSinceAct' = delSinceAct \cup {e}
  /\ addedInCb' = addedInCb \ {e}
  /\ CountCall
  /\ UNCHANGED <<timed, exits, lstate, lflags, running, gotbreak, gotterm,
                 gotcont, acts, iterPrio, live>>

EvDelKeepActive(e) ==
  /\ CanCall
  /\ e \in live
  /\ pending' = pending \ {e}
  /\ timed' = timed \ {e}
  /\ delSinceAct' = delSinceAct \cup {e}
  /\ addedInCb' = addedInCb \ {e}
  /\ CountCall
  /\ UNCHANGED <<activeq, exits, lstate, lflags, running, gotbreak, gotterm,
                 gotcont, acts, iterPrio, live>>

(* event_del(ev): ev stops being pending, loses its timeout and, if it is  *)
(* active, leaves its active queue.                                        *)
EvDel(e) ==
  /\ CanCall
  /\ e \in live
  /\ pending' = pending \ {e}
  /\ timed' = timed \ {e}
  /\ activeq' = [p \in Prios |-> Remove(activeq[p], e)]
  /\ delSinceAct' = delSinceAct \cup {e}
  /\ addedInCb' = addedInCb \ {e}
  /\ CountCall
  /\ UNCHANGED <<exits, lstate, lflags, running, gotbreak, gotterm, gotcont,
                 acts, iterPrio, live>>

(* event_new(base, fd, events, cb, arg), event.h 1210-1272, and          *)
(* event_assign() on memory the program owns, 1274-1323: a struct event   *)
(* ready to be added, neither pending nor active.  A live event is only   *)
(* re-assigned while it is neither pending nor active, and then with the   *)
(* same arguments here, which changes nothing the base keeps.             *)
EvNew(e) ==
  /\ CanCall
  /\ e \in Dynamic \ live
  /\ live' = live \cup {e}
  /\ CountCall
  /\ UNCHANGED <<pending, timed, activeq, exits, lstate, lflags, running,
                 gotbreak, gotterm, gotcont, acts, delSinceAct, addedInCb,
                 iterPrio>>

(* Mutant of event_free(): the event is released without being taken out *)
(* of its active queue.                                                    *)
EvFreeKeepActive(e) ==
  /\ CanCall
  /\ e \in live \cap Dynamic
  /\ pending' = pending \ {e}
  /\ timed' = timed \ {e}
  /\ delSinceAct' = delSinceAct \cup {e}
  /\ addedInCb' = addedInCb \ {e}
  /\ live' = live \ {e}
  /\ CountCall
  /\ UNCHANGED <<activeq, exits, lstate, lflags, running, gotbreak, gotterm,
                 gotcont, acts, iterPrio>>

(* event_free(ev), event.h 1326-1334: if ev is pending or active it is     *)
(* made non-pending and non-active first (as by event_del), then the       *)
(* struct is released.  A callback may free its own event.                 *)
EvFree(e) ==
  /\ CanCall
  /\ e \in live \cap Dynamic
  /\ pending' = pending \ {e}
  /\ timed' = timed \ {e}
  /\ activeq' = [p \in Prios |-> Remove(activeq[p], e)]
  /\ delSinceAct' = delSinceAct \cup {e}
  /\ addedInCb' = addedInCb \ {e}
  /\ live' = live \ {e}
  /\ CountCall
  /\ UNCHANGED <<exits, lstate, lflags, running, gotbreak, gotterm, gotcont,
                 acts, iterPrio>>

(* event_remove_timer(ev): unschedule the timeout, leave ev pending.      *)
EvRemoveTimer(e) ==
  /\ CanCall
  /\ e \in live
  /\ e \in pending
  /\ timed' = timed \ {e}
  /\ CountCall
  /\ UNCHANGED <<pending, activeq, exits, lstate, lflags, running, gotbreak,
                 gotterm, gotcont, acts, delSinceAct, addedInCb, iterPrio, live>>

(* event_active(ev, res, 0): make ev active whether or not it is pending. *)
EvActive(e) ==
  /\ CanCall
  /\ e \in live
  /\ acts < MaxActs
  /\ Activate(<<e>>, 0)
  /\ acts' = acts + 1
  /\ CountCall
  /\ UNCHANGED <<pending, timed, exits, lstate, lflags, running, gotbreak,
                 gotterm, gotcont, addedInCb, iterPrio, live>>

(* event_base_active_by_fd(base, fd, events) and                          *)
(* event_base_active_by_signal(base, sig), event.h 1817-1845: every       *)
(* pending event on fd (or sig) becomes active, in some order; events not *)
(* added do not.                                                           *)
ActiveByFd(fd) ==
  LET hit == {e \in pending \cap IoEvents : Fd[e] = fd} IN
  /\ CanCall
  /\ hit # {}
  /\ acts + Cardinality(hit) <= MaxActs
  /\ \E ord \in SetToSeqs(hit) : Activate(ord, 0)
  /\ acts' = acts + Cardinality(hit)
  /\ CountCall
  /\ UNCHANGED <<pending, timed, exits, lstate, lflags, running, gotbreak,
                 gotterm, gotcont, addedInCb, iterPrio, live>>

(* event_base_loopbreak(): set event_break, whether or not a loop runs.   *)
LoopBreak ==
  /\ CanCall
  /\ gotbreak' = TRUE
  /\ CountCall
  /\ UNCHANGED <<pending, timed, activeq, exits, lstate, lflags, running,
                 gotterm, gotcont, acts, delSinceAct, addedInCb, iterPrio, live>>

(* event_base_loopcontinue(): restart the running loop after the current  *)
(* callback; no effect when no loop runs (so only callbacks call it here). *)
LoopContinue ==
  /\ lstate = "callback" /\ calls < MaxCalls
  /\ gotcont' = TRUE
  /\ calls' = calls + 1
  /\ UNCHANGED <<pending, timed, activeq, exits, lstate, lflags, running,
                 gotbreak, gotterm, acts, delSinceAct, addedInCb, iterPrio, live>>

(* event_base_loopexit(base, tv): schedule a one-shot internal timer whose *)
(* callback sets event_gotterm.                                            *)
LoopExit ==
  /\ CanCall
  /\ exits < MaxExits
  /\ exits' = exits + 1
  /\ CountCall
  /\ UNCHANGED <<pending, timed, activeq, lstate, lflags, running, gotbreak,
                 gotterm, gotcont, acts, delSinceAct, addedInCb, iterPrio, live>>

-----------------------------------------------------------------------------
(* event_base_loop(base, flags), entry: clear event_gotterm and           *)
(* event_break (got_exit / got_break stay true until this point).          *)
LoopEnter(f) ==
  /\ lstate = "idle"
  /\ lstate' = "top"
  /\ lflags' = f
  /\ gotbreak' = FALSE
  /\ gotterm' = FALSE
  /\ UNCHANGED <<pending, timed, activeq, exits, running, gotcont, acts, calls,
                 delSinceAct, addedInCb, iterPrio, live>>

(* Leave event_base_loop(): on break, on exit, or with nothing left.       *)
LoopReturn ==
  /\ lstate' = "idle"
  /\ gotcont' = FALSE
  /\ UNCHANGED <<pending, timed, activeq, exits, lflags, running, gotbreak,
                 gotterm, acts, calls, delSinceAct, addedInCb, iterPrio, live>>

(* Top of an iteration: return if event_break or event_gotterm is set, or *)
(* with 1 when no event is left.                                           *)
TopReturn ==
  /\ lstate = "top"
  /\ gotbreak \/ gotterm \/ NoEventsLeft
  /\ LoopReturn

\* The activations the budget has already spent when a poll starts.
ActsBefore == IF ActsPerPoll THEN 0 ELSE acts

(* Poll: the backend's wait() reports the ready fds among the pending I/O  *)
(* events (io, any order), then the expired timers are activated (tm, any *)
(* order) and n loopexit timers expire.  Unless EVLOOP_NONBLOCK is given   *)
(* or an event is already active, wait() blocks until something fires.    *)
PollWith(io, tm, n) ==
  /\ lstate = "top"
  /\ ~gotbreak /\ ~gotterm /\ ~NoEventsLeft
  /\ n \in 0..exits
  /\ ActsBefore + Len(io) + Len(tm) <= MaxActs
  /\ "nonblock" \in lflags \/ ~NoActive \/ io \o tm # <<>> \/ n > 0
  /\ Activate(io \o tm, n)
  /\ exits' = exits - n
  /\ acts' = ActsBefore + Len(io) + Len(tm)
  /\ lstate' = "dispatch"
  /\ iterPrio' = {}
  /\ gotcont' = FALSE
  /\ UNCHANGED <<pending, timed, lflags, running, gotbreak, gotterm, calls,
                 addedInCb, live>>

Poll(ready) ==
  \E R \in SUBSET (pending \cap IoEvents \cap ready) :
  \E T \in SUBSET (timed \ R) :
  \E io \in SetToSeqs(R), tm \in SetToSeqs(T), n \in 0..exits :
     PollWith(io, tm, n)

(* Dispatch: pop the head of the queue this iteration runs and start its  *)
(* callback; never once event_break is set.  A non-persistent event stops  *)
(* being pending and loses its timeout just before its callback runs, so   *)
(* the callback may re-add it.                                             *)
BeginCallback ==
  /\ lstate = "dispatch"
  /\ ~gotbreak
  /\ MoreToRun
  /\ Head(activeq[RunPrio]) # ExitEv
  /\ running' = Head(activeq[RunPrio])
  /\ activeq' = [activeq EXCEPT ![RunPrio] = Tail(@)]
  /\ lstate' = "callback"
  /\ calls' = 0
  /\ addedInCb' = {}
  /\ iterPrio' = {RunPrio}
  /\ pending' = IF running' \in Persist THEN pending ELSE pending \ {running'}
  /\ timed' = IF running' \in Persist THEN timed ELSE timed \ {running'}
  /\ UNCHANGED <<exits, lflags, gotbreak, gotterm, gotcont, acts,
                 delSinceAct, live>>

(* event_loopexit_cb: the internal loopexit timer's callback.              *)
ExitTimerCb ==
  /\ lstate = "dispatch"
  /\ ~gotbreak
  /\ MoreToRun
  /\ Head(activeq[RunPrio]) = ExitEv
  /\ activeq' = [activeq EXCEPT ![RunPrio] = Tail(@)]
  /\ gotterm' = TRUE
  /\ iterPrio' = {RunPrio}
  /\ UNCHANGED <<pending, timed, exits, lstate, lflags, running, gotbreak,
                 gotcont, acts, calls, delSinceAct, addedInCb, live>>

(* Mutant: a non-persistent event is made non-pending after its callback  *)
(* instead of when it is dispatched (the post-callback wording of spec.md *)
(* 4.3 step 6).                                                            *)
EndCallbackDropsRunning ==
  /\ lstate = "callback"
  /\ lstate' = IF gotcont THEN "top" ELSE "dispatch"
  /\ gotcont' = FALSE
  /\ running' = NoEvent
  /\ pending' = IF running \notin Persist THEN pending \ {running} ELSE pending
  /\ timed' = IF running \notin Persist THEN timed \ {running} ELSE timed
  /\ UNCHANGED <<activeq, exits, lflags, gotbreak, gotterm, acts, calls,
                 delSinceAct, addedInCb, iterPrio, live>>

(* The callback returns.  After it, event_continue sends the loop back to  *)
(* the poll.                                                                *)
EndCallback ==
  /\ lstate = "callback"
  /\ lstate' = IF gotcont THEN "top" ELSE "dispatch"
  /\ gotcont' = FALSE
  /\ running' = NoEvent
  /\ UNCHANGED <<pending, timed, activeq, exits, lflags, gotbreak, gotterm, acts,
                 calls, delSinceAct, addedInCb, iterPrio, live>>

(* event_break is checked after every callback: abort the loop.            *)
DispatchBreak ==
  /\ lstate = "dispatch"
  /\ gotbreak
  /\ LoopReturn

(* The queue of this iteration is empty: the loop checks again for more  *)
(* urgent events before running less urgent ones, so it polls again.      *)
(* EVLOOP_NONBLOCK returns after this one iteration, EVLOOP_ONCE once no  *)
(* event is active any more (event.h 929-935).                             *)
DispatchDone ==
  /\ lstate = "dispatch"
  /\ ~gotbreak
  /\ ~MoreToRun
  /\ IF "nonblock" \in lflags \/ ("once" \in lflags /\ NoActive) THEN LoopReturn
     ELSE /\ lstate' = "top"
          /\ UNCHANGED <<pending, timed, activeq, exits, lflags, running,
                         gotbreak, gotterm, gotcont, acts, calls, delSinceAct,
                         addedInCb, iterPrio, live>>

(* The steps of the loop thread itself, given the ready events.          *)
LoopStep(ready) ==
  \/ TopReturn
  \/ Poll(ready)
  \/ BeginCallback
  \/ ExitTimerCb
  \/ EndCallback
  \/ DispatchBreak
  \/ DispatchDone

(* The calls into the base, from a callback or from the owning thread.    *)
ApiCall ==
  \/ \E e \in Events, tmo \in BOOLEAN : EvAdd(e, tmo)
  \/ \E e \in Events : EvDel(e)
  \/ \E e \in Events : EvNew(e) \/ EvFree(e)
  \/ \E e \in Events : EvRemoveTimer(e)
  \/ \E e \in Events : EvActive(e)
  \/ \E fd \in {Fd[e] : e \in IoEvents} : ActiveByFd(fd)
  \/ LoopBreak
  \/ LoopContinue
  \/ LoopExit

EbInit ==
  /\ pending = {}
  /\ timed = {}
  /\ activeq = [p \in Prios |-> <<>>]
  /\ exits = 0
  /\ lstate = "idle"
  /\ lflags = {}
  /\ running = NoEvent
  /\ gotbreak = FALSE
  /\ gotterm = FALSE
  /\ gotcont = FALSE
  /\ acts = 0
  /\ calls = 0
  /\ delSinceAct = {}
  /\ addedInCb = {}
  /\ iterPrio = {}
  /\ live = Events \ Dynamic

-----------------------------------------------------------------------------
(* The base on its own: any fd or signal may become ready, callbacks make *)
(* any calls into the base.                                                *)
Next ==
  \/ \E f \in LoopFlagSets : LoopEnter(f)
  \/ LoopStep(Events)
  \/ ApiCall

Spec == EbInit /\ [][Next]_ebVars

(* A loopexit timer expires at the next poll once its delay has passed.   *)
ExpireExit == \E n \in 1..exits : PollWith(<<>>, <<>>, n)

(* With an event already active the wait has timeout zero and returns.    *)
PollNow == ~NoActive /\ PollWith(<<>>, <<>>, 0)

(* The loop thread is never preempted for good: each of its steps that    *)
(* stays enabled is taken; a callback returns; the monotonic clock        *)
(* advances, so a scheduled loopexit timer eventually expires; a wait     *)
(* with timeout zero returns.                                              *)
Fairness ==
  /\ WF_ebVars(TopReturn)
  /\ WF_ebVars(BeginCallback)
  /\ WF_ebVars(ExitTimerCb)
  /\ WF_ebVars(EndCallback)
  /\ WF_ebVars(DispatchBreak)
  /\ WF_ebVars(DispatchDone)
  /\ WF_ebVars(ExpireExit)
  /\ WF_ebVars(PollNow)

FairSpec == Spec /\ Fairness

-----------------------------------------------------------------------------
TypeOK ==
  /\ pending \subseteq Events
  /\ timed \subseteq pending
  /\ activeq \in [Prios -> Seq(Events \cup {ExitEv})]
  /\ exits \in 0..MaxExits
  /\ lstate \in {"idle", "top", "dispatch", "callback"}
  /\ lflags \in LoopFlagSets
  /\ running \in Events \cup {NoEvent}
  /\ (running = NoEvent) <=> (lstate # "callback")
  /\ {gotbreak, gotterm, gotcont} \subseteq BOOLEAN
  /\ acts \in 0..MaxActs /\ calls \in 0..MaxCalls
  /\ delSinceAct \subseteq Events /\ addedInCb \subseteq Events
  /\ iterPrio \subseteq Prios
  /\ live \subseteq Events

\* Starting a callback: the step from "dispatch" into "callback".
Starts == lstate = "dispatch" /\ lstate' = "callback"

(* event_del() cancels an active event: once an earlier callback of the   *)
(* same iteration deletes an event that the poll activated, that event's  *)
(* callback does not run (until it is activated again).                   *)
NoStaleCallback == [][Starts => running' \notin delSinceAct]_ebVars

(* event_free() leaves nothing of a freed event in the base: whether it   *)
(* was pending, had a timeout or had been activated by a poll earlier in  *)
(* the iteration (and freed by another event's callback before its own    *)
(* ran), it is neither pending nor in an active queue, so no poll, timer  *)
(* or dispatch can reach the released struct.                              *)
FreedEventsInert == \A e \in Events \ live : e \notin pending /\ ~Queued(e)

(* A non-persistent event whose callback re-adds it with event_add() is   *)
(* pending when the callback returns: the idiom the EV_PERSIST doc relies *)
(* on ("makes event_add() persistent until event_del()").                 *)
ReAddSticks ==
  [][(lstate = "callback" /\ lstate' # "callback" /\ running \in addedInCb)
       => running \in pending']_ebVars

\* A loopexit timer is scheduled or its callback is queued.
ExitPending == exits > 0 \/ \E p \in Prios : Contains(activeq[p], ExitEv)

(* event_base_loopexit(), event.h 969-985: the next iteration after its   *)
(* timer expires completes and the loop exits, so a running loop with a   *)
(* loopexit timer scheduled returns.  The timer is an event of the default *)
(* priority: its callback, which sets event_gotterm, runs only in an      *)
(* iteration whose most urgent active queue is that one.                  *)
LoopExitReturns == (ExitPending /\ lstate # "idle") ~> (lstate = "idle")

=============================================================================
