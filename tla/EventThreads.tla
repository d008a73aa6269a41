----------------------------- MODULE EventThreads -----------------------------
(***************************************************************************)
(* An event_base shared by two threads, as thread.h sets it up             *)
(* (evthread_use_pthreads(): a recursive base lock, a condition variable   *)
(* and a notify fd that wakes the loop from another thread).                *)
(*                                                                         *)
(* The "loop" thread runs event_base_dispatch().  It holds the base lock   *)
(* except while it blocks in the backend and while a callback runs; it      *)
(* publishes the event whose callback runs as the base's current event.    *)
(* The "worker" thread owns the events and their callback arguments: it    *)
(* activates them with event_active() and tears each one down the way      *)
(* event.h prescribes: an event built without EV_FINALIZE with event_del() *)
(* (which blocks while the callback runs in the loop thread) and then a     *)
(* free() of its argument; an event built with EV_FINALIZE with             *)
(* event_finalize(), whose finalize callback frees the argument in the     *)
(* loop.  Every base call of the worker takes the base lock, does its work *)
(* and releases it (or waits on the condition), so it is one step here.    *)
(***************************************************************************)
EXTENDS Naturals, Sequences, FiniteSets, SequencesExt

CONSTANTS
  Events,       \* the struct event objects, all EV_READ|EV_PERSIST
  FinalizeFlag, \* those constructed with EV_FINALIZE
  NoEv,         \* base->current_event when no callback runs
  Notifiable,   \* evthread_make_base_notifiable() succeeded
  MaxActive,    \* bound on event_active() calls per event
  MaxReady      \* bound on the times an fd becomes readable

ASSUME /\ FinalizeFlag \subseteq Events /\ NoEv \notin Events
       /\ Notifiable \in BOOLEAN /\ {MaxActive, MaxReady} \subseteq Nat

Threads == {"loop", "worker"}

\* An entry of the active queue: the event's callback, or its finalizer.
Entries == [ev : Events, fin : BOOLEAN]

VARIABLES
  lock,      \* holder of the base lock: "none" or a thread
  lpc,       \* loop thread: "dispatch" (lock held), "poll", "callback",
             \* "delself", "cbdone", "done" (event_base_dispatch returned),
             \* "freed" (the thread then called event_base_free)
  cur,       \* the entry whose callback the loop thread runs
  running,   \* base->current_event, read by event_del in other threads
  pending,   \* events added and not deleted
  activeq,   \* the active queue
  notified,  \* a wake-up byte is unread in the notify fd
  ready,     \* pending events whose fd is readable and not yet polled
  readies,   \* fds made readable so far
  wwait,     \* worker: event whose callback it waits for in event_del
  wst,       \* worker's teardown of each event
  pokes,     \* event_active() calls per event
  finalized, \* events passed to event_finalize()
  argFreed,  \* events whose callback argument has been freed
  applock    \* holder of the application's lock on the callback arguments

vars == <<lock, lpc, cur, running, pending, activeq, notified, ready, readies,
          wwait, wst, pokes, finalized, argFreed, applock>>

UsesFinalize(e) == e \in FinalizeFlag

\* Mutant: event_active() does not see that e is already active.
QueuedNever(e) == FALSE

Queued(e) == \E i \in 1..Len(activeq) : activeq[i].ev = e

\* The active queue without the entries of e (event_del takes e off it).
Unqueue(e) == SelectSeq(activeq, LAMBDA x : x.ev # e)

\* Mutant: event_del() ignores EVLIST_FINALIZING and unqueues the finalizer.
DelQueueIgnoringFinalize(e) == Unqueue(e)

\* The active queue after event_del(e): a no-op once e has been finalized,
\* which keeps its finalizer queued.
DelQueue(e) == IF e \in finalized THEN activeq ELSE Unqueue(e)

(* The caller is the thread running the loop: its id, given by the        *)
(* function of evthread_set_id_callback(), is the loop's.                  *)
InLoopThread(th) == th = "loop"

\* Mutant: the EV_FINALIZE test inverted.
MustWaitFlagInverted(e, th) == running = e /\ ~InLoopThread(th) /\ e \in FinalizeFlag

\* event_del() waits for the callback of e only if that callback is running,
\* in another thread, and e was built without EV_FINALIZE.
MustWait(e, th) == running = e /\ ~InLoopThread(th) /\ e \notin FinalizeFlag

\* evthread_notify_base(): a call from another thread while the loop runs
\* writes a byte to the notify fd (at most one is unread).
Notified == notified \/ (Notifiable /\ lpc # "done")

Init ==
  /\ lock = "loop" /\ lpc = "dispatch"
  /\ cur = [ev |-> CHOOSE e \in Events : TRUE, fin |-> FALSE]
  /\ running = NoEv /\ pending = Events /\ activeq = <<>>
  /\ notified = FALSE /\ ready = {} /\ readies = 0
  /\ wwait = NoEv /\ wst = [e \in Events |-> "live"]
  /\ pokes = [e \in Events |-> 0]
  /\ finalized = {} /\ argFreed = {} /\ applock = "none"

-----------------------------------------------------------------------------
(* The loop thread. *)

\* With the lock held: run the next active callback (publishing it as the
\* current event and releasing the lock), or return when no event is left,
\* or release the lock and block in the backend.
LoopDispatch ==
  /\ lpc = "dispatch"
  /\ IF activeq # <<>>
       THEN /\ cur' = Head(activeq) /\ running' = Head(activeq).ev
            /\ activeq' = Tail(activeq)
            /\ lpc' = "callback"
       ELSE /\ lpc' = IF pending = {} THEN "done" ELSE "poll"
            /\ UNCHANGED <<cur, running, activeq, applock>>
  /\ lock' = "none"
  /\ UNCHANGED <<pending, notified, ready, readies, wwait, wst, pokes,
                 finalized, argFreed, applock>>

\* The backend returns: a readable fd activates its event, a byte in the
\* notify fd is drained.  The loop re-takes the lock.
LoopWake ==
  /\ lpc = "poll" /\ lock = "none"
  /\ notified \/ ready \cap pending # {}
  /\ LET new == {e \in ready \cap pending : ~Queued(e)}
     IN activeq' = activeq \o SetToSeq([ev : new, fin : {FALSE}])
  /\ ready' = ready \ pending
  /\ notified' = FALSE
  /\ lock' = "loop" /\ lpc' = "dispatch"
  /\ UNCHANGED <<cur, running, pending, readies, wwait, wst, pokes,
                 finalized, argFreed, applock>>

\* The callback body.  It works on its argument under the application's
\* lock, so it cannot run while the worker holds that lock.  An event
\* callback may delete its own event; a finalize callback frees the
\* argument it was given.
CallbackBody ==
  /\ lpc = "callback" /\ applock = "none"
  /\ IF cur.fin
       THEN /\ argFreed' = argFreed \cup {cur.ev} /\ lpc' = "cbdone"
       ELSE /\ lpc' \in {"delself", "cbdone"} /\ UNCHANGED argFreed
  /\ UNCHANGED <<lock, cur, running, pending, activeq, notified, ready,
                 readies, wwait, wst, pokes, finalized, applock>>

\* event_del() called by a callback on its own event, in the loop thread.
DelSelf ==
  /\ lpc = "delself" /\ lock = "none"
  /\ ~MustWait(cur.ev, "loop")
  /\ pending' = pending \ {cur.ev}
  /\ activeq' = DelQueue(cur.ev)
  /\ lpc' = "cbdone"
  /\ UNCHANGED <<lock, cur, running, notified, ready, readies, wwait, wst,
                 pokes, finalized, argFreed, applock>>

\* The callback returned: the loop re-takes the lock, clears the current
\* event and broadcasts to the threads waiting in event_del().
CallbackDone ==
  /\ lpc = "cbdone" /\ lock = "none"
  /\ running' = NoEv
  /\ lock' = "loop" /\ lpc' = "dispatch"
  /\ UNCHANGED <<cur, pending, activeq, notified, ready, readies, wwait, wst,
                 pokes, finalized, argFreed, applock>>

\* After event_base_dispatch() returned and the worker has been joined, the
\* main thread calls event_base_free(), which runs the finalizers still
\* queued (event_finalize() after the loop had returned queues one).
BaseFree ==
  /\ lpc = "done" /\ \A e \in Events : wst[e] \in {"finalizing", "freed"}
  /\ argFreed' = argFreed \cup {activeq[i].ev : i \in {j \in 1..Len(activeq) : activeq[j].fin}}
  /\ activeq' = <<>>
  /\ lpc' = "freed"
  /\ UNCHANGED <<lock, cur, running, pending, notified, ready, readies, wwait,
                 wst, pokes, finalized, applock>>

-----------------------------------------------------------------------------
(* The worker thread.  It makes no call while it waits in event_del(). *)

WorkerFree == wwait = NoEv /\ lock = "none"

\* event_active(): a no-op on a finalized event and on one already active;
\* only an insertion into the active queue wakes the loop.
WActive(e) ==
  /\ WorkerFree
  /\ wst[e] \in {"live", "finalizing"} /\ pokes[e] < MaxActive
  /\ pokes' = [pokes EXCEPT ![e] = @ + 1]
  /\ IF e \notin finalized /\ ~Queued(e)
       THEN activeq' = Append(activeq, [ev |-> e, fin |-> FALSE])
            /\ notified' = Notified
       ELSE UNCHANGED <<activeq, notified>>
  /\ UNCHANGED <<lock, lpc, cur, running, pending, ready, readies, wwait, wst,
                 finalized, argFreed, applock>>

\* Mutant: the worker calls event_del() while it holds the application's
\* lock.
WDelHoldingAppLock(e) ==
  /\ WorkerFree
  /\ ~UsesFinalize(e) /\ wst[e] = "live"
  /\ pending' = pending \ {e}
  /\ activeq' = DelQueue(e)
  /\ notified' = IF e \in pending THEN Notified ELSE notified
  /\ IF MustWait(e, "worker")
       THEN wwait' = e /\ UNCHANGED wst
       ELSE wst' = [wst EXCEPT ![e] = "deleted"] /\ UNCHANGED wwait
  /\ UNCHANGED <<lock, lpc, cur, running, ready, readies, pokes, finalized,
                 argFreed, applock>>

\* event_del(): take e off the pending set and the active queue, wake the
\* loop if e was added (the backend's set changed), and wait on the condition (releasing the lock) while e's callback
\* runs in the loop thread.
WDel(e) ==
  /\ WorkerFree /\ applock = "none"
  /\ ~UsesFinalize(e) /\ wst[e] = "live"
  /\ pending' = pending \ {e}
  /\ activeq' = DelQueue(e)
  /\ notified' = IF e \in pending THEN Notified ELSE notified
  /\ IF MustWait(e, "worker")
       THEN wwait' = e /\ UNCHANGED wst
       ELSE wst' = [wst EXCEPT ![e] = "deleted"] /\ UNCHANGED wwait
  /\ UNCHANGED <<lock, lpc, cur, running, ready, readies, pokes, finalized,
                 argFreed, applock>>

\* Woken by the broadcast: re-take the lock; event_del() returns once the
\* callback is no longer the current event.
WWake ==
  /\ wwait # NoEv /\ lock = "none"
  /\ running # wwait
  /\ wst' = [wst EXCEPT ![wwait] = "deleted"]
  /\ wwait' = NoEv
  /\ UNCHANGED <<lock, lpc, cur, running, pending, activeq, notified, ready,
                 readies, pokes, finalized, argFreed, applock>>

\* After event_del() has returned the worker frees the callback argument.
WFree(e) ==
  /\ wwait = NoEv /\ wst[e] = "deleted"
  /\ argFreed' = argFreed \cup {e}
  /\ wst' = [wst EXCEPT ![e] = "freed"]
  /\ UNCHANGED <<lock, lpc, cur, running, pending, activeq, notified, ready,
                 readies, wwait, pokes, finalized, applock>>

\* event_finalize(): delete e without blocking, then queue its finalizer
\* to run in the loop after whatever callback of e runs now.
WFinalize(e) ==
  /\ WorkerFree /\ applock = "worker"
  /\ UsesFinalize(e) /\ wst[e] = "live"
  /\ finalized' = finalized \cup {e}
  /\ pending' = pending \ {e}
  /\ activeq' = Append(Unqueue(e), [ev |-> e, fin |-> TRUE])
  /\ notified' = Notified
  /\ wst' = [wst EXCEPT ![e] = "finalizing"]
  /\ UNCHANGED <<lock, lpc, cur, running, ready, readies, wwait, pokes,
                 argFreed, applock>>

(* The worker stops the callbacks' use of an argument with the            *)
(* application's lock and tears the EV_FINALIZE event down while holding  *)
(* it: event_finalize() does not wait for a running callback, which is     *)
(* what EV_FINALIZE is for (event.h 1096-1104).  It never holds the lock   *)
(* across event_del(), which would wait for a callback that waits for the *)
(* lock.                                                                   *)
WLockApp ==
  /\ WorkerFree /\ applock = "none"
  /\ \E e \in FinalizeFlag : wst[e] = "live"
  /\ applock' = "worker"
  /\ UNCHANGED <<lock, lpc, cur, running, pending, activeq, notified, ready,
                 readies, wwait, wst, pokes, finalized, argFreed>>

WUnlockApp ==
  /\ applock = "worker" /\ wwait = NoEv
  /\ \A e \in FinalizeFlag : wst[e] # "live"
  /\ applock' = "none"
  /\ UNCHANGED <<lock, lpc, cur, running, pending, activeq, notified, ready,
                 readies, wwait, wst, pokes, finalized, argFreed>>

-----------------------------------------------------------------------------
(* The peer: an fd of a pending event becomes readable. *)

FdReady(e) ==
  /\ e \in pending \ ready /\ readies < MaxReady
  /\ ready' = ready \cup {e}
  /\ readies' = readies + 1
  /\ UNCHANGED <<lock, lpc, cur, running, pending, activeq, notified, wwait,
                 wst, pokes, finalized, argFreed, applock>>

LoopStep == LoopDispatch \/ LoopWake \/ CallbackBody \/ DelSelf \/ CallbackDone
            \/ BaseFree

WorkerStep == WWake \/ WLockApp \/ WUnlockApp \/ \E e \in Events : WActive(e) \/ WDel(e) \/ WFree(e)
                                         \/ WFinalize(e)

Next == LoopStep \/ WorkerStep \/ \E e \in Events : FdReady(e)

Spec == Init /\ [][Next]_vars

\* Both threads are scheduled, and a thread that keeps trying to take the
\* base lock eventually gets it.  The peer owes nothing.
FairSpec == Spec /\ SF_vars(LoopStep) /\ SF_vars(WorkerStep)

-----------------------------------------------------------------------------

\* The type of every variable; an event sits on the active queue at most once.
TypeOK ==
  /\ lock \in {"none"} \cup Threads
  /\ lpc \in {"dispatch", "poll", "callback", "delself", "cbdone", "done", "freed"}
  /\ cur \in Entries /\ running \in Events \cup {NoEv}
  /\ pending \subseteq Events
  \* the active queue holds an event at most once (EVLIST_ACTIVE)
  /\ activeq \in Seq(Entries) /\ IsInjective([i \in 1..Len(activeq) |-> activeq[i].ev])
  /\ notified \in BOOLEAN /\ ready \subseteq Events /\ readies \in 0..MaxReady
  /\ wwait \in Events \cup {NoEv}
  /\ wst \in [Events -> {"live", "deleted", "finalizing", "freed"}]
  /\ pokes \in [Events -> 0..MaxActive]
  /\ finalized \subseteq Events /\ argFreed \subseteq Events
  /\ applock \in {"none", "worker"}

\* No event callback runs with an argument the application has freed:
\* neither after event_del() returned in the worker, nor after the
\* event's finalize callback ran in the loop.
NoCallbackOnFreedArg ==
  lpc \in {"callback", "delself"} /\ ~cur.fin => cur.ev \notin argFreed

\* Both teardowns complete and every argument is freed: event_base_dispatch()
\* returns once nothing is left on the base, and a finalizer queued after
\* that runs in event_base_free().
EverythingTornDown == <>(lpc = "freed" /\ argFreed = Events)

=============================================================================
