# TLA+ models of len_libevent

This directory holds TLA+ models of the libevent 2.1.12 reactor and of the example server
`src/libevent_test/hello-world.c` that uses it, together with the TLC configurations that check them.
The repository ships the libevent headers, which hold the API and its documented contracts, and one program.
It does not ship the library's `.c` files. So the library's behaviour is translated from the header
documentation, with `spec.md` as a cross-check, and the program is translated line by line.
`PROJECT.json` lists every definition with the source lines it models, every run, the mutants and the hazards.

## 1. The system (inventory)

| Part | Source | State | Operations | Status |
|---|---|---|---|---|
| event_base reactor | `event.h` | live events, pending set, timeouts, one active FIFO per priority, loop flags, `event_break`/`event_gotterm`/`event_continue` | `event_new`/`event_assign`, `event_free`, `event_add`, `event_del`, `event_remove_timer`, `event_active`, `event_base_active_by_fd`/`_by_signal`, `event_base_loop` (poll, dispatch, callbacks), `loopbreak`, `loopcontinue`, `loopexit` | EventBase (partly) |
| timers | `event.h` | min-heap of deadlines | expire on a poll | abstract time in EventBase |
| signal bridge | `event.h` (`evsignal_new`) | caught signal count | signal event becomes ready | SigEv in HelloWorld |
| I/O backends | not in repo | kernel readiness | `wait()` | nondeterministic readiness (`CanFire`) |
| evbuffer | `buffer.h` | chain of owned and lent chunks, freeze flags, deferred callback info | add, add_reference, prepend, drain, remove, copyout, remove_buffer, add_buffer, prepend_buffer, pullup, freeze, readln | EvBufferSpec, EvBuffer, Readln (partly) |
| socket bufferevent | `bufferevent.h` | connection state, input/output buffers, enabled mask, watermarks, suspension, timeouts | `socket_connect`, write, read/drain of the input, `setwatermark`, `trigger`, enable/disable, free, readable/writable handling, timeouts | BufferEvent, and the write path in HelloWorld (partly) |
| filter, pair bufferevents | `bufferevent.h` | two linked bufferevents | transform, cross-delivery, flush | planned |
| rate limiting | `bufferevent.h` | per-bufferevent and group token buckets, BW/BW_GROUP suspension, max_single | set_rate_limit, set_max_single, group add/remove/free, decrement, group decrement, refill per tick, transfers | RateLimit (partly) |
| evconnlistener | `listener.h` | listening socket, enabled | accept, callback | accept path in HelloWorld |
| hello-world server | `hello-world.c` | base, listener, signal event, one bufferevent per client | `main`, `listener_cb`, `conn_writecb`, `conn_eventcb`, `signal_cb` | HelloWorld (modelled) |
| threading | `thread.h`, `event.h` | base lock, condition, notify fd, current event, finalizers | `event_active`/`event_del`/`event_finalize` from another thread, the loop's lock handling, `event_base_free` | EventThreads (partly) |
| time arithmetic | `util.h` 569-608 | a `struct timeval` | `evutil_timeradd`, `timersub`, `timerclear`, `timercmp`, `timerisset` | Timeval (modelled) |
| other util, ssl | `util.h`, `bufferevent_ssl.h` | wrappers, OpenSSL | - | not modelled (section 6) |

**How the parts interact.**
- One thread runs `event_base_loop()`. Each iteration:
  1. A poll turns ready fds, expired timers and caught signals into active events.
  2. The loop runs the callbacks of the most urgent non-empty active queue, one at a time, until that
     queue is empty, and then polls again (event.h 1699-1703): urgent events are re-checked before
     less urgent callbacks run, and can starve them.
- Callbacks call back into the base. In hello-world:
  - `listener_cb` creates a bufferevent.
  - `bufferevent_enable(EV_WRITE)` adds the bufferevent's write event, whatever its output holds.
  - `conn_writecb`/`conn_eventcb` free the bufferevent, and with it its event and its socket.
  - `signal_cb` schedules a loopexit timer.
- `main()` frees everything after the loop returns.

**Hard behaviours.**
- Callbacks change the set of events while the loop is iterating over them.
- A bufferevent is freed inside its own callback.
- A write completes only partly.
- Peers reset their connection.
- Allocation fails part-way through a handler.
- Break, exit and continue requests arrive at arbitrary points of an iteration.

## 2. Modules

### EventBase.tla: the reactor
**State.** `pending` and `timed` model `event_pending()` and a scheduled timeout. `activeq[p]` is the active FIFO of priority p. `exits` counts loopexit timers not yet expired. `live` holds the events that exist: made with `event_new`/`event_assign` and not freed. `lstate` says where the loop is:
- `idle`: outside the loop;
- `top`: iteration start;
- `dispatch`: running one queue (`iterPrio` holds it once its first callback ran; `RunPrio` and
  `MoreToRun` pick it and tell when it is empty);
- `callback`: a callback is running.

The other variables are the loop flags and the three loop-control booleans. `acts` and `calls` are bounded counters, and there are three history variables read only by properties. `acts` counts activations by polls; with `ActsPerPoll` it counts them since the latest poll, so the loop may poll for ever (used by the liveness run), otherwise over the whole behaviour.

**Actions**, each one a documented call or a loop step:
- API calls: `EvNew` (event_new, or event_assign on memory the program owns), `EvFree`, `EvAdd`, `EvDel`, `EvRemoveTimer`, `EvActive`, `ActiveByFd` (event_base_active_by_fd/by_signal: every pending event on the fd, in some order), `LoopBreak`, `LoopContinue`, `LoopExit`. Callbacks make them while the loop runs (`lstate = "callback"`); the owning thread makes them while it is idle. Only live events are passed to them.
- Only the events in `Dynamic` are made and freed while the base runs; the others live from the start. `EvFree` does what event.h 1326-1334 says: it first makes the event non-pending and non-active, as `event_del` does, then releases it. A callback may free its own event or another one.
- Loop steps: `LoopEnter`, `TopReturn`, `Poll`, `BeginCallback`, `ExitTimerCb`, `EndCallback`, `DispatchBreak`, `DispatchDone`.

**Readiness.** `Poll(CanFire)` takes the readiness predicate as a parameter, so a composing module can say when an fd is ready. It activates any subset of the ready pending events and expired timers, in any order.

**Persistence.** A non-persistent event leaves `pending` when it is dequeued, before its callback runs. That is what lets a callback re-add it. Spec section 4.3 step 6 words it as bookkeeping after the callback; read that way, a callback's `event_add` of its own event would be undone when it returns. That reading is kept only as the mutant `EndCallbackDropsRunning`, which `ReAddSticks` catches.

**Not modelled here.** Re-assigning an idle event with other arguments (`event_assign` on a live event that is neither pending nor active; the model's `Persist`, `Prio` and `Fd` are fixed). The header forbids `event_assign` on a pending or active event ("WILL corrupt internal data structures"), which is undefined behaviour, so the model's program never does it.

### HelloWorld.tla: the example server on the reactor
The module declares the reactor's variables and `INSTANCE`s EventBase with these events:
- the listener's event `LevEv`;
- the SIGINT event `SigEv`;
- one write event per client, named after the client.

All events are persistent, are never freed while the base runs (`Dynamic = {}`; a freed connection is told by `conn[c] = "closed"`, and HelloWorld's `live` stays the set of all its events), and share one priority, which is libevent's default with a single queue. Its own state is:
- `phase` of `main()`;
- `conn[c]`: none / backlog / open / closed / leaked;
- `out[c]` and `sent[c]`: bytes queued and bytes written;
- `peer[c]`: up or reset;
- `sigs` and `sigsSent`.

| Action | Code |
|---|---|
| `MainSetup` | `main` 53-79: base, listener, signal event; any failure returns 1 |
| `MainDispatch` | line 81: `event_base_dispatch` = `event_base_loop(base, 0)` |
| `MainShutdown` | lines 83-88: free listener, signal event, base |
| `ListenerCb(c)` | lines 92-111: `bufferevent_socket_new` (may fail, which leads to loopbreak and a leaked fd), `BevEnableWrite` (adds the write event), `BevWrite` (may fail, result unchecked) |
| `WriteCb(c)` | the socket bufferevent's write handler. It writes `WriteAmounts` (nothing when the output is empty), drains by `Drained`, and once the output is empty calls `conn_writecb`, which frees (113-121); a write of an empty output calls it too, so a client whose message was never queued is freed unanswered. On an error with a reset peer it calls `conn_eventcb`, which frees (123-135) |
| `SignalCb` | lines 137-146: `event_base_loopexit(base, 2s)` |
| `ClientConnect`, `ClientReset`, `SigInt` | the environment |

Each handler is one atomic step inside the reactor's `callback` state, and `BevFree` is part of the handler that calls it.

### EvBufferSpec.tla and EvBuffer.tla: the evbuffer and what it promises
`EvBufferSpec` is what `buffer.h` promises with the storage left out. Each buffer is one flat byte
sequence `content[b]`, with a frozen flag for each end, and `lastRead` holds what the latest
remove or copyout returned. Its actions are add, prepend, drain, remove, copyout, a move of up
to n bytes between two buffers, a prepend of a whole buffer, and freeze/unfreeze.

`EvBuffer` is the chain of chunks (`buffer.h` 76-86). A chunk is owned memory, or memory lent by
`evbuffer_add_reference` and tagged with the region it points into.
- `Add` fills the last chunk only when that chunk is owned; otherwise it appends a chunk.
- `Drain` and `Remove` release the chunks they consume whole, and advance the start of the chunk the cut falls in (`DropBytes`).
- `RemoveBuffer` splices whole chunks and copies the one chunk the cut falls in (`TakeBytes`).
- `AddBuffer` and `PrependBuffer` splice every chunk.
- `Pullup` copies the first n bytes into one new chunk.
- `Cleanup` counts a region's cleanup function when the last chunk pointing into it goes.
- `cbinfo[b]` is the `evbuffer_cb_info` a deferred callback will receive. Every operation adds to `n_added` or `n_deleted`, and `RunCallbacks` delivers it and restarts the counts.

`ABS == INSTANCE EvBufferSpec WITH content <- [b \in Bufs |-> Content(chain[b])]` maps the chain to
the flat buffer, and the run checks `ABS!Spec` as a property (`RefinesFlatBuffer`).

### Readln.tla: line parsing
`EolLen` is the enum `evbuffer_eol_style` (`buffer.h` 462-488). `SearchEol` is
`evbuffer_search_eol`, and `Readln` is `evbuffer_readln`, which returns the line and the drained
buffer. All three are recursive operators. The state machine feeds a stream into the buffer in reads
of 1 to `MaxChunk` bytes (`Arrive`) while the reader calls readln at any time (`ReadLine`).
`AllLines` is the reference: the lines of the whole stream read at once.

Spec section 8, test 5, expects `readln(CRLF_STRICT)` to return nothing after "a" from
"a\r\nb\nc\r\n". Under `buffer.h` 482-483 (a CR followed by an LF ends a line) the second call
returns "b\nc", which is what `Readln` computes; the header is the source, so the model follows it
and no run restates the test.

### RateLimit.tla: token buckets and rate-limit groups
Two bufferevents may each have a bucket of their own (`lim`, `tok`) and may belong to one group
with a shared bucket (`member`, `gtok`, `gstate`). `susp[s][d]` holds the reasons direction d of s
is suspended: `"bw"` for BEV_SUSPEND_BW and `"bwgroup"` for BEV_SUSPEND_BW_GROUP, kept apart as
libevent keeps them. `want[s][d]` is what s still has to move, `single[s][d]` the max_single size
the application set (0: the default), and `allowed[d]` is a history variable: a reference token
bucket of the group's rate and burst, used by `GroupOverdrawWithinMinShare`. The clock itself is not
kept, only what a tick changes, so the model is finite over any number of ticks.

The actions:
- `Transfer(s, d)` moves at most `MaxTo`: the smaller of max_single (`MaxSingleOf`), the
  bufferevent's own bucket, and `Share`, the group's bucket divided among the members and at least
  min_share. It takes the bytes from both buckets and suspends whoever a bucket left empty.
- `Produce(s, d)`: once s has moved its bytes the application writes more, so a member may compete
  for the group's bucket for ever.
- `Tick` refills every bucket up to its burst and lifts the suspensions a positive bucket ends.
- `SetRateLimit`/`ClearRateLimit`, `SetMaxSingle`, `AddToGroup`/`RemoveFromGroup`, `GroupFree`,
  `Decrement` and `GroupDecrement` are the API calls.

The header documents the API. The refill and share rules follow spec section 4.8, since
`bufferevent_ratelim.c` is not in the repository.

### BufferEvent.tla: a socket bufferevent with watermarks and timeouts
Byte counts stand for the data. The state is:
- the socket (`sockIn`), the peer (`up`/`closed`/`reset`) and `conn` (connecting or connected);
- `input`, `output`, `enabled` and `suspended`, and the read watermarks `rlow`/`rhigh`;
- `wev`: the write event is added. `bufferevent_enable(EV_WRITE)` adds it, `BevWrite` adds it
  when it is not, and the write handler removes it once the output is empty;
- the read and write deadlines `rdl`/`wdl`, on a bounded clock `now`;
- `state` (open or freed);
- `cb`, the callback the last step ran;
- the history variables `rSince`/`wSince`, `consumed`, `queued` and `sent`.

The actions are:
- `ConnectDone(ok)`: the outcome of `bufferevent_socket_connect()`, BEV_EVENT_CONNECTED or
  ERROR to the event callback (which frees).
- `ReadHandler`: a read of up to `max_single_read` bytes, and no more than the high watermark
  leaves room for. Then the read callback, if the input holds
  the low watermark; it drains any part. Then the high-watermark check and the timeout reset. On
  EOF or error it is the event callback and `bufferevent_free`.
- `WriteHandler`: runs while the write event is added. Partial writes, the write callback at the
  write low watermark (also after writing nothing from an empty output), and removal of the write
  event when the output is empty.
- `ReadTimeout`/`WriteTimeout`: disable the direction, run the event callback, and either re-enable
  or free.
- `UserDrain`: the application reads or drains the input outside the callback
  (`bufferevent_read`, `bufferevent_read_buffer`, `evbuffer_drain`), which resumes reading.
- `SetWatermark(lo, hi)`: `bufferevent_setwatermark(EV_READ)` at run time, which suspends or
  resumes at once.
- `Trigger(io, ignoreWm)`: `bufferevent_trigger`, with and without BEV_TRIG_IGNORE_WATERMARKS.
- `BevWrite`, `Enable`, `Disable`.
- The environment: `PeerSend`, `PeerClose`, `Tick`.

### EventThreads.tla: a base shared by two threads
The base is set up by `evthread_use_pthreads()` (`thread.h`): a recursive base lock, a condition
variable and, after `evthread_make_base_notifiable()`, a notify fd. The loop thread runs
`event_base_dispatch()`; the worker activates the two events and tears them down.
- State: `lock` (holder of the base lock), `lpc` (where the loop thread is), `cur` and `running`
  (the entry being run and `base->current_event`), `pending`, `activeq`, `notified` (a byte in the
  notify fd), `ready`, the worker's `wwait` (the event whose callback its `event_del` waits for)
  and `wst`, `finalized`, `argFreed`, the bounded counters `pokes` and `readies`, and `applock`
  (holder of an application lock that every callback takes while it works on its argument).
- Loop thread: `LoopDispatch`, `LoopWake` (back from the backend with the lock), `CallbackBody`,
  `DelSelf` (a callback deleting its own event does not wait), `CallbackDone`, `BaseFree`
  (`event_base_free` runs finalizers still queued).
- Worker: `WActive(e)` (wakes the loop through the notify fd when it queues e), `WDel(e)` (wakes
  the loop when e was added; blocks on the condition
  while e's callback runs in the loop thread, unless e has EV_FINALIZE), `WWake`, `WFree(e)` (the
  argument is freed after `event_del` returned), `WFinalize(e)` (`event_finalize`: the finalize
  callback frees the argument in the loop). `WLockApp` and `WUnlockApp`: the worker holds the
  application lock around `event_finalize` of the EV_FINALIZE event, which does not wait for a
  running callback (event.h 1096-1106), and never across `event_del`, which does.
- `InLoopThread(th)` stands for the thread-id callback of `evthread_set_id_callback()`: the
  `event_del` wait applies only to other threads.

Each base call of the worker takes the lock, does its work and releases it (or waits), so it is
one step.

### Timeval.tla: timeval arithmetic
A `struct timeval` is a record `[sec, usec]`. `tv_sec` is a signed integer of `SecBits` bits whose
bounds are those of `EV_INT*_MAX`/`EV_INT*_MIN` (`IntMax`, `IntMin`, util.h 244-270); signed
overflow is undefined in C; `WrapSec` keeps a result in range by wrapping, and no property is
about such a result. One second is
`USecPerSec` microseconds, a small value so that carries and borrows happen. `TimerAdd`,
`TimerSub`, `TimerClear`, `TimerCmp` (with the relational operator as a parameter) and
`TimerIsSet` are the macros of util.h 569-608. A behaviour picks two normalized timevals, applies
`Add` or `Sub` once and stops. `ToUSec` and `Representable` are the reference: what a timeval
means as a count of microseconds.

## 3. Runs

| Run | cfg | Expect | Checks | States, time |
|---|---|---|---|---|
| eventbase_core | `EventBase.cfg` | pass | `TypeOK`, `FreedEventsInert`, `NoStaleCallback`, `ReAddSticks` | 1.21 M, 40 s |
| eventbase_exit | `EventBase_exit.cfg` | violation | `LoopExitReturns` under an always-ready urgent persistent event | 1 min |
| hello | `HelloWorld.cfg` | pass | `TypeOK`, `FullMessageBeforeClose`, `NoCallbackAfterFree`, `EveryQueuedClientAnswered`, `SigintShutsDown` | 47 k, 45 s |
| hello_writefail | `HelloWorld_writefail.cfg` | violation | `FullMessageBeforeClose` when `bufferevent_write` can fail | seconds |
| hello_basefree | `HelloWorld_basefree.cfg` | violation | `NoConnAtBaseFree` | seconds |
| evbuffer_chain | `EvBuffer.cfg` | pass | `TypeOK`, `LentMemoryIntact`, `CbInfoAddsUp`, `RefinesFlatBuffer` | 140 k, 3 min |
| readln | `Readln.cfg` | pass | `TypeOK`, `LinesIndependentOfReads`, `AnyOnlyAddsEmptyLines` | 67 k, 3 s |
| bufferevent | `BufferEvent.cfg` | pass | `TypeOK`, `SuspendedIffAboveHigh`, `TimeoutOnlyAfterIdle`, `NoReadStall` | 1.04 M, 70 s |
| bufferevent_wm_inverted | `BufferEvent_wminv.cfg` | violation | `NoReadStall` with a read low watermark above the high one | seconds |
| ratelimit | `RateLimit.cfg` | pass | `TypeOK`, `BwSuspendedIffExhausted`, `GroupOverdrawWithinMinShare`, `EveryStreamMovesItsBytes` | 183 k, 75 s |
| threads | `EventThreads.cfg` | pass | `TypeOK`, `NoCallbackOnFreedArg`, `EverythingTornDown` | 47 k, 5 s |
| timeval | `Timeval.cfg` | pass | `TypeOK`, `ArithmeticExact`, `CmpIsOrder` | 3 k, 1 s |

**What the properties say:**
- `FreedEventsInert`: a freed event is neither pending nor in an active queue, also when a poll
  had activated it and another event's callback freed it before its own callback ran.
- `NoStaleCallback`: an event deleted after its activation never has that activation's callback run.
- `ReAddSticks`: a callback's re-add of its own non-persistent event survives the callback.
- `LoopExitReturns`: a loopexit timer always makes the running loop return (event.h 969-985). It fails (eventbase_exit): the timer's callback has the default priority and a more urgent persistent event that is ready at every poll runs first for ever.
- `FullMessageBeforeClose`: a client that did not hang up gets the whole message before it is closed. It fails when `bufferevent_write` fails (hello_writefail): the enabled write event fires on the empty output and `conn_writecb` frees the connection.
- `NoCallbackAfterFree`: no callback of a freed bufferevent is dispatched.
- `EveryQueuedClientAnswered`: every client whose message was queued is eventually closed while the loop runs.
- `SigintShutsDown`: SIGINT leads to `main()` finishing, also when a second SIGINT adds a second loopexit timer.
- `RefinesFlatBuffer`: every behaviour of the chain, with every freeze, is a behaviour of the flat buffer: no byte is lost, duplicated or reordered by the splicing and splitting of chunks.
- `LentMemoryIntact`: a lent chunk always holds a suffix of its region, so no add writes into lent memory. A region's cleanup has run once exactly when it was lent and no chunk points into it any more.
- `CbInfoAddsUp`: `orig_size + n_added - n_deleted` is the buffer's length, across operations that touch two buffers.
- `LinesIndependentOfReads`: for every style but "any", the lines do not depend on how the stream was cut into reads, nor on when readln was called.
- `AnyOnlyAddsEmptyLines`: with "any", a CR and an LF split across reads add empty lines, but never other ones.
- `SuspendedIffAboveHigh`: reading is suspended exactly while the input is at or above the high watermark, across runtime watermark changes and triggers.
- `TimeoutOnlyAfterIdle`: a read or write timeout is reported only when its direction was armed and made no progress for the whole timeout.
- `NoReadStall`: data in the socket of an open bufferevent with reading enabled is eventually read. The one exception is that the read callback, having seen an input at the high watermark, left it there.
- `BwSuspendedIffExhausted`: a direction is suspended for bandwidth exactly while its own bucket, or, for a member, the group's bucket, is at or below zero, across transfers by other members, ticks, joins, leaves, cfg changes and manual decrements.
- `GroupOverdrawWithinMinShare`: min_share lets a member take more than the group's bucket holds, so the bucket goes negative (bufferevent.h 1045-1047), but against a token bucket of the group's rate and burst (plus what the application gave back by hand) the members never move more than min_share - 1 bytes too many.
- `EveryStreamMovesItsBytes`: every bufferevent eventually moves all it was given, a member of a group too small to give each member a byte per tick included (min_share).
- `NoCallbackOnFreedArg`: no event callback runs on an argument the worker freed, after `event_del` returned or after the finalize callback ran.
- `EverythingTornDown`: both teardowns finish, every argument is freed and the base is freed. A worker that called `event_del` while holding the lock the callbacks take would wait for a callback that waits for the lock, and this property fails.
- `ArithmeticExact`: `evutil_timeradd`/`timersub` give a normalized timeval that stands for the exact sum or difference whenever that fits `time_t`.
- `CmpIsOrder`: `evutil_timercmp`, for each of `==`, `<=`, `<`, `>=`, `>`, and `evutil_timerisset` agree with the microsecond counts.


**Findings** (details in `PROJECT.json`):
1. `event_base_loopexit` promises an exit at the iteration after the timer expires, but its callback has the default priority and starves behind an always-ready urgent persistent event, so the loop never returns (eventbase_exit).
2. hello-world ignores a failing `bufferevent_write` (line 110): the write event enabled at line 107 fires on the empty output, `conn_writecb` frees the bufferevent, and the client is closed without the message (hello_writefail).
3. hello-world frees the base with bufferevents of unanswered clients still registered on it, and leaks the fd when `bufferevent_socket_new` fails (hello_basefree).
4. `bufferevent_setwatermark` accepts a read low watermark above the high one, and nothing documents what then happens. Reading stops at the high mark before the read callback may run, and the connection stalls (bufferevent_wm_inverted).

Two disagreements with spec.md are recorded here rather than as runs: its post-callback wording
of the persistence rule (section 2, EventBase) and its test 5 for CRLF_STRICT (section 2, Readln).

Every property of a passing run has a mutant, a plausible bug in the definition it depends on,
which TLC catches (the list, with the definitions, is in `PROJECT.json`):
- `event_del` that keeps the timeout or the active entry; `event_free` that leaves the event in
  its active queue; post-callback removal;
- `write()` taking more than is queued; a drain of the whole buffer on a partial write;
  `bufferevent_free` that keeps the write event; an enable that does not add the write event; `signal_cb` without loopexit;
- `prepend_buffer` without the room check, a drain that cuts one byte too far, an add that extends
  a lent chunk, and `add_buffer` that tells only the destination's callbacks;
- a read that counts bytes it was not given, a CR at the end of the buffer taken for a CRLF, and a
  search that skips the first byte;
- a read that takes more than the socket holds, a sticky suspension, a suspension decided before
  the read callback drains, and a read timeout not reset by a read;
- a refill without the burst ceiling, leaving a group without lifting its group suspension, a
  transfer that ignores the group's bucket (and overdraws it past min_share), and a share without
  min_share;
- `event_active` that queues an event twice, an inverted EV_FINALIZE test in `event_del`, and
  a worker calling `event_del` while holding the callbacks' lock;
- `EV_INT*_MIN` without its `- 1`, a carry only above one second, and a `timercmp` that compares
  both fields.

## 4. Bounds

**EventBase:** three events: two I/O events on one fd with different priorities, one of them
persistent, and one timer `t1` that the program makes and frees while the loop runs
(`Dynamic = {t1}`); `NPrio = 2`; `MaxActs = 3` activations over the behaviour (per poll in
the exit run, which has no dynamic timer and must let the loop poll for ever); `MaxExits = 1`; `MaxCalls = 1`. These bounds
are enough for the cases that matter:
- a callback deleting or freeing another event already queued behind it;
- re-adding itself, freeing itself, or making the timer again;
- a break, a continue or an exit landing mid-iteration;
- events of two priorities active together, and both events of one fd activated by `ActiveByFd`.

**HelloWorld:** two clients; `MsgLen = 2` (a partial write followed by the rest); up to two SIGINTs in the passing run (one in the violation runs). `HWMaxActs` is large enough that the activation bound never binds, because every activation consumes a backlog entry, a signal or a byte. With two clients, each can be accepted, written, reset or failed while the other is in any state. `BevNewMayFail` and `WriteMayFail` enable the two allocation failures.

**EvBuffer:** two buffers, two byte values, and one lent region of two bytes. `MaxLen = 2`, so a
chunk can be split, and a move can take part of a chunk. `MaxUnreported = 2` is the `InfoBound`
constraint: at most two byte changes between two deliveries of the callbacks. That is enough for a
move between two buffers, or two operations, to be reported together. The buffers are symmetric,
and the VIEW keeps only the length of `lastRead`: no action reads it, and the flat buffer only
compares it with the front of a buffer in the same step.

**Readln:** every stream of up to 5 bytes over {a, CR, LF, NUL}, every style, and reads of 1 to 3
bytes. That includes every CR/LF split and a CR at the end of a read.

**BufferEvent:** a connect attempt first; up to 3 bytes from the peer, 2 bytes written, reads of
up to 2 bytes and writes of 1 byte, and a clock of 4 ticks. Timeouts are 2 ticks, so a timeout can
fire, be re-armed and fire again. The watermarks start at low 2, high 2, and a runtime
`setwatermark` may set low 1 and high 1 or none (0) (inverted run: low 3, high 2, reads of 1 byte, 4
bytes, 5 ticks).

**RateLimit:** two bufferevents, the write direction (the read direction is the same code with
its own buckets), rate 1 and burst 2 each, and a group with rate 1 and burst 1, too small to give
both members a byte per tick. `min_share` is 2, above the group's burst, so a member overdraws
the group. max_single is 3 by default, above min_share, and may be set to 1.
Each bufferevent has 3 bytes to move at a time and gets more once done; there are 2 manual
decrements. Buckets reach zero, go negative, and are refilled past zero, over any number of ticks.

**EventThreads:** two events (one with EV_FINALIZE), two `event_active` calls per event and two
fd readinesses: enough for an activation while the loop blocks, one while the callback runs, and
a teardown racing a queued callback.

**Timeval:** a 3-bit `time_t` (-4..3) and 4 microseconds per second: every pair of normalized
timevals, so every carry and borrow, at both ends of the range.

## 5. Fairness

The loop thread is not preempted for ever: every loop step has weak fairness, and so does the
callback return. No passing EventBase run checks liveness; the exit run shows that even under this
fairness the loopexit timer can starve. The following conditions are also fair:
- `main()` continuing;
- a loopexit timer's deadline passing (`ExpireExit`);
- a zero-timeout poll when something is already active (`PollNow`);
- in HelloWorld, each handler;
- readiness being reported (`PollReady(e)`).

The kernel reports a waiting connection, a caught signal, and room in a socket's send buffer,
because the client's kernel acknowledges data. Clients connecting or resetting and the user
pressing ctrl-c are not fair: they may never happen.

In BufferEvent only `ReadHandler` and `WriteHandler` are weakly fair. The loop polls, and it runs
the handler of a socket that stays readable or writable while its direction is armed. The peer,
the clock, and the application's own calls are not assumed to happen.

In RateLimit the refill timer is weakly fair, and each `Transfer(s, d)` strongly fair: after a
refill libevent unsuspends the group's members starting at a random one (bufferevent.h 940-945),
so a member that can move bytes again and again is not passed over for ever.

In EventThreads both threads' steps are strongly fair: a thread that keeps trying to take the base
lock eventually gets it (the lock is released infinitely often but not continuously).

`CHECK_DEADLOCK FALSE` where the system really stops: the server blocks for ever in the poll
when no client or signal comes, and reaches the end of `main()`; the reactor's loop may return
and never be entered again; a bufferevent is freed; the threads' program ends after
`event_base_free`; a Timeval behaviour applies one macro.

## 6. Not modelled, and why

- The I/O backends and the timer heap: they are not in the repository, and are abstracted to
  nondeterministic readiness and expiry.
- SSL: OpenSSL state lies outside the repository.
- The rest of `util.h`: socket, address, string, random-number and monotonic-clock wrappers
  around the OS and libc, with no state the properties tell apart, and whose behaviour (the
  monotonic fallback's correction, for one) the header does not describe.
- In the reactor: `event_base_once`, `EVLOOP_NO_EXIT_ON_EMPTY`, `event_priority_set` after
  creation, re-assigning an idle event with other arguments, and the `event_pending`/`event_get_*`
  queries, which change no state.
- Parts of evbuffer: `add_file` and file segments, `reserve_space`/`commit_space`, `search`,
  `peek`, `ptr`, `printf`, `expand`, and the callback list (`add_cb`/`remove_cb`/flags), whose
  per-callback behaviour the header leaves open.
- Parts of the socket bufferevent: `connect_hostname`, `flush`, refcounting (`incref`/`decref`),
  lock options, and timeouts during the connect attempt, which `bufferevent.h` does not describe.
- Deferred bufferevent callbacks: with one callback per step they run like the immediate ones.
- The filter and pair bufferevents: their data paths (what a filter does at EOF, when a pair
  delivers) are in `.c` files the repository does not have.
- Rate limiting: `group_set_cfg` and `set_min_share` at run time, and the group totals, counters
  no behaviour reads.
