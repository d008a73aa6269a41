------------------------------ MODULE BufferEvent ------------------------------
(***************************************************************************)
(* A socket bufferevent (event2/bufferevent.h) over one connection, with  *)
(* the application's callbacks and the peer.  The bufferevent reads from  *)
(* the socket into its input evbuffer and runs the read callback; writes  *)
(* its output evbuffer to the socket and runs the write callback; stops   *)
(* reading while the input is at its high watermark; disables a direction *)
(* whose timeout elapses and reports it to the event callback.  Each      *)
(* handler runs as one step: the event loop runs one callback at a time   *)
(* (EventBase).  Byte values are left out, only counts matter here.        *)
(* The application's read callback drains any part of the input, e.g. the *)
(* complete messages it holds, from none to all of it; the application    *)
(* may also drain the input from elsewhere.  Its event callback frees the *)
(* bufferevent on EOF and errors and, on a timeout, either re-enables the *)
(* direction or frees it.  A bufferevent made with fd -1 first connects   *)
(* (bufferevent_socket_connect); the application may change the read     *)
(* watermarks, trigger its callbacks, and read the input itself.          *)
(***************************************************************************)
EXTENDS Naturals

CONSTANTS
  MaxSend,    \* bound on the bytes the peer sends
  MaxOut,     \* bound on the bytes the application writes
  MaxRead,    \* max_single_read: bound on the bytes one read takes
  MaxWrite,   \* bound on the bytes one write() takes
  MaxTime,    \* bound on the clock
  RTimeout,   \* the read timeout, in ticks, 0 for none (timeout_read NULL)
  WTimeout,   \* the write timeout, 0 for none
  RLow, RHigh,\* the read watermarks at set-up (high 0: none)
  WmLows,     \* low marks a later bufferevent_setwatermark(EV_READ) sets
  WmHighs,    \* and its high marks
  Connecting, \* TRUE: made with fd -1, then bufferevent_socket_connect()
  WLow,       \* the write low watermark
  NoTimer     \* "no timeout pending"

ASSUME NoTimer \notin Nat /\ Connecting \in BOOLEAN

VARIABLES
  now,        \* the clock
  peer,       \* the peer: "up", "closed" (sent FIN) or "reset"
  conn,       \* "connecting" until the connect() attempt succeeds, "connected"
  sent,       \* bytes the peer has sent
  sockIn,     \* bytes in the socket's receive buffer
  input,      \* bytes in the input evbuffer
  consumed,   \* bytes the read callback has drained
  output,     \* bytes in the output evbuffer
  queued,     \* bytes the application has written
  enabled,    \* bufferevent_get_enabled(): a subset of {"read", "write"}
  wev,        \* the write event is added (pending on the writable socket)
  suspended,  \* reading suspended by the read high watermark
  rlow, rhigh,\* the read watermarks
  rdl, wdl,   \* when the read / write timeout fires, or NoTimer
  state,      \* "open" or "freed"
  cb,         \* the callback this step ran: [fn, what]
  rSince,     \* history: when reading last became armed or read data
  wSince      \* history: when writing last became armed or wrote data

vars == <<now, peer, conn, sent, sockIn, input, consumed, output, queued,
          enabled, wev, suspended, rlow, rhigh, rdl, wdl, state, cb, rSince,
          wSince>>

NoCb == [fn |-> "none", what |-> {}]
EventCb(what) == [fn |-> "eventcb", what |-> what]

MinOf(a, b) == IF a <= b THEN a ELSE b

\* A timeout of t ticks from now; a NULL timeout never fires.
Arm(t) == IF t = 0 THEN NoTimer ELSE now + t

Expired(dl) == dl # NoTimer /\ dl <= now

\* The bufferevent is trying to read / to write (bufferevent.h 548-553).
\* Nothing is read or written before the connection is up.
ReadArmed  == state = "open" /\ conn = "connected" /\ "read" \in enabled /\ ~suspended
WriteArmed == state = "open" /\ conn = "connected" /\ "write" \in enabled /\ wev

(* After a read the input is checked against the high watermark once the  *)
(* read callback has drained it: the input evbuffer's own callback lifts  *)
(* the suspension as soon as a drain takes it below the mark.  The mutants *)
(* decide on the length before the callback, or never lift it.            *)
ReadSuspendedBeforeCb(before, after) == rhigh > 0 /\ before >= rhigh
ReadSuspendedSticky(before, after) == suspended \/ (rhigh > 0 /\ after >= rhigh)
ReadSuspended(before, after) == rhigh > 0 /\ after >= rhigh

(* The read timeout after reading starts or makes progress: a pending one  *)
(* is reset (bufferevent.h 555-557).  The mutant leaves a pending one.     *)
ReadDeadlineKept(susp) == IF susp THEN NoTimer ELSE IF rdl = NoTimer THEN Arm(RTimeout) ELSE rdl
ReadDeadline(susp) == IF susp THEN NoTimer ELSE Arm(RTimeout)

(* A read takes what the socket holds, at most max_single_read and, with a *)
(* high watermark, at most what brings the input up to it.  The mutant    *)
(* takes the requested amount whatever recv() returned.                    *)
ReadAmountsPastEnd == 1..MaxRead
ReadAmounts ==
  1..MinOf(sockIn, IF rhigh > 0 THEN MinOf(MaxRead, rhigh - input) ELSE MaxRead)

\* The read timeout when reading becomes suspended (the read event is
\* deleted) or resumes (it is added again, restarting the timeout).
ReadTimerAfter(susp) ==
  IF susp = suspended \/ "read" \notin enabled \/ conn # "connected"
  THEN UNCHANGED <<rdl, rSince>>
  ELSE rdl' = ReadDeadline(susp) /\ rSince' = now

\* What the read callback leaves in an input of n bytes.
Kept(n) == 0..n

\* bufferevent_free(), bufferevent.h 329-339, from the event callback.
Free ==
  /\ state' = "freed" /\ enabled' = {} /\ wev' = FALSE
  /\ rdl' = NoTimer /\ wdl' = NoTimer

\* The input loses k bytes, read out by the application: the input
\* evbuffer's callback re-checks the high watermark.
TakeInput(k) ==
  LET susp == ReadSuspended(input, input - k) IN
  /\ input' = input - k /\ consumed' = consumed + k
  /\ suspended' = susp /\ ReadTimerAfter(susp)

-----------------------------------------------------------------------------
(* The environment: the peer sends a byte, closes, or resets; time passes. *)
PeerSend ==
  /\ peer = "up" /\ conn = "connected" /\ sent < MaxSend
  /\ sent' = sent + 1 /\ sockIn' = sockIn + 1
  /\ cb' = NoCb
  /\ UNCHANGED <<now, peer, conn, input, consumed, output, queued, enabled, wev,
                 suspended, rlow, rhigh, rdl, wdl, state, rSince, wSince>>

PeerClose(how) ==
  /\ peer = "up" /\ conn = "connected" /\ peer' = how
  /\ cb' = NoCb
  /\ UNCHANGED <<now, conn, sent, sockIn, input, consumed, output, queued,
                 enabled, wev, suspended, rlow, rhigh, rdl, wdl, state, rSince, wSince>>

Tick ==
  /\ now < MaxTime /\ now' = now + 1
  /\ cb' = NoCb
  /\ UNCHANGED <<peer, conn, sent, sockIn, input, consumed, output, queued,
                 enabled, wev, suspended, rlow, rhigh, rdl, wdl, state, rSince, wSince>>

(* The connect() attempt of bufferevent_socket_connect() ends (bufferevent.h *)
(* 209-233): on success the event callback gets CONNECTED and the enabled  *)
(* directions start, their timeouts with them; on failure it gets ERROR    *)
(* and frees the bufferevent.                                              *)
ConnectDone(ok) ==
  /\ state = "open" /\ conn = "connecting"
  /\ IF ok
     THEN /\ conn' = "connected" /\ cb' = EventCb({"CONNECTED"})
          /\ rdl' = IF "read" \in enabled THEN ReadDeadline(suspended) ELSE NoTimer
          /\ wev' = ("write" \in enabled /\ output > 0)
          /\ wdl' = IF wev' THEN Arm(WTimeout) ELSE NoTimer
          /\ rSince' = now /\ wSince' = now
          /\ UNCHANGED <<enabled, state>>
     ELSE /\ cb' = EventCb({"ERROR"}) /\ Free
          /\ UNCHANGED <<conn, rSince, wSince>>
  /\ UNCHANGED <<now, peer, sent, sockIn, input, consumed, output, queued,
                 suspended, rlow, rhigh>>

(* The socket is readable while reading is armed (spec 4.5 "On readable"). *)
(* Data: up to MaxRead bytes go to the input; if it holds at least the     *)
(* low watermark the read callback runs and drains it (bufferevent.h       *)
(* 130-145, 586-589); then the high watermark is checked and the timeout  *)
(* reset.  End of file or a reset: the event callback gets EOF|READING or *)
(* ERROR|READING and frees the bufferevent.                                 *)
ReadHandler ==
  /\ ReadArmed
  /\ \/ /\ peer # "reset" /\ sockIn > 0
        /\ \E k \in ReadAmounts :
             LET in1  == input + k
                 run  == in1 >= rlow
             IN \E in2 \in IF run THEN Kept(in1) ELSE {in1} :
                LET susp == ReadSuspended(in1, in2) IN
                /\ sockIn' = sockIn - k
                /\ input' = in2
                /\ consumed' = consumed + in1 - in2
                /\ suspended' = susp
                /\ rdl' = ReadDeadline(susp)
                /\ cb' = IF run THEN [fn |-> "readcb", what |-> {}] ELSE NoCb
        /\ rSince' = now
        /\ UNCHANGED <<state, enabled, wev, wdl>>
     \/ /\ \/ peer = "closed" /\ sockIn = 0 /\ cb' = EventCb({"EOF", "READING"})
           \/ peer = "reset" /\ cb' = EventCb({"ERROR", "READING"})
        /\ Free
        /\ UNCHANGED <<sockIn, input, consumed, suspended, rSince>>
  /\ UNCHANGED <<now, peer, conn, sent, output, queued, rlow, rhigh, wSince>>

(* The socket is writable while the write event is added (bufferevent.h  *)
(* 349-350): up to MaxWrite bytes of the output are written, none when it  *)
(* is empty; once the output is empty the write event is removed and its   *)
(* timeout with it; at or below the write low watermark the write callback *)
(* runs (137-138, 591-593), an empty output included.  A write to a reset  *)
(* peer fails: ERROR|WRITING.                                               *)
WriteHandler ==
  /\ WriteArmed
  /\ \/ /\ peer # "reset" \/ output = 0
        /\ \E k \in IF output = 0 THEN {0} ELSE 1..MinOf(output, MaxWrite) :
             /\ output' = output - k
             /\ wev' = (output - k > 0)
             /\ wdl' = IF output - k > 0 THEN Arm(WTimeout) ELSE NoTimer
             /\ cb' = IF output - k <= WLow THEN [fn |-> "writecb", what |-> {}] ELSE NoCb
        /\ wSince' = now
        /\ UNCHANGED <<state, enabled, rdl>>
     \/ /\ peer = "reset" /\ output > 0 /\ cb' = EventCb({"ERROR", "WRITING"})
        /\ Free
        /\ UNCHANGED <<output, wSince>>
  /\ UNCHANGED <<now, peer, conn, sent, sockIn, input, consumed, queued,
                 suspended, rlow, rhigh, rSince>>

(* A timeout elapses while its direction is armed: the direction is       *)
(* disabled and the event callback gets TIMEOUT|READING or TIMEOUT|WRITING *)
(* (bufferevent.h 559-565); the callback re-enables it, which restarts the *)
(* timeout, or frees the bufferevent.                                      *)
ReadTimeout ==
  /\ ReadArmed /\ Expired(rdl)
  /\ cb' = EventCb({"TIMEOUT", "READING"})
  /\ \/ /\ rdl' = ReadDeadline(suspended) /\ rSince' = now
        /\ UNCHANGED <<enabled, wev, wdl, state>>
     \/ Free /\ UNCHANGED rSince
  /\ UNCHANGED <<now, peer, conn, sent, sockIn, input, consumed, output, queued,
                 suspended, rlow, rhigh, wSince>>

WriteTimeout ==
  /\ WriteArmed /\ Expired(wdl)
  /\ cb' = EventCb({"TIMEOUT", "WRITING"})
  /\ \/ /\ wdl' = Arm(WTimeout) /\ wSince' = now
        /\ UNCHANGED <<enabled, wev, rdl, state>>
     \/ Free /\ UNCHANGED wSince
  /\ UNCHANGED <<now, peer, conn, sent, sockIn, input, consumed, output, queued,
                 suspended, rlow, rhigh, rSince>>

(* The application takes n bytes of the input outside the read callback:  *)
(* bufferevent_read() or bufferevent_read_buffer() (bufferevent.h 446-471; *)
(* on an empty input they return 0 and change nothing), or evbuffer_drain  *)
(* on bufferevent_get_input() (474-485).                                    *)
UserDrain(n) ==
  /\ state = "open" /\ n \in 1..input
  /\ TakeInput(n)
  /\ cb' = NoCb
  /\ UNCHANGED <<now, peer, conn, sent, sockIn, output, queued, enabled, wev, rlow,
                 rhigh, wdl, state, wSince>>

(* bufferevent_trigger(), bufferevent.h 713-728: runs the read callback if *)
(* the input holds the low watermark, or the write callback if the output *)
(* is at or below its low watermark; BEV_TRIG_IGNORE_WATERMARKS runs it    *)
(* regardless.  The read callback drains the input as after a read.        *)
Trigger(io, ignoreWm) ==
  /\ state = "open"
  /\ \/ /\ io = "read" /\ (ignoreWm \/ input >= rlow)
        /\ \E in2 \in Kept(input) : TakeInput(input - in2)
        /\ cb' = [fn |-> "readcb", what |-> {}]
        /\ UNCHANGED <<output, wdl, wSince>>
     \/ /\ io = "write" /\ (ignoreWm \/ output <= WLow)
        /\ cb' = [fn |-> "writecb", what |-> {}]
        /\ UNCHANGED <<input, consumed, suspended, output, rdl, wdl, rSince, wSince>>
  /\ UNCHANGED <<now, peer, conn, sent, sockIn, queued, enabled, wev, rlow, rhigh, state>>

\* The suspension a new read high watermark imposes on the current input.
WmSuspended(hi) == hi > 0 /\ input >= hi

(* bufferevent_setwatermark(EV_READ, low, high), bufferevent.h 575-602:    *)
(* the new high watermark is applied to the input now, suspending or       *)
(* resuming reading.                                                        *)
SetWatermark(lo, hi) ==
  /\ state = "open"
  /\ rlow' = lo /\ rhigh' = hi
  /\ suspended' = WmSuspended(hi)
  /\ ReadTimerAfter(WmSuspended(hi))
  /\ cb' = NoCb
  /\ UNCHANGED <<now, peer, conn, sent, sockIn, input, consumed, output, queued,
                 enabled, wev, wdl, state, wSince>>

(* bufferevent_write(), bufferevent.h 413-429: the bytes go to the output; *)
(* with writing enabled and the write event not added, it is added now,   *)
(* with its timeout.                                                       *)
BevWrite ==
  /\ state = "open" /\ queued < MaxOut
  /\ output' = output + 1 /\ queued' = queued + 1
  /\ IF ~wev /\ "write" \in enabled /\ conn = "connected"
     THEN wev' = TRUE /\ wdl' = Arm(WTimeout) /\ wSince' = now
     ELSE UNCHANGED <<wev, wdl, wSince>>
  /\ cb' = NoCb
  /\ UNCHANGED <<now, peer, conn, sent, sockIn, input, consumed, enabled,
                 suspended, rlow, rhigh, rdl, state, rSince>>

(* bufferevent_enable() / bufferevent_disable(), bufferevent.h 506-527:   *)
(* enabling a direction (again) adds its event and restarts its timeout,  *)
(* the write event whether or not there is output; disabling removes it.   *)
(* Before the connection is up the connect attempt owns the events and no *)
(* timeout runs.                                                           *)
Enable(d) ==
  /\ state = "open"
  /\ enabled' = enabled \cup {d}
  /\ IF conn = "connecting"
     THEN UNCHANGED <<wev, rdl, wdl, rSince, wSince>>
     ELSE IF d = "read"
     THEN rdl' = ReadDeadline(suspended) /\ rSince' = now /\ UNCHANGED <<wev, wdl, wSince>>
     ELSE /\ wev' = TRUE /\ wdl' = Arm(WTimeout)
          /\ wSince' = now /\ UNCHANGED <<rdl, rSince>>
  /\ cb' = NoCb
  /\ UNCHANGED <<now, peer, conn, sent, sockIn, input, consumed, output, queued,
                 suspended, rlow, rhigh, state>>

Disable(d) ==
  /\ state = "open" /\ d \in enabled
  /\ enabled' = enabled \ {d}
  /\ IF d = "read" THEN rdl' = NoTimer /\ UNCHANGED <<wev, wdl>>
     ELSE wev' = FALSE /\ wdl' = NoTimer /\ UNCHANGED rdl
  /\ cb' = NoCb
  /\ UNCHANGED <<now, peer, conn, sent, sockIn, input, consumed, output, queued,
                 suspended, rlow, rhigh, state, rSince, wSince>>

(* hello-world style set-up: bufferevent_socket_new() (with fd -1 and a   *)
(* bufferevent_socket_connect() when Connecting), setcb, the watermarks    *)
(* and timeouts, then bufferevent_enable(EV_READ|EV_WRITE).                 *)
Init ==
  /\ now = 0 /\ peer = "up" /\ sent = 0 /\ sockIn = 0
  /\ conn = IF Connecting THEN "connecting" ELSE "connected"
  /\ input = 0 /\ consumed = 0 /\ output = 0 /\ queued = 0
  /\ enabled = {"read", "write"} /\ suspended = FALSE
  /\ rlow = RLow /\ rhigh = RHigh
  /\ wev = ~Connecting
  /\ rdl = (IF Connecting THEN NoTimer ELSE Arm(RTimeout))
  /\ wdl = (IF Connecting THEN NoTimer ELSE Arm(WTimeout))
  /\ state = "open" /\ cb = NoCb /\ rSince = 0 /\ wSince = 0

Next ==
  \/ PeerSend \/ \E how \in {"closed", "reset"} : PeerClose(how) \/ Tick
  \/ \E ok \in BOOLEAN : ConnectDone(ok)
  \/ ReadHandler \/ WriteHandler \/ ReadTimeout \/ WriteTimeout
  \/ BevWrite \/ \E d \in {"read", "write"} : Enable(d) \/ Disable(d)
  \/ \E n \in 1..MaxSend : UserDrain(n)
  \/ \E io \in {"read", "write"}, ign \in BOOLEAN : Trigger(io, ign)
  \/ \E lo \in WmLows, hi \in WmHighs : SetWatermark(lo, hi)

Spec == Init /\ [][Next]_vars

(* The loop polls and runs the handler of a ready socket: readiness of an  *)
(* armed bufferevent is not ignored for ever.  The peer, the clock and the *)
(* application's own calls are not assumed to happen.                      *)
FairSpec == Spec /\ WF_vars(ReadHandler) /\ WF_vars(WriteHandler)

-----------------------------------------------------------------------------
TypeOK ==
  /\ now \in 0..MaxTime /\ peer \in {"up", "closed", "reset"}
  /\ sent \in 0..MaxSend /\ sockIn \in 0..MaxSend /\ input \in 0..MaxSend
  /\ consumed \in 0..MaxSend /\ output \in 0..MaxOut /\ queued \in 0..MaxOut
  /\ conn \in {"connecting", "connected"}
  /\ enabled \subseteq {"read", "write"} /\ wev \in BOOLEAN /\ suspended \in BOOLEAN
  /\ rlow \in Nat /\ rhigh \in Nat
  /\ rdl \in Nat \cup {NoTimer} /\ wdl \in Nat \cup {NoTimer}
  /\ state \in {"open", "freed"}
  /\ cb.fn \in {"none", "readcb", "writecb", "eventcb"}
  /\ rSince \in 0..MaxTime /\ wSince \in 0..MaxTime

(* Reading is suspended exactly while the input is at or above the high   *)
(* watermark (bufferevent.h 586-589): a suspension outliving the drain    *)
(* that took the input below the mark would stop reading for good, since  *)
(* no new data means no new read callback.                                  *)
SuspendedIffAboveHigh ==
  state = "open" => (suspended <=> rhigh > 0 /\ input >= rhigh)

(* A timeout is reported only once its direction has been trying,        *)
(* without making progress, for the whole timeout: never while it was     *)
(* suspended or its event was not added, and never sooner than the        *)
(* timeout after the last successful read or write or (re-)enable         *)
(* (bufferevent.h 543-557).                                                *)
TimeoutOnlyAfterIdle ==
  [][/\ cb'.what = {"TIMEOUT", "READING"} => ReadArmed /\ now - rSince >= RTimeout
     /\ cb'.what = {"TIMEOUT", "WRITING"} => WriteArmed /\ now - wSince >= WTimeout]_vars

(* Data waiting in the socket is read while the bufferevent is open and   *)
(* reading is enabled, unless the input is full and the read callback,    *)
(* which ran once it held the low watermark, left it so (reading then     *)
(* waits for the application to drain it, bufferevent.h 586-589): the     *)
(* watermarks alone never stop reading for good.                           *)
NoReadStall ==
  (sockIn > 0 /\ state = "open" /\ "read" \in enabled)
    ~> \/ sockIn = 0 \/ state # "open" \/ "read" \notin enabled
       \/ suspended /\ input >= rhigh /\ input >= rlow

=============================================================================
