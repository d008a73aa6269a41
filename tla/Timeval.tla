------------------------------- MODULE Timeval -------------------------------
(***************************************************************************)
(* The timeval helpers of event2/util.h: evutil_timeradd, evutil_timersub, *)
(* evutil_timerclear, evutil_timercmp and evutil_timerisset (lines        *)
(* 569-607), the portable replacements Libevent uses wherever it adds a    *)
(* timeout to the current time or compares a deadline with it.            *)
(*                                                                         *)
(* A struct timeval is a record [sec, usec].  tv_sec is a time_t, a signed *)
(* integer of SecBits bits whose bounds are those of the EV_INT*_MAX /     *)
(* EV_INT*_MIN limits (util.h 244-270); an addition that leaves them is    *)
(* signed overflow, undefined in C, and the build wraps it (two's          *)
(* complement), which is what the model does.  One second is USecPerSec    *)
(* microseconds: the code's 1000000, given a small value so that carries   *)
(* and borrows happen in a few steps; the macros never use the value      *)
(* other than in the carry and borrow tests.                               *)
(*                                                                         *)
(* Each behaviour applies one macro to two timevals the program can hold   *)
(* (normalized ones: 0 <= tv_usec < USecPerSec, as gettimeofday() and      *)
(* the macros themselves produce) and stops: the harness asks whether the *)
(* macros compute what a timeval means, a count of microseconds.          *)
(***************************************************************************)
EXTENDS Integers

CONSTANTS
  SecBits,     \* the width of time_t
  USecPerSec   \* microseconds per second (1000000 in the code)

ASSUME SecBits \in Nat \ {0, 1} /\ USecPerSec \in Nat \ {0, 1}

VARIABLES
  tv, uv,      \* the operands
  vv,          \* the result of evutil_timeradd / evutil_timersub / timerclear
  op           \* "none" before the step, then the macro applied

vars == <<tv, uv, vv, op>>

(* EV_INT{8,16,32,64}_MAX and EV_INT*_MIN == (-MAX) - 1 (util.h 244-270), *)
(* for any width.  The mutant forgets the - 1 of the minimum.              *)
IntMax(w) == 2^(w-1) - 1
IntMinNoMinusOne(w) == -IntMax(w)
IntMin(w) == -IntMax(w) - 1

SecMin == IntMin(SecBits)
SecMax == IntMax(SecBits)

\* A time_t result: the low SecBits bits of the exact value, read as signed.
\* A sum past the range of time_t is undefined in C; the wrap stands for
\* what a build without trapping arithmetic stores, and no property below
\* is about those results (ArithmeticExact assumes a representable one).
WrapSec(x) == ((x - SecMin) % 2^SecBits) + SecMin

TimeVals == [sec : SecMin..SecMax, usec : 0..USecPerSec-1]

-----------------------------------------------------------------------------
(* evutil_timeradd(tvp, uvp, vvp), util.h 569-577: add the fields; at most *)
(* one carry from tv_usec into tv_sec.  The mutant carries only above one  *)
(* second, not at it.                                                      *)
TimerAddLateCarry(t, u) ==
  LET s == t.sec + u.sec
      us == t.usec + u.usec
  IN IF us > USecPerSec THEN [sec |-> WrapSec(s + 1), usec |-> us - USecPerSec]
                        ELSE [sec |-> WrapSec(s), usec |-> us]

TimerAdd(t, u) ==
  LET s == t.sec + u.sec
      us == t.usec + u.usec
  IN IF us >= USecPerSec THEN [sec |-> WrapSec(s + 1), usec |-> us - USecPerSec]
                         ELSE [sec |-> WrapSec(s), usec |-> us]

(* evutil_timersub(tvp, uvp, vvp), util.h 578-586: subtract the fields;   *)
(* at most one borrow from tv_sec into tv_usec.                            *)
TimerSub(t, u) ==
  LET s == t.sec - u.sec
      us == t.usec - u.usec
  IN IF us < 0 THEN [sec |-> WrapSec(s - 1), usec |-> us + USecPerSec]
               ELSE [sec |-> WrapSec(s), usec |-> us]

\* evutil_timerclear(tvp), util.h 589-593.
TimerClear == [sec |-> 0, usec |-> 0]

(* evutil_timercmp(tvp, uvp, cmp), util.h 596-602: the seconds decide      *)
(* unless they are equal, then the microseconds.  cmp is the relational    *)
(* operator the macro pastes in, one of those its comment recognizes.      *)
(* The mutant compares both fields with cmp and requires both to hold.     *)
Cmps == {"==", "<=", "<", ">=", ">"}

Rel(a, cmp, b) ==
  CASE cmp = "==" -> a = b  [] cmp = "<=" -> a <= b [] cmp = "<" -> a < b
    [] cmp = ">=" -> a >= b [] cmp = ">"  -> a > b

TimerCmpBothFields(t, u, cmp) == Rel(t.sec, cmp, u.sec) /\ Rel(t.usec, cmp, u.usec)

TimerCmp(t, u, cmp) ==
  IF t.sec = u.sec THEN Rel(t.usec, cmp, u.usec) ELSE Rel(t.sec, cmp, u.sec)

\* evutil_timerisset(tvp), util.h 604-608.
TimerIsSet(t) == t.sec # 0 \/ t.usec # 0

-----------------------------------------------------------------------------
Init ==
  /\ tv \in TimeVals /\ uv \in TimeVals
  /\ vv = TimerClear
  /\ op = "none"

Add   == op = "none" /\ vv' = TimerAdd(tv, uv)  /\ op' = "add"   /\ UNCHANGED <<tv, uv>>
Sub   == op = "none" /\ vv' = TimerSub(tv, uv)  /\ op' = "sub"   /\ UNCHANGED <<tv, uv>>

Next == Add \/ Sub

Spec == Init /\ [][Next]_vars

-----------------------------------------------------------------------------
\* What a timeval stands for: a signed count of microseconds.
ToUSec(t) == t.sec * USecPerSec + t.usec

\* The microsecond counts a normalized timeval can stand for.
Representable(n) == n \in SecMin * USecPerSec .. SecMax * USecPerSec + USecPerSec - 1

Exact == IF op = "add" THEN ToUSec(tv) + ToUSec(uv) ELSE ToUSec(tv) - ToUSec(uv)

TypeOK ==
  /\ tv \in TimeVals /\ uv \in TimeVals
  /\ vv \in [sec : SecMin..SecMax, usec : Int]
  /\ op \in {"none", "add", "sub"}

(* evutil_timeradd and evutil_timersub are exact: whenever the exact sum  *)
(* or difference of two normalized timevals is representable, the result  *)
(* is normalized (0 <= tv_usec < one second, so the single carry or       *)
(* borrow was enough) and stands for that many microseconds.  A deadline  *)
(* now + timeout is what event_add() and the bufferevent timeouts rely on. *)
ArithmeticExact ==
  op # "none" /\ Representable(Exact) => vv \in TimeVals /\ ToUSec(vv) = Exact

(* evutil_timercmp orders timevals as the microsecond counts they stand    *)
(* for, for each operator its comment recognizes (==, <=, <, >=, >), and   *)
(* evutil_timerisset holds exactly of the non-zero ones: comparing a       *)
(* deadline with the current time, as the loop does to expire timers,     *)
(* gives the answer the counts give, for operands and results alike.       *)
CmpIsOrder ==
  \A t, u \in {tv, uv, vv} \cap TimeVals :
    /\ \A cmp \in Cmps : TimerCmp(t, u, cmp) = Rel(ToUSec(t), cmp, ToUSec(u))
    /\ TimerIsSet(t) = (ToUSec(t) # 0)

=============================================================================
