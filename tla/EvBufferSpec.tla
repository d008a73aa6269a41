----------------------------- MODULE EvBufferSpec -----------------------------
(***************************************************************************)
(* What an evbuffer promises (event2/buffer.h), with its storage left out: *)
(* each buffer is one flat sequence of bytes, read at the front and        *)
(* appended at the back, with the front and the back separately frozen.   *)
(* EvBuffer, the segment chain, is checked to implement this module.       *)
(***************************************************************************)
EXTENDS Naturals, Sequences

CONSTANTS
  Bufs,      \* the evbuffers
  Bytes,     \* the byte values
  MaxLen     \* bound on the bytes one buffer holds

VARIABLES
  content,   \* content[b]: the bytes of b, front first
  frozen,    \* frozen[b]: [front |-> BOOLEAN, back |-> BOOLEAN]
  lastRead   \* the bytes the latest evbuffer_remove/copyout returned

absVars == <<content, frozen, lastRead>>

Chunks == UNION {[1..n -> Bytes] : n \in 1..2}

MinOf(a, b) == IF a <= b THEN a ELSE b

\* The first n bytes of b, or all of them when b holds fewer.
Front(b, n) == SubSeq(content[b], 1, MinOf(n, Len(content[b])))
Rest(b, n)  == SubSeq(content[b], MinOf(n, Len(content[b])) + 1, Len(content[b]))

Fits(b, n) == Len(content[b]) + n <= MaxLen

Init ==
  /\ content = [b \in Bufs |-> <<>>]
  /\ frozen = [b \in Bufs |-> [front |-> FALSE, back |-> FALSE]]
  /\ lastRead = <<>>

Add(b, d) ==
  /\ ~frozen[b].back /\ Fits(b, Len(d))
  /\ content' = [content EXCEPT ![b] = @ \o d]
  /\ UNCHANGED <<frozen, lastRead>>

Prepend(b, d) ==
  /\ ~frozen[b].front /\ Fits(b, Len(d))
  /\ content' = [content EXCEPT ![b] = d \o @]
  /\ UNCHANGED <<frozen, lastRead>>

Drain(b, n) ==
  /\ ~frozen[b].front
  /\ content' = [content EXCEPT ![b] = Rest(b, n)]
  /\ UNCHANGED <<frozen, lastRead>>

Remove(b, n) ==
  /\ ~frozen[b].front
  /\ lastRead' = Front(b, n)
  /\ content' = [content EXCEPT ![b] = Rest(b, n)]
  /\ UNCHANGED frozen

CopyOut(b, n) ==
  /\ lastRead' = Front(b, n)
  /\ UNCHANGED <<content, frozen>>

\* Up to n bytes leave the front of src for the back of dst.
Move(src, dst, n) ==
  /\ src # dst
  /\ ~frozen[src].front /\ ~frozen[dst].back
  /\ Fits(dst, Len(Front(src, n)))
  /\ content' = [content EXCEPT ![dst] = @ \o Front(src, n),
                                ![src] = Rest(src, n)]
  /\ UNCHANGED <<frozen, lastRead>>

\* All of src goes before the bytes of dst.
PrependAll(dst, src) ==
  /\ src # dst
  /\ ~frozen[src].front /\ ~frozen[dst].front
  /\ Fits(dst, Len(content[src]))
  /\ content' = [content EXCEPT ![dst] = content[src] \o @, ![src] = <<>>]
  /\ UNCHANGED <<frozen, lastRead>>

SetFrozen(b, side, v) ==
  /\ frozen' = [frozen EXCEPT ![b][side] = v]
  /\ UNCHANGED <<content, lastRead>>

Next ==
  \/ \E b \in Bufs, d \in Chunks : Add(b, d) \/ Prepend(b, d)
  \/ \E b \in Bufs, n \in 1..MaxLen : Drain(b, n) \/ Remove(b, n) \/ CopyOut(b, n)
  \/ \E b, c \in Bufs : PrependAll(b, c) \/ \E n \in 1..MaxLen : Move(b, c, n)
  \/ \E b \in Bufs, side \in {"front", "back"}, v \in BOOLEAN : SetFrozen(b, side, v)

Spec == Init /\ [][Next]_absVars

=============================================================================
