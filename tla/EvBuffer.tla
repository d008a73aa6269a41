------------------------------- MODULE EvBuffer -------------------------------
(***************************************************************************)
(* The evbuffer of event2/buffer.h as what it is since Libevent 2.0: a     *)
(* linked list of memory chunks (buffer.h lines 76-78).  A chunk is either *)
(* memory the buffer owns, which may grow at its free space, or memory the *)
(* caller lent with evbuffer_add_reference(), which is never written and   *)
(* whose cleanup function runs once the buffer lets go of it.  Moves      *)
(* between buffers splice whole chunks; the one chunk a move cuts through  *)
(* is copied.  The callbacks of a buffer are deferred to the event loop    *)
(* (evbuffer_defer_callbacks), so what they are told accumulates between  *)
(* two runs in an evbuffer_cb_info.                                        *)
(***************************************************************************)
EXTENDS Naturals, Sequences

Seqs == INSTANCE SequencesExt

CONSTANTS
  Bufs,      \* the evbuffers
  Bytes,     \* the byte values
  MaxLen,    \* bound on the bytes one buffer holds
  Refs,      \* memory regions lent with evbuffer_add_reference()
  RefData,   \* RefData[r]: the bytes of region r
  NoRef,     \* "owned by the buffer"
  MaxUnreported \* bound on the changes waiting for the deferred callbacks

ASSUME /\ MaxLen \in Nat /\ NoRef \notin Refs
       /\ RefData \in [Refs -> UNION {[1..n -> Bytes] : n \in 1..MaxLen}]

VARIABLES
  chain,     \* chain[b]: the chunks of b, front first: [data, ref]
  frozen,    \* frozen[b]: [front |-> BOOLEAN, back |-> BOOLEAN]
  lastRead,  \* the bytes the latest evbuffer_remove/copyout returned
  lent,      \* regions added by reference so far
  cleanups,  \* cleanups[r]: times the cleanup function of r has run
  cbinfo     \* cbinfo[b]: the evbuffer_cb_info the next callback run gets

vars == <<chain, frozen, lastRead, lent, cleanups, cbinfo>>

Chunks == UNION {[1..n -> Bytes] : n \in 1..2}

Owned(d) == [data |-> d, ref |-> NoRef]

MinOf(a, b) == IF a <= b THEN a ELSE b

\* The bytes of a chain, front first; the buffer's length is its length.
Content(ch) == Seqs!FlattenSeq([i \in DOMAIN ch |-> ch[i].data])

Length(b) == Len(Content(chain[b]))

Fits(b, n) == Length(b) + n <= MaxLen

\* Regions some chunk of some buffer still points into.
Held(chains) == UNION {{chains[b][i].ref : i \in DOMAIN chains[b]} : b \in Bufs} \ {NoRef}

(* Every region no chunk points into any more, after the step, has its     *)
(* cleanup function run (evbuffer_ref_cleanup_cb, buffer.h 547-555).        *)
Cleanup ==
  cleanups' = [r \in Refs |-> IF r \in Held(chain) \ Held(chain')
                              THEN cleanups[r] + 1 ELSE cleanups[r]]

\* The callbacks of b are owed a report of a added and d deleted bytes.
Note(info, b, a, d) ==
  [info EXCEPT ![b].n_added = @ + a, ![b].n_deleted = @ + d]

(* Draining k bytes from the front of a chain: chunks wholly consumed are  *)
(* released, the chunk the cut falls in keeps its tail (its misalign       *)
(* advances); nothing is copied.  The mutant advances the start of the    *)
(* cut chunk one byte too far.                                             *)
RECURSIVE DropBytesPastCut(_, _)
DropBytesPastCut(ch, k) ==
  IF k = 0 THEN ch
  ELSE IF k >= Len(Head(ch).data)
       THEN DropBytesPastCut(Tail(ch), k - Len(Head(ch).data))
       ELSE <<[Head(ch) EXCEPT !.data = SubSeq(@, k + 2, Len(@))]>> \o Tail(ch)

RECURSIVE DropBytes(_, _)
DropBytes(ch, k) ==
  IF k = 0 THEN ch
  ELSE IF k >= Len(Head(ch).data)
       THEN DropBytes(Tail(ch), k - Len(Head(ch).data))
       ELSE <<[Head(ch) EXCEPT !.data = SubSeq(@, k + 1, Len(@))]>> \o Tail(ch)

(* The chunks that carry the first k bytes to another buffer: whole chunks *)
(* are spliced as they are, the chunk the cut falls in is copied into an   *)
(* owned chunk (at most one chunk is split).                               *)
RECURSIVE TakeBytes(_, _)
TakeBytes(ch, k) ==
  IF k = 0 THEN <<>>
  ELSE IF k >= Len(Head(ch).data)
       THEN <<Head(ch)>> \o TakeBytes(Tail(ch), k - Len(Head(ch).data))
       ELSE <<Owned(SubSeq(Head(ch).data, 1, k))>>

-----------------------------------------------------------------------------
(* evbuffer_add(buf, data, datlen), buffer.h 383-392: fails while the back *)
(* is frozen.  The bytes go into the free space of the last chunk when it  *)
(* is owned memory with room, else into a new chunk; a lent chunk is       *)
(* immutable.  The mutant writes into the last chunk whatever it is.       *)
AddAnyTail(b, d) ==
  /\ ~frozen[b].back /\ Fits(b, Len(d))
  /\ \/ /\ chain[b] # <<>>
        /\ chain' = [chain EXCEPT ![b][Len(chain[b])].data = @ \o d]
     \/ chain' = [chain EXCEPT ![b] = Append(@, Owned(d))]
  /\ cbinfo' = Note(cbinfo, b, Len(d), 0)
  /\ UNCHANGED <<frozen, lastRead, lent, cleanups>>

Add(b, d) ==
  /\ ~frozen[b].back /\ Fits(b, Len(d))
  /\ \/ /\ chain[b] # <<>> /\ Seqs!Last(chain[b]).ref = NoRef
        /\ chain' = [chain EXCEPT ![b][Len(chain[b])].data = @ \o d]
     \/ chain' = [chain EXCEPT ![b] = Append(@, Owned(d))]
  /\ cbinfo' = Note(cbinfo, b, Len(d), 0)
  /\ UNCHANGED <<frozen, lastRead, lent, cleanups>>

(* evbuffer_add_reference(outbuf, data, datlen, cleanupfn, arg), buffer.h *)
(* 557-577: a chunk pointing at the caller's memory, without a copy.       *)
AddReference(b, r) ==
  /\ r \notin lent
  /\ ~frozen[b].back /\ Fits(b, Len(RefData[r]))
  /\ chain' = [chain EXCEPT ![b] = Append(@, [data |-> RefData[r], ref |-> r])]
  /\ lent' = lent \cup {r}
  /\ cbinfo' = Note(cbinfo, b, Len(RefData[r]), 0)
  /\ UNCHANGED <<frozen, lastRead, cleanups>>

(* evbuffer_prepend(buf, data, size), buffer.h 1140-1151: fails while the  *)
(* front is frozen; uses free space before the first owned chunk or a new  *)
(* first chunk.                                                            *)
Prepend(b, d) ==
  /\ ~frozen[b].front /\ Fits(b, Len(d))
  /\ \/ /\ chain[b] # <<>> /\ Head(chain[b]).ref = NoRef
        /\ chain' = [chain EXCEPT ![b][1].data = d \o @]
     \/ chain' = [chain EXCEPT ![b] = <<Owned(d)>> \o @]
  /\ cbinfo' = Note(cbinfo, b, Len(d), 0)
  /\ UNCHANGED <<frozen, lastRead, lent, cleanups>>

(* evbuffer_drain(buf, len), buffer.h 790-800, and evbuffer_remove(buf,    *)
(* data, datlen), 395-409, which also copies the bytes out: at most the    *)
(* length is taken; both fail while the front is frozen.                   *)
Drain(b, n) ==
  LET k == MinOf(n, Length(b)) IN
  /\ ~frozen[b].front
  /\ chain' = [chain EXCEPT ![b] = DropBytes(@, k)]
  /\ Cleanup
  /\ cbinfo' = Note(cbinfo, b, 0, k)
  /\ UNCHANGED <<frozen, lastRead, lent>>

Remove(b, n) ==
  LET k == MinOf(n, Length(b)) IN
  /\ ~frozen[b].front
  /\ lastRead' = SubSeq(Content(chain[b]), 1, k)
  /\ chain' = [chain EXCEPT ![b] = DropBytes(@, k)]
  /\ Cleanup
  /\ cbinfo' = Note(cbinfo, b, 0, k)
  /\ UNCHANGED <<frozen, lent>>

(* evbuffer_copyout(buf, data_out, datlen), buffer.h 411-425: the buffer   *)
(* is left unchanged.                                                       *)
CopyOut(b, n) ==
  /\ lastRead' = SubSeq(Content(chain[b]), 1, MinOf(n, Length(b)))
  /\ UNCHANGED <<chain, frozen, lent, cleanups, cbinfo>>

(* evbuffer_remove_buffer(src, dst, datlen), buffer.h 443-460: up to       *)
(* datlen bytes move from the front of src to the back of dst; it fails    *)
(* when the front of src or the back of dst is frozen.  Both buffers'      *)
(* callbacks are told.                                                     *)
RemoveBuffer(src, dst, n) ==
  LET k == MinOf(n, Length(src)) IN
  /\ src # dst
  /\ ~frozen[src].front /\ ~frozen[dst].back /\ Fits(dst, k)
  /\ chain' = [chain EXCEPT ![dst] = @ \o TakeBytes(chain[src], k),
                            ![src] = DropBytes(@, k)]
  /\ cbinfo' = Note(Note(cbinfo, src, 0, k), dst, k, 0)
  /\ UNCHANGED <<frozen, lastRead, lent, cleanups>>

(* evbuffer_add_buffer(outbuf, inbuf), buffer.h 510-525: every chunk of    *)
(* inbuf is spliced after those of outbuf.  The mutant tells only outbuf's *)
(* callbacks.                                                              *)
AddBufferNoSrcInfo(dst, src) ==
  /\ src # dst
  /\ ~frozen[src].front /\ ~frozen[dst].back /\ Fits(dst, Length(src))
  /\ chain' = [chain EXCEPT ![dst] = @ \o chain[src], ![src] = <<>>]
  /\ cbinfo' = Note(cbinfo, dst, Length(src), 0)
  /\ UNCHANGED <<frozen, lastRead, lent, cleanups>>

AddBuffer(dst, src) ==
  /\ src # dst
  /\ ~frozen[src].front /\ ~frozen[dst].back /\ Fits(dst, Length(src))
  /\ chain' = [chain EXCEPT ![dst] = @ \o chain[src], ![src] = <<>>]
  /\ cbinfo' = Note(Note(cbinfo, src, 0, Length(src)), dst, Length(src), 0)
  /\ UNCHANGED <<frozen, lastRead, lent, cleanups>>

(* evbuffer_prepend_buffer(dst, src), buffer.h 1153-1163: every chunk of   *)
(* src goes before those of dst; the fronts of both must not be frozen.    *)
(* The mutant forgets the room check.                                       *)
PrependBufferNoRoom(dst, src) ==
  /\ src # dst
  /\ ~frozen[src].front /\ ~frozen[dst].front
  /\ chain' = [chain EXCEPT ![dst] = chain[src] \o @, ![src] = <<>>]
  /\ cbinfo' = Note(Note(cbinfo, src, 0, Length(src)), dst, Length(src), 0)
  /\ UNCHANGED <<frozen, lastRead, lent, cleanups>>

PrependBuffer(dst, src) ==
  /\ src # dst
  /\ ~frozen[src].front /\ ~frozen[dst].front /\ Fits(dst, Length(src))
  /\ chain' = [chain EXCEPT ![dst] = chain[src] \o @, ![src] = <<>>]
  /\ cbinfo' = Note(Note(cbinfo, src, 0, Length(src)), dst, Length(src), 0)
  /\ UNCHANGED <<frozen, lastRead, lent, cleanups>>

(* evbuffer_pullup(buf, size), buffer.h 1125-1138: the first size bytes   *)
(* are copied into one new chunk unless the first chunk holds them        *)
(* already; chunks wholly copied are released.  More than the length:     *)
(* NULL and no change.                                                     *)
Pullup(b, n) ==
  /\ n <= Length(b) /\ chain[b] # <<>> /\ n > Len(Head(chain[b]).data)
  /\ chain' = [chain EXCEPT ![b] = <<Owned(SubSeq(Content(@), 1, n))>>
                                   \o DropBytes(@, n)]
  /\ Cleanup
  /\ UNCHANGED <<frozen, lastRead, lent, cbinfo>>

(* evbuffer_freeze(buf, at_front) / evbuffer_unfreeze, buffer.h           *)
(* 1165-1193: not nested, freezing twice is freezing once.                 *)
Freeze(b, side, v) ==
  /\ frozen' = [frozen EXCEPT ![b][side] = v]
  /\ UNCHANGED <<chain, lastRead, lent, cleanups, cbinfo>>

(* The deferred callbacks of b run from the event loop (buffer.h          *)
(* 1196-1206) and are given orig_size, n_added and n_deleted since the     *)
(* previous run (evbuffer_cb_info, 988-1001); then the counts restart.     *)
RunCallbacks(b) ==
  /\ cbinfo[b].n_added + cbinfo[b].n_deleted > 0
  /\ cbinfo' = [cbinfo EXCEPT ![b] = [orig_size |-> Length(b),
                                      n_added |-> 0, n_deleted |-> 0]]
  /\ UNCHANGED <<chain, frozen, lastRead, lent, cleanups>>

Init ==
  /\ chain = [b \in Bufs |-> <<>>]
  /\ frozen = [b \in Bufs |-> [front |-> FALSE, back |-> FALSE]]
  /\ lastRead = <<>>
  /\ lent = {}
  /\ cleanups = [r \in Refs |-> 0]
  /\ cbinfo = [b \in Bufs |-> [orig_size |-> 0, n_added |-> 0, n_deleted |-> 0]]

Next ==
  \/ \E b \in Bufs, d \in Chunks : Add(b, d) \/ Prepend(b, d)
  \/ \E b \in Bufs, r \in Refs : AddReference(b, r)
  \/ \E b \in Bufs, n \in 1..MaxLen :
        Drain(b, n) \/ Remove(b, n) \/ CopyOut(b, n) \/ Pullup(b, n)
  \/ \E b, c \in Bufs :
        \/ AddBuffer(b, c) \/ PrependBuffer(b, c)
        \/ \E n \in 1..MaxLen : RemoveBuffer(b, c, n)
  \/ \E b \in Bufs : RunCallbacks(b)
  \/ \E b \in Bufs, side \in {"front", "back"}, v \in BOOLEAN : Freeze(b, side, v)

Spec == Init /\ [][Next]_vars

-----------------------------------------------------------------------------
TypeOK ==
  /\ \A b \in Bufs : \A i \in DOMAIN chain[b] :
       chain[b][i].data \in Seq(Bytes) /\ chain[b][i].ref \in Refs \cup {NoRef}
  /\ \A b \in Bufs : Length(b) <= MaxLen
  /\ frozen \in [Bufs -> [front : BOOLEAN, back : BOOLEAN]]
  /\ lent \subseteq Refs /\ cleanups \in [Refs -> Nat]
  /\ cbinfo \in [Bufs -> [orig_size : Nat, n_added : Nat, n_deleted : Nat]]

(* The flat view: the chain of each buffer read front to back.            *)
ABS == INSTANCE EvBufferSpec WITH content <- [b \in Bufs |-> Content(chain[b])]

(* The chain implements the flat buffer: every add, drain, remove, move,  *)
(* prepend and pullup, whichever chunks it touches and however it splits  *)
(* them, changes the bytes as the flat buffer does, and copyout/remove    *)
(* return its front bytes.                                                 *)
RefinesFlatBuffer == ABS!Spec

(* Lent memory (evbuffer_add_reference): no chunk ever holds other bytes   *)
(* than a tail of the region it points into (the buffer only reads it and *)
(* advances its start), and the cleanup function has run exactly once for  *)
(* each region no chunk points into any more, and never for one still in  *)
(* use.                                                                    *)
LentMemoryIntact ==
  /\ \A b \in Bufs : \A i \in DOMAIN chain[b] :
       chain[b][i].ref # NoRef => Seqs!IsSuffix(chain[b][i].data, RefData[chain[b][i].ref])
  /\ \A r \in Refs : cleanups[r] = IF r \in lent \ Held(chain) THEN 1 ELSE 0

(* What the deferred callbacks are owed adds up: orig_size + n_added -     *)
(* n_deleted is the buffer's length, for both buffers of a move as for    *)
(* one, so a callback can tell how its buffer changed (buffer.h 993-1001). *)
CbInfoAddsUp ==
  \A b \in Bufs : cbinfo[b].orig_size + cbinfo[b].n_added - cbinfo[b].n_deleted
                    = Length(b)

\* Bounds the callback counts, which grow while callbacks do not run.
InfoBound == \A b \in Bufs : cbinfo[b].n_added + cbinfo[b].n_deleted <= MaxUnreported

=============================================================================
