-------------------------------- MODULE Readln --------------------------------
(***************************************************************************)
(* evbuffer_readln() and evbuffer_search_eol() of event2/buffer.h: where a *)
(* line ends under each evbuffer_eol_style, and what a reader gets when   *)
(* the bytes of a stream reach the input buffer in pieces of any size      *)
(* (one evbuffer_add per read from the socket) while it calls readln()     *)
(* whenever it likes.                                                      *)
(***************************************************************************)
EXTENDS Naturals, Sequences

CONSTANTS
  CR, LF, NUL,  \* the three bytes an EOL style looks at
  Inputs,       \* the byte streams a peer may send
  Styles,       \* the evbuffer_eol_style values a reader may use
  MaxChunk      \* bound on the bytes one read from the socket adds

VARIABLES
  style,   \* the eol_style the reader passes to readln
  input,   \* the whole stream the peer sends
  got,     \* how many bytes of it have reached the buffer
  buf,     \* the bytes in the input evbuffer
  lines    \* the lines readln has returned so far

vars == <<style, input, got, buf, lines>>

NoLine == [found |-> FALSE]

InputBytes == UNION {{s[i] : i \in DOMAIN s} : s \in Inputs}

\* The number of CR and LF bytes in a row from position i of s.
RECURSIVE EolRun(_, _)
EolRun(s, i) == IF i <= Len(s) /\ s[i] \in {CR, LF} THEN 1 + EolRun(s, i + 1) ELSE 0

CRLFAt(s, i) == i < Len(s) /\ s[i] = CR /\ s[i + 1] = LF

(* The length of the EOL that starts at position i of s, 0 when none does *)
(* (enum evbuffer_eol_style, buffer.h 465-488):                            *)
(*   any: any sequence of CR and LF;   crlf: an LF, optionally after a CR; *)
(*   crlf_strict: a CR followed by an LF;   lf: an LF;   nul: a NUL.       *)
(* The mutant takes a CR at the end of the buffer for a whole CRLF EOL.    *)
EolLenCRAtEnd(s, i, st) ==
  CASE st = "any"         -> EolRun(s, i)
    [] st = "crlf"        -> IF s[i] = LF THEN 1
                             ELSE IF CRLFAt(s, i) \/ (s[i] = CR /\ i = Len(s)) THEN 2 ELSE 0
    [] st = "crlf_strict" -> IF CRLFAt(s, i) THEN 2 ELSE 0
    [] st = "lf"          -> IF s[i] = LF THEN 1 ELSE 0
    [] st = "nul"         -> IF s[i] = NUL THEN 1 ELSE 0

EolLen(s, i, st) ==
  CASE st = "any"         -> EolRun(s, i)
    [] st = "crlf"        -> IF s[i] = LF THEN 1 ELSE IF CRLFAt(s, i) THEN 2 ELSE 0
    [] st = "crlf_strict" -> IF CRLFAt(s, i) THEN 2 ELSE 0
    [] st = "lf"          -> IF s[i] = LF THEN 1 ELSE 0
    [] st = "nul"         -> IF s[i] = NUL THEN 1 ELSE 0

(* evbuffer_search_eol(buffer, start, eol_len_out, eol_style), buffer.h    *)
(* 929-947: the position of the first EOL at or after i, 0 for "pos = -1". *)
RECURSIVE SearchEol(_, _, _)
SearchEol(s, i, st) ==
  IF i > Len(s) THEN 0
  ELSE IF EolLen(s, i, st) > 0 THEN i ELSE SearchEol(s, i + 1, st)

(* evbuffer_readln(buffer, n_read_out, eol_style), buffer.h 490-508: the   *)
(* bytes before the first EOL, without it, and the buffer drained of them  *)
(* and of the EOL; NULL, and no change, while the buffer holds no EOL.    *)
(* The mutant starts the search one byte past the start of the buffer.    *)
ReadlnSkipFirst(s, st) ==
  LET pos == SearchEol(s, 2, st) IN
  IF pos = 0 THEN NoLine
  ELSE [found |-> TRUE, line |-> SubSeq(s, 1, pos - 1),
        rest |-> SubSeq(s, pos + EolLen(s, pos, st), Len(s))]

Readln(s, st) ==
  LET pos == SearchEol(s, 1, st) IN
  IF pos = 0 THEN NoLine
  ELSE [found |-> TRUE, line |-> SubSeq(s, 1, pos - 1),
        rest |-> SubSeq(s, pos + EolLen(s, pos, st), Len(s))]

\* The lines of s read at once: readln called until it returns NULL.
RECURSIVE AllLines(_, _)
AllLines(s, st) ==
  LET r == Readln(s, st) IN
  IF r.found THEN <<r.line>> \o AllLines(r.rest, st) ELSE <<>>

-----------------------------------------------------------------------------
Init ==
  /\ style \in Styles
  /\ input \in Inputs
  /\ got = 0
  /\ buf = <<>>
  /\ lines = <<>>

(* A read from the socket appends the next k bytes (evbuffer_add).  The   *)
(* mutant asks for k bytes and counts k, however few the peer had sent.    *)
ArriveCountsRequested(k) ==
  /\ got < Len(input)
  /\ buf' = buf \o SubSeq(input, got + 1, IF got + k <= Len(input) THEN got + k ELSE Len(input))
  /\ got' = got + k
  /\ UNCHANGED <<style, input, lines>>

Arrive(k) ==
  /\ got + k <= Len(input)
  /\ buf' = buf \o SubSeq(input, got + 1, got + k)
  /\ got' = got + k
  /\ UNCHANGED <<style, input, lines>>

\* The reader calls readln() and gets a line.
ReadLine ==
  LET r == Readln(buf, style) IN
  /\ r.found
  /\ lines' = Append(lines, r.line)
  /\ buf' = r.rest
  /\ UNCHANGED <<style, input, got>>

\* Everything sent has arrived and readln() returns NULL.
Done == got = Len(input) /\ ~Readln(buf, style).found

Next == ReadLine \/ \E k \in 1..MaxChunk : Arrive(k)

Spec == Init /\ [][Next]_vars

-----------------------------------------------------------------------------
TypeOK ==
  /\ style \in Styles /\ input \in Inputs
  /\ got \in 0..Len(input)
  /\ buf \in Seq(InputBytes) /\ lines \in Seq(Seq(InputBytes))

NonEmpty(ls) == SelectSeq(ls, LAMBDA l : l # <<>>)

(* With every style but "any", the lines a reader gets do not depend on   *)
(* how the stream was cut into reads nor on when readln() was called: a   *)
(* CR at the end of the buffer waits for the byte after it.                *)
LinesIndependentOfReads ==
  Done /\ style # "any" => lines = AllLines(input, style)

(* With "any", a CR and an LF that arrive in two reads make two EOLs       *)
(* (buffer.h 470-474), so the reader may get extra empty lines, but never *)
(* other ones: its non-empty lines are those of the whole stream.          *)
AnyOnlyAddsEmptyLines ==
  Done /\ style = "any" => NonEmpty(lines) = NonEmpty(AllLines(input, style))

=============================================================================
