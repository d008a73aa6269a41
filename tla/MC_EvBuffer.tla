------------------------------ MODULE MC_EvBuffer ------------------------------
(* Two buffers, two byte values, at most two bytes per buffer (MaxLen in   *)
(* EvBuffer.cfg) and one lent region of two bytes, so that a move of one  *)
(* byte splits a lent chunk.                                               *)
EXTENDS EvBuffer, TLC

CONSTANTS b1, b2, x, y, r1

MC_Bufs == {b1, b2}
MC_Bytes == {x, y}
MC_Refs == {r1}
MC_RefData == [r \in {r1} |-> <<x, y>>]
\* No constant and no action tells one buffer from the other.
BufSymmetry == Permutations(MC_Bufs)
(* States that differ only in the bytes last copied out behave alike: no   *)
(* action reads lastRead, and the flat buffer only compares it with the    *)
(* front of a buffer (remove, copyout) or with itself (every other step).  *)
(* Its length is kept so that a remove differs from a drain.               *)
ChainView == <<chain, frozen, Len(lastRead), lent, cleanups, cbinfo>>
===============================================================================
