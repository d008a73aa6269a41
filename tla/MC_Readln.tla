------------------------------- MODULE MC_Readln -------------------------------
(* Every stream of up to five bytes over one letter and the three EOL     *)
(* bytes, arriving in pieces of one to three bytes, under every EOL style. *)
EXTENDS Readln, SequencesExt

CONSTANTS a

MC_AllInputs == BoundedSeq({a, CR, LF, NUL}, 5)
MC_AllStyles == {"any", "crlf", "crlf_strict", "lf", "nul"}
===============================================================================
