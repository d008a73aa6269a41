---------------------------- MODULE MC_EventBase ----------------------------
(* Three events: r1 an fd event with EV_PERSIST at the urgent priority,   *)
(* r2 a one-shot fd event and t1 a one-shot timer, both at priority 1.    *)
EXTENDS EventBase, TLC

CONSTANTS r1, r2, t1

MC_Events == {r1, r2, t1}
MC_IoEvents == {r1, r2}
MC_Persist == {r1}
MC_Prio == (r1 :> 0) @@ (r2 :> 1) @@ (t1 :> 1)
\* r1 and r2 watch the same fd (say, for reading and for writing).
MC_Fd == (r1 :> 1) @@ (r2 :> 1)
\* The timer is made and freed by the program while the loop runs.
MC_Dynamic == {t1}

=============================================================================
