----------------------------- MODULE BinaryFlag -----------------------------
(***************************************************************************)
(* What the ddtp_block_until_* / ddtp_signal_* pairs of lock.cpp promise   *)
(* their callers: a binary flag that a signal raises and that exactly one  *)
(* blocked thread lowers again.  The flag does not count: two signals with *)
(* no block between them are one.                                          *)
(***************************************************************************)

CONSTANT Threads     \* the threads that share the flag

VARIABLES raised,    \* the flag: DDTP_DATA_READY or not
          blocked    \* the threads inside ddtp_block_until_*

vars == <<raised, blocked>>

TypeOK == /\ raised \in BOOLEAN
          /\ blocked \subseteq Threads

Init == /\ raised = FALSE
        /\ blocked = {}

Block(t) == /\ t \notin blocked
            /\ blocked' = blocked \cup {t}
            /\ UNCHANGED raised

Take(t) == /\ t \in blocked
           /\ raised
           /\ raised' = FALSE
           /\ blocked' = blocked \ {t}

Signal(t) == /\ t \notin blocked
             /\ raised' = TRUE
             /\ UNCHANGED blocked

Next == \E t \in Threads : Block(t) \/ Take(t) \/ Signal(t)

Spec == Init /\ [][Next]_vars

(* A raised flag is not left standing while somebody waits for it.         *)
FairSpec == Spec /\ WF_vars(\E t \in Threads : Take(t))
=============================================================================
