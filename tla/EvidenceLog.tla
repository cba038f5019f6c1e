----------------------------- MODULE EvidenceLog -----------------------------
(***************************************************************************)
(* What an evidence file of the gateway promises: it holds what was         *)
(* accepted, once, in the order of acceptance, with nothing left out, and   *)
(* when it is closed it is complete.                                        *)
(***************************************************************************)
EXTENDS Naturals, Sequences

CONSTANT Item

VARIABLES accepted, file, closed

Init ==
    /\ accepted = << >>
    /\ file = << >>
    /\ closed = FALSE

Accept ==
    /\ ~closed
    /\ \E x \in Item : accepted' = Append(accepted, x)
    /\ UNCHANGED <<file, closed>>

\* Some of what was accepted reaches the file.
Write ==
    /\ ~closed
    /\ \E k \in Len(file) + 1 .. Len(accepted) : file' = SubSeq(accepted, 1, k)
    /\ UNCHANGED <<accepted, closed>>

Close ==
    /\ ~closed
    /\ file = accepted
    /\ closed' = TRUE
    /\ UNCHANGED <<accepted, file>>

Next == Accept \/ Write \/ Close

Spec == Init /\ [][Next]_<<accepted, file, closed>>
=============================================================================
