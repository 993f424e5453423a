----------------------------- MODULE RunVerdict -----------------------------
(***************************************************************************)
(* What a write-once evidence run promises to everybody who reads it, with *)
(* no mention of files or markers: a run is open until it is either        *)
(* accepted or closed, each of the two at most once and for good.  Only    *)
(* harm from outside the program (interference with its files, a power     *)
(* cut) can take an acceptance back, and nothing ever reopens a run.       *)
(***************************************************************************)
VARIABLES
  verdict,  \* "open", "accepted" or "closed"
  harmed    \* something outside the program has touched the run

TypeOK == verdict \in {"open", "accepted", "closed"} /\ harmed \in BOOLEAN

Init == verdict = "open" /\ harmed = FALSE

Accept == verdict = "open" /\ verdict' = "accepted" /\ UNCHANGED harmed

Close == verdict = "open" /\ verdict' = "closed" /\ UNCHANGED harmed

Harm == harmed' = TRUE /\ verdict' \in {verdict, "closed"}

Next == Accept \/ Close \/ Harm

Spec == Init /\ [][Next]_<<verdict, harmed>>
=============================================================================
