----------------------------- MODULE AdapterRun -----------------------------
(***************************************************************************)
(* What a provider adapter promises the daemon for one run, whichever      *)
(* provider it drives: at most one child process is started, it is owned   *)
(* until it has been shut down, and one outcome is reported.  An outcome   *)
(* other than Uncertain is reported only when no child was started or its  *)
(* cleanup was confirmed.  CodexRun and AgyRun implement it.               *)
(***************************************************************************)
CONSTANT Outcomes       \* the terminal states a run may be given, Uncertain among them

VARIABLES
    child,      \* none, live, clean (shut down) or lost (shutdown failed)
    outcome     \* none until the run is over

vars == <<child, outcome>>

\* Shutting down a child that is live may fail; a failure is never forgotten.
Closed(c) == IF c = "live" THEN {"clean", "lost"} ELSE {c}

\* No process of the run can be left over.
Confirmed(c) == c \in {"none", "clean"}

Init == child = "none" /\ outcome = "none"

Start == outcome = "none" /\ child = "none" /\ child' = "live" /\ UNCHANGED outcome

Close == child = "live" /\ child' \in Closed(child) /\ UNCHANGED outcome

\* The child is shut down, at the latest now, and the outcome is told.
Report ==
    /\ outcome = "none"
    /\ child' \in Closed(child)
    /\ outcome' \in Outcomes
    /\ outcome' = "Uncertain" \/ Confirmed(child')

Next == Start \/ Close \/ Report

\* Every run is brought to an outcome.
Spec == Init /\ [][Next]_vars /\ WF_vars(Report)
=============================================================================
