---------------------------- MODULE RunLifecycle ----------------------------
(***************************************************************************)
(* What the daemon promises about a provider run, whatever threads and     *)
(* requests work on it: the abstract specification that ProviderExecutor   *)
(* is shown to implement.                                                  *)
(*                                                                         *)
(* A run that began ends once, in one terminal state.  It is never         *)
(* reported as running again after a cancellation was accepted, and an     *)
(* accepted cancellation ends as Cancelled; only a daemon that died can    *)
(* no longer know, and says Uncertain.                                     *)
(***************************************************************************)
CONSTANT Run   \* run identities

VARIABLES
    state,     \* the state the identity catalog shows for each run
    accepted   \* runs with a run.cancel_accepted event in the journal

vars == <<state, accepted>>

LiveState == {"Starting", "Running", "Cancelling"}
EndState == {"Succeeded", "Failed", "Cancelled", "Blocked", "Uncertain"}
State == {"Absent"} \cup LiveState \cup EndState

Init == state = [r \in Run |-> "Absent"] /\ accepted = {}

Begin(r) ==
    /\ state[r] = "Absent"
    /\ state' = [state EXCEPT ![r] = "Starting"]
    /\ UNCHANGED accepted

ReportRunning(r) ==
    /\ state[r] = "Starting"
    /\ state' = [state EXCEPT ![r] = "Running"]
    /\ UNCHANGED accepted

\* A cancellation is accepted while the run is live, or because it already
\* ended as Cancelled.
AcceptCancel(r) ==
    /\ \/ state[r] \in LiveState /\ state' = [state EXCEPT ![r] = "Cancelling"]
       \/ state[r] = "Cancelled" /\ UNCHANGED state
    /\ accepted' = accepted \cup {r}

End(r, s) ==
    /\ state[r] \in LiveState
    /\ r \in accepted => s = "Cancelled"
    /\ state' = [state EXCEPT ![r] = s]
    /\ UNCHANGED accepted

\* A restarted daemon.
Recover ==
    /\ state' = [r \in Run |-> IF state[r] \in LiveState THEN "Uncertain" ELSE state[r]]
    /\ UNCHANGED accepted

Next ==
    \/ \E r \in Run : Begin(r) \/ ReportRunning(r) \/ AcceptCancel(r)
    \/ \E r \in Run, s \in EndState : End(r, s)
    \/ Recover

Spec == Init /\ [][Next]_vars
=============================================================================
