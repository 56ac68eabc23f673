----------------------------- MODULE AgyOutcome -----------------------------
(***************************************************************************)
(* What the outcome of an Agy run may say, judged by what the child, the   *)
(* user and the system did.  AgyRun is the run it is about.                *)
(***************************************************************************)
EXTENDS AdapterState, Integers, Sequences, SequencesExt

VARIABLES
    stopped,      \* cancellation_requested
    broke         \* history: a line was cut off or is not of the protocol

\* What is reported was observed: success needs init, an answer and a SUCCESS of
\* the child in this order, a blocked run its WAITING, a cancelled one the token,
\* an accepted request or the child's word (stream.rs consume_result).
OutcomeWasSaid ==
    /\ outcome = "Succeeded" =>
         \E i, j, k \in 1..Len(log) :
            /\ i < j /\ j < k
            /\ log[i] = "init" /\ log[j] = "step" /\ log[k] \in {"SUCCESS", "DENIED"}
    /\ outcome = "Blocked" => "WAITING" \in Range(log)
    /\ outcome = "Cancelled" => cancelled \/ stopped \/ "CANCELED" \in Range(log)

\* An accepted cancellation ends in a definite outcome.  It is uncertain only
\* when the cleanup failed, the output was cut off, flooded or not of the
\* protocol, the child said it was still running, or the workspace could not be
\* read: the end of the child's output is then no crash (process.rs:400).
StopIsDefinite ==
    stopped /\ outcome = "Uncertain" =>
        child = "lost" \/ broke \/ overflowed \/ "RUNNING" \in Range(log) \/ why = "workspace"

\* Every outcome has its reason in what the child, the user and the system did
\* (stream.rs consume_result, process.rs poll_update).
OutcomeHasReason == OutcomeWasSaid /\ StopIsDefinite
=============================================================================
