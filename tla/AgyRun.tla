------------------------------- MODULE AgyRun -------------------------------
(***************************************************************************)
(* One run of the Agy adapter as the daemon drives it                      *)
(* (crates/bastet-adapter-agy, run_agy_with_launcher of                    *)
(* crates/bastet-daemon/src/provider_executor.rs).                         *)
(*                                                                         *)
(* The run thread starts the CLI, writes the prompt and polls the lines of *)
(* its stdout until one ends the run; the loop looks at the token between  *)
(* two polls.  The pipes are those of ProcessPipes: a FIFO `lines' that    *)
(* ends, or that fails for good when it overflows.  The child writes what  *)
(* it likes and may end in the middle of a line.  The inactivity deadline  *)
(* is not a clock: a poll may find it passed whenever it looks at it.      *)
(***************************************************************************)
EXTENDS AdapterState, AgyOutcome

CONSTANT MaxLines       \* bound: lines the child writes

ASSUME AgyAssumption == MaxLines \in Nat /\ QueueItems \in Nat \ {0}

\* AgyProcess and AgyRunStream; the program points are spawn, write, loop,
\* poll and done, and log holds the child's lines.
VARIABLES
    lines,        \* lines read from stdout and not yet taken
    recovering,   \* pending: the Recovering update of a resumed conversation
    before,       \* a workspace snapshot to compare with is held
    initialized,  \* AgyRunStream
    closed

process == <<recovering, before, stopped, held>>
stream == <<initialized, closed, text>>
vars == <<pc, cancelled, child, lines, overflowed, eof, process, stream, outcome,
          log, broke, why>>

Outcomes == {"Succeeded", "Failed", "Cancelled", "Blocked", "Uncertain"}

Promise == INSTANCE AdapterRun

\* What a result line says.  DENIED is a SUCCESS that lists denied actions.
Statuses == [SUCCESS |-> "Succeeded", DENIED |-> "Succeeded", ERROR |-> "Failed",
             CANCELED |-> "Cancelled", INVALID |-> "Failed", WAITING |-> "Blocked",
             RUNNING |-> "Uncertain"]

\* `step' may carry text or usage; `bad' does not decode, is of another
\* conversation or has an unknown event.
Lines == {"init", "step", "bad"} \cup DOMAIN Statuses

Init ==
    /\ pc = "spawn" /\ cancelled = FALSE /\ child = "none" /\ lines = <<>>
    /\ overflowed = FALSE /\ eof = FALSE /\ recovering \in BOOLEAN /\ before \in BOOLEAN
    /\ initialized = FALSE /\ closed = FALSE /\ text = "none" /\ stopped = FALSE
    /\ held = "none" /\ outcome = "none" /\ log = <<>> /\ broke = FALSE /\ why = "none"

-----------------------------------------------------------------------------
(* How a run ends.                                                         *)

\* MUTANT: the caller of a cancelled run is told so whatever the cleanup gave.
AbortTrusting(error) ==
    /\ child' \in Promise!Closed(child)
    /\ outcome' = IF error = "cancelled" THEN "Cancelled" ELSE "Uncertain"
    /\ why' = error /\ pc' = "done"

\* An error of the adapter ends the run: startup_failure, terminate or Drop shut
\* the child down.  Cancelled is believed only when that succeeded; every other
\* error becomes ProviderOutcome::unavailable.
Abort(error) ==
    /\ child' \in Promise!Closed(child)
    /\ outcome' = IF error = "cancelled" /\ Promise!Confirmed(child')
                  THEN "Cancelled" ELSE "Uncertain"
    /\ why' = error /\ pc' = "done"

\* outcome(): a success without an answer is a failure.
Judge(state) == IF state = "Succeeded" /\ text # "some" THEN "Failed" ELSE state

\* A terminal update: reap or terminate must confirm the cleanup first.  In a run
\* that may write, order_terminal delivers a change of the workspace before it
\* and holds the terminal update back; capturing the workspace may fail.  (The
\* daemon's runs are read-only, without a snapshot; it refuses a receipt.)
EndWith(state, cause) ==
    \/ Abort("cleanup") /\ child' = "lost" /\ UNCHANGED <<before, held>>
    \/ /\ before /\ Abort("workspace") /\ Promise!Confirmed(child')
       /\ before' = FALSE /\ UNCHANGED held
    \/ /\ child' \in Promise!Closed(child) /\ Promise!Confirmed(child')
       /\ before' = FALSE
       /\ \/ outcome' = Judge(state) /\ why' = cause /\ pc' = "done" /\ UNCHANGED held
          \/ before /\ held' = state /\ pc' = "loop" /\ UNCHANGED <<outcome, why>>

\* local_terminal: the end of a stream that has not ended by itself.  (A closed
\* stream refuses everything; nobody polls it.)
LocalEnd(state, cause) == ~closed /\ closed' = TRUE /\ EndWith(state, cause)

StreamCancelled == LocalEnd("Cancelled", "cancelled")
StreamTimedOut == LocalEnd("Failed", "timed_out")
StreamCrashed == LocalEnd("Uncertain", "crashed")

-----------------------------------------------------------------------------
(* Starting.                                                               *)

\* spawn_with_launcher_and_cancel up to OwnedAdapterChild::spawn: everything that
\* can be refused is refused before a child exists.
Spawn ==
    /\ pc = "spawn"
    /\ \/ Abort("refused")
       \/ cancelled /\ Abort("cancelled")
       \/ ~cancelled /\ child' = "live" /\ pc' = "write" /\ UNCHANGED <<outcome, why>>
    /\ UNCHANGED <<cancelled, lines, overflowed, eof, process, stream, log, broke>>

\* The pipes and the prompt: a failure, or the token, ends in startup_failure.
WritePrompt ==
    /\ pc = "write"
    /\ \/ Abort("unavailable")
       \/ cancelled /\ Abort("cancelled")
       \/ ~cancelled /\ pc' = "loop" /\ UNCHANGED <<child, outcome, why>>
    /\ UNCHANGED <<cancelled, lines, overflowed, eof, process, stream, log, broke>>

-----------------------------------------------------------------------------
(* The loop of run_agy_with_launcher.                                      *)

\* The token is looked at between two polls: cancel_and_close.
Loop ==
    /\ pc = "loop"
    /\ \/ cancelled /\ stopped' = TRUE /\ eof' = TRUE /\ Abort("cancelled")
       \/ ~cancelled /\ pc' = "poll" /\ UNCHANGED <<child, outcome, why, stopped, eof>>
    /\ UNCHANGED <<cancelled, lines, overflowed, recovering, before, held, stream, log, broke>>

\* A line cut off by the end of the child is handed over like any other.
Torn ==
    \/ UNCHANGED <<lines, broke, overflowed>>
    \/ /\ Len(lines) < QueueItems
       /\ lines' = Append(lines, "bad") /\ broke' = TRUE /\ UNCHANGED overflowed

\* request_cancellation, which the process offers its caller between two polls:
\* refused before init and after the end.  The reader is closed after the child.
RequestCancellation ==
    /\ pc = "loop" /\ initialized /\ ~closed
    /\ stopped' = TRUE /\ eof' = TRUE
    /\ IF eof \/ overflowed THEN UNCHANGED <<lines, broke, overflowed>> ELSE Torn
    /\ \/ Abort("cleanup") /\ child' = "lost"
       \/ /\ child' \in Promise!Closed(child) /\ Promise!Confirmed(child')
          /\ UNCHANGED <<pc, outcome, why>>
    /\ UNCHANGED <<cancelled, recovering, before, held, stream, log>>

\* The observation window of a poll is over.
PollWindow ==
    /\ pc = "poll" /\ ~overflowed /\ ~recovering /\ held = "none" /\ pc' = "loop"
    /\ UNCHANGED <<cancelled, child, lines, overflowed, eof, process, stream, outcome,
                   log, broke, why>>

\* A failed queue comes before everything else, what is held included.
PollFailed ==
    /\ pc = "poll" /\ overflowed
    /\ Abort("unavailable") /\ eof' = TRUE
    /\ UNCHANGED <<cancelled, lines, overflowed, process, stream, log, broke>>

\* Then what waits: the Recovering update, and the terminal update held back.
PollWaiting ==
    /\ pc = "poll" /\ ~overflowed
    /\ \/ /\ recovering /\ recovering' = FALSE /\ pc' = "loop"
          /\ UNCHANGED <<held, outcome>>
       \/ /\ ~recovering /\ held # "none"
          /\ outcome' = Judge(held) /\ held' = "none" /\ pc' = "done"
          /\ UNCHANGED recovering
    /\ UNCHANGED <<cancelled, child, lines, overflowed, eof, before, stopped, stream, log,
                   broke, why>>

Polling == pc = "poll" /\ ~overflowed /\ ~recovering /\ held = "none"

\* The inactivity deadline is looked at before the queue, so a line that has
\* arrived meanwhile is not read.
PollTimesOut ==
    /\ Polling /\ StreamTimedOut /\ eof' = TRUE
    /\ UNCHANGED <<cancelled, lines, overflowed, recovering, stopped, initialized, text,
                   log, broke>>

\* consume_init: the daemon records the first Running, which may fail.
ConsumeInit ==
    /\ ~initialized /\ initialized' = TRUE
    /\ \/ pc' = "loop" /\ UNCHANGED <<child, outcome, why>>
       \/ Abort("store")
    /\ UNCHANGED <<closed, text, before, held>>

\* consume_step: text too long discards the answer for good; usage is an update.
ConsumeStep ==
    /\ initialized
    /\ text' \in (IF text = "none" THEN {"none", "some", "overflowed"}
                  ELSE {text, "overflowed"})
    /\ pc' \in {"poll", "loop"}
    /\ UNCHANGED <<child, outcome, why, initialized, closed, before, held>>

\* consume_result: before init only an error is believed.
ConsumeResult(l) ==
    /\ initialized \/ l = "ERROR"
    /\ closed' = TRUE
    /\ EndWith(IF l = "DENIED" /\ text # "some" THEN "Failed" ELSE Statuses[l], "result")
    /\ UNCHANGED <<initialized, text>>

\* A line that is not of the protocol where it stands.
ConsumeDrift(l) ==
    /\ \/ l = "bad"
       \/ l = "init" /\ initialized
       \/ l \notin {"init", "ERROR"} /\ ~initialized
    /\ Abort("drift") /\ UNCHANGED <<stream, before, held>>

\* consume_line of an open stream.
Consume(l) ==
    /\ ~closed
    /\ \/ l = "init" /\ ConsumeInit
       \/ l = "step" /\ ConsumeStep
       \/ l \in DOMAIN Statuses /\ ConsumeResult(l)
       \/ ConsumeDrift(l)

PollLine ==
    /\ Polling /\ lines # <<>>
    /\ lines' = Tail(lines) /\ Consume(Head(lines))
    /\ eof' = (eof \/ child' # "live")
    /\ UNCHANGED <<cancelled, overflowed, recovering, stopped, log, broke>>

\* MUTANT: the end of the output is a crash, asked for or not.
PollEndsCrashed ==
    /\ Polling /\ eof /\ lines = <<>>
    /\ StreamCrashed
    /\ UNCHANGED <<cancelled, lines, overflowed, eof, recovering, stopped, initialized,
                   text, log, broke>>

\* The output has ended: a cancelled run if that was asked for, else a crash.
PollEnds ==
    /\ Polling /\ eof /\ lines = <<>>
    /\ \/ stopped /\ StreamCancelled
       \/ ~stopped /\ StreamCrashed
    /\ UNCHANGED <<cancelled, lines, overflowed, eof, recovering, stopped, initialized,
                   text, log, broke>>

-----------------------------------------------------------------------------
(* The child and the token.                                                *)

Ended == \E i \in 1..Len(log) : log[i] \in DOMAIN Statuses

\* A correct CLI says init first, or fails with an error; then steps and a result.
Proper(l) ==
    /\ ~Ended
    /\ IF log = <<>> THEN l \in {"init", "ERROR"} ELSE l \in {"step"} \cup DOMAIN Statuses

WriteLine ==
    /\ child = "live" /\ ~eof /\ ~overflowed /\ pc # "done" /\ Len(log) < MaxLines
    /\ \E l \in Lines :
        /\ log' = Append(log, l)
        /\ broke' = (broke \/ ~Proper(l))
        /\ IF Len(lines) < QueueItems THEN lines' = Append(lines, l) /\ UNCHANGED overflowed
           ELSE overflowed' = TRUE /\ UNCHANGED lines
    /\ UNCHANGED <<pc, cancelled, child, eof, process, stream, outcome, why>>

ChildEnds ==
    /\ child = "live" /\ ~eof /\ ~overflowed /\ pc # "done" /\ eof' = TRUE
    /\ Torn
    /\ UNCHANGED <<pc, cancelled, child, process, stream, outcome, log, why>>

Cancel ==
    /\ ~cancelled /\ pc # "done" /\ cancelled' = TRUE
    /\ UNCHANGED <<pc, child, lines, overflowed, eof, process, stream, outcome, log, broke, why>>

Done == pc = "done" /\ UNCHANGED vars

RunThread ==
    Spawn \/ WritePrompt \/ Loop \/ PollWindow \/ PollFailed \/ PollWaiting
      \/ PollTimesOut \/ PollLine \/ PollEnds

Next == RunThread \/ RequestCancellation \/ WriteLine \/ ChildEnds \/ Cancel \/ Done

\* The run thread is scheduled, and a deadline no line moves is seen by some poll.
Spec == Init /\ [][Next]_vars /\ WF_vars(RunThread) /\ SF_vars(PollTimesOut)

-----------------------------------------------------------------------------
(* Properties.                                                             *)

\* The adapter keeps what the daemon relies on: one child, shut down before the
\* outcome, no definite outcome without confirmed cleanup, and an outcome in the
\* end (process.rs poll_update, startup_failure, cancel_and_close).
KeepsPromise == Promise!Spec
=============================================================================
