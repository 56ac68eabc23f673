------------------------------ MODULE CodexRun ------------------------------
(***************************************************************************)
(* One run of the Codex adapter as the daemon drives it                    *)
(* (crates/bastet-adapter-codex, run_codex_with_launcher of                *)
(* crates/bastet-daemon/src/provider_executor.rs).                         *)
(*                                                                         *)
(* The run thread speaks JSON-RPC over the pipes of an app-server child:   *)
(* initialize, initialized, thread/start, turn/start, then it polls        *)
(* notifications until a terminal one; turn/interrupt may be sent in       *)
(* between.  A step is one round of a receive loop, with the checks the    *)
(* round begins with.  The pipes are those of ProcessPipes: a FIFO `inbox' *)
(* that ends, or that fails for good when it overflows.  The child sends   *)
(* what it likes: replies in any order and late, notifications during a    *)
(* request, and up to MaxFaults messages no correct app-server sends.      *)
(* Deadlines are not clocks here: a round may find its deadline passed     *)
(* whenever it looks at it.                                                *)
(***************************************************************************)
EXTENDS AdapterState, Integers, Sequences, FiniteSets, SequencesExt

CONSTANTS
    MaxNotes,       \* bound: notifications the child sends
    MaxFaults,      \* bound: malformed or unsolicited messages it sends
    MaxInterrupts,  \* bound: turn/interrupt requests
    MaxAbandoned,   \* MAX_ABANDONED_REQUESTS
    PendingItems    \* OUTPUT_QUEUE_ITEMS, of pending_notifications

ASSUME CodexAssumption ==
    /\ MaxNotes \in Nat /\ MaxFaults \in Nat /\ MaxInterrupts \in Nat
    /\ MaxAbandoned \in Nat \ {0} /\ PendingItems \in Nat \ {0} /\ QueueItems \in Nat \ {0}

\* StdioTransport and CodexRunTracker; the program points are spawn, pipes,
\* send, receive, poll and done, and log holds the child's notifications.
VARIABLES
    method,       \* the method being sent or awaited
    nextId,       \* next_request_id
    pending,      \* pending_notifications
    abandoned,    \* abandoned_request_ids
    outputFailed,
    inbox,        \* messages read from stdout and not yet taken
    writes,       \* the sandbox policy lets the turn write (a `before' snapshot)
    terminal,     \* CodexRunStream.terminal
    receipt,      \* provider_write_receipt
    running,      \* saw_running
    \* history
    ingested,     \* the notifications the tracker was given, in order
    answered,     \* the requests the child has replied to
    faults,       \* messages no correct app-server sends
    evicted       \* an abandoned id was forgotten for room

rpc == <<method, nextId>>
transport == <<pending, abandoned, outputFailed>>
pipe == <<inbox, overflowed, eof>>
tracker == <<terminal, receipt, held, text, running>>
provider == <<log, answered, faults>>
vars == <<pc, rpc, transport, cancelled, child, pipe, writes, tracker, outcome,
          ingested, why, provider, evicted>>

Outcomes == {"Succeeded", "Failed", "Cancelled", "Uncertain"}

Promise == INSTANCE AdapterRun

\* turn/completed by status; `answer' is a final agentMessage, `change' a file
\* change or a diff, `other' whatever belongs to another turn, only
\* tells the cost or is not read, `malformed' lacks what its method requires.
Ends == [completed |-> "Succeeded", interrupted |-> "Cancelled", failed |-> "Failed"]
Notes == {"started", "answer", "change", "other", "malformed"} \cup DOMAIN Ends

Note(n) == [type |-> "note", note |-> n]
Reply(i, b) == [type |-> "reply", id |-> i, body |-> b]
Garbage == [type |-> "garbage"]

Init ==
    /\ pc = "spawn" /\ method = "initialize" /\ nextId = 0 /\ pending = <<>> /\ abandoned = <<>>
    /\ outputFailed = FALSE /\ cancelled = FALSE /\ child = "none"
    /\ inbox = <<>> /\ overflowed = FALSE /\ eof = FALSE /\ writes \in BOOLEAN
    /\ terminal = FALSE /\ receipt = FALSE /\ held = "none" /\ text = "none"
    /\ running = FALSE /\ outcome = "none" /\ ingested = <<>>
    /\ why = "none" /\ log = <<>> /\ answered = {} /\ faults = 0
    /\ evicted = FALSE

-----------------------------------------------------------------------------
(* How a run ends.                                                         *)

\* An adapter error ends the run: the transport is closed, by the check that
\* failed or by its Drop.  Cancelled is believed only when the close succeeded;
\* every other error becomes ProviderOutcome::unavailable.
Abort(error) ==
    /\ child' \in Promise!Closed(child)
    /\ outcome' = IF error = "cancelled" /\ Promise!Confirmed(child')
                  THEN "Cancelled" ELSE "Uncertain"
    /\ why' = error /\ pc' = "done"

\* outcome(): a success without an answer is a failure.
Judge(state) == IF state = "Succeeded" /\ text # "some" THEN "Failed" ELSE state

\* MUTANT: the outcome of the provider is returned whatever the cleanup gave.
ConcludeUnchecked(state) ==
    /\ child' \in Promise!Closed(child)
    /\ outcome' = Judge(state) /\ why' = "none" /\ held' = "none" /\ pc' = "done"

\* A terminal update reaches the loop: close_checked must confirm the cleanup
\* before the outcome is returned.
Conclude(state) ==
    /\ child' \in Promise!Closed(child)
    /\ outcome' = IF Promise!Confirmed(child') THEN Judge(state) ELSE "Uncertain"
    /\ why' = IF Promise!Confirmed(child') THEN "none" ELSE "cleanup"
    /\ held' = "none" /\ pc' = "done"

\* order_update for a terminal update: in a run that may write, a change of the
\* workspace the provider has not reported is delivered first and the terminal
\* update is held back.  Capturing the workspace may fail.
OrderTerminal(state, closing) ==
    \/ Conclude(state)
    \/ writes /\ ~receipt /\ Abort("workspace") /\ UNCHANGED held
    \/ /\ writes /\ ~receipt
       /\ held' = state
       /\ child' \in (IF closing THEN Promise!Closed(child) ELSE {child})
       /\ UNCHANGED <<pc, outcome, why>>

\* CodexRunStream::local_terminal, for a run that went silent or lost its child.
\* (A second terminal update would be refused; nobody polls for one.)
LocalTerminal(state, closing) ==
    /\ ~terminal /\ terminal' = TRUE
    /\ OrderTerminal(state, closing)

-----------------------------------------------------------------------------
(* Starting: the child, then one request after the other.                  *)

\* StdioTransport::spawn: nothing is started for a run already cancelled.
Spawn ==
    /\ pc = "spawn"
    /\ \/ cancelled /\ Abort("cancelled")
       \/ ~cancelled /\ Abort("unavailable")
       \/ /\ ~cancelled
          /\ child' = "live" /\ pc' = "pipes" /\ UNCHANGED <<outcome, why>>
    /\ UNCHANGED <<rpc, transport, cancelled, pipe, writes, tracker, ingested,
                   provider, evicted>>

\* The writer and the reader of the pipes; a failure drops the child.
OpenPipes ==
    /\ pc = "pipes"
    /\ \/ Abort("unavailable")
       \/ pc' = "send" /\ UNCHANGED <<child, outcome, why>>
    /\ UNCHANGED <<rpc, transport, cancelled, pipe, writes, tracker, ingested,
                   provider, evicted>>

Failing == outputFailed \/ overflowed

\* write_message: the checks, the frame, and the close when the frame cannot be
\* delivered.  `initialized' is a notification and awaits nothing.  Before
\* thread/start a run that may write captures its workspace.  (A frame of its
\* own that is too large is drift in the code; both end the run as Uncertain.)
Send ==
    /\ pc = "send"
    /\ \/ Failing /\ Abort("unavailable") /\ UNCHANGED <<rpc, transport>>
       \/ ~Failing /\ cancelled /\ Abort("cancelled") /\ UNCHANGED <<rpc, transport>>
       \/ /\ ~Failing /\ ~cancelled
          /\ \/ Abort("timed_out")
             \/ Abort("unavailable")
             \/ method = "thread/start" /\ writes /\ Abort("workspace")
          /\ UNCHANGED <<rpc, transport>>
       \/ /\ ~Failing /\ ~cancelled /\ method = "initialized"
          /\ method' = "thread/start"
          /\ UNCHANGED <<pc, nextId, transport, child, outcome, why>>
       \/ /\ ~Failing /\ ~cancelled /\ method # "initialized"
          /\ nextId' = nextId + 1 /\ pc' = "receive"
          /\ UNCHANGED <<method, transport, child, outcome, why>>
    /\ UNCHANGED <<cancelled, pipe, writes, tracker, ingested, provider,
                   evicted>>

\* What follows the reply to each request.
Initialized == method = "initialize" /\ method' = "initialized" /\ pc' = "send"
ThreadStarted == method = "thread/start" /\ method' = "turn/start" /\ pc' = "send"
TurnStarted == method = "turn/start" /\ method' = "none" /\ pc' = "poll"
Interrupted ==
    /\ method \in {"turn/interrupt", "turn/interrupt within"}
    /\ method' = "none" /\ pc' = "poll"

Advance == Initialized \/ ThreadStarted \/ TurnStarted \/ Interrupted

\* MUTANT: replies to abandoned requests are not recognised.
QuarantinedNever(m) == FALSE

\* discard_abandoned_response: the reply is one nobody waits for any more.
Quarantined(m) == m.type = "reply" /\ m.id \in Range(abandoned)

\* (An id is abandoned once, so it has one position.)
Forget(id) == RemoveAt(abandoned, CHOOSE p \in DOMAIN abandoned : abandoned[p] = id)

\* route_request_message and decode_response: a notification is put by, the
\* reply with the expected id is the result, and anything else closes the
\* transport, which stays failed.  (The code calls too many notifications drift
\* as well; they are told apart here.)
Route(m) ==
    \/ /\ m.type = "note" /\ Len(pending) < PendingItems
       /\ pending' = Append(pending, m.note)
       /\ UNCHANGED <<pc, method, outputFailed, child, outcome, why>>
    \/ /\ m.type = "note" /\ Len(pending) >= PendingItems
       /\ outputFailed' = TRUE /\ Abort("flood")
       /\ UNCHANGED <<method, pending>>
    \/ /\ m.type = "reply" /\ m.id = nextId - 1 /\ m.body = "ok"
       /\ Advance
       /\ UNCHANGED <<pending, outputFailed, child, outcome, why>>
    \/ /\ m.type = "reply" /\ (m.id # nextId - 1 \/ m.body # "ok")
       /\ outputFailed' = TRUE
       /\ Abort(IF m.id = nextId - 1 /\ m.body = "rejected" THEN "rejected" ELSE "drift")
       /\ UNCHANGED <<method, pending>>

\* request_inner, one round: the checks of receive_message, then the message.
Receive ==
    /\ pc = "receive" /\ ~Failing /\ ~cancelled /\ inbox # <<>>
    /\ inbox' = Tail(inbox)
    /\ LET m == Head(inbox) IN
       \/ /\ m.type = "garbage" /\ Abort("drift")
          /\ UNCHANGED <<method, transport>>
       \/ /\ Quarantined(m)
          /\ abandoned' = Forget(m.id)
          /\ UNCHANGED <<pc, method, pending, outputFailed, child, outcome, why>>
       \/ /\ m.type # "garbage" /\ ~Quarantined(m)
          /\ Route(m) /\ UNCHANGED abandoned
    /\ UNCHANGED <<nextId, cancelled, overflowed, eof, writes, tracker,
                   ingested, provider, evicted>>

\* receive_message finds the stream failed, the token raised, or the end.
ReceiveFails ==
    /\ pc = "receive"
    /\ \/ (Failing \/ (~cancelled /\ eof /\ inbox = <<>>)) /\ Abort("unavailable")
       \/ ~Failing /\ cancelled /\ Abort("cancelled")
    /\ UNCHANGED <<rpc, transport, cancelled, pipe, writes, tracker, ingested,
                   provider, evicted>>

\* The deadline of the request has passed.  A bounded request is remembered and
\* the run goes on; any other ends it.
ReceiveTimesOut ==
    /\ pc = "receive" /\ ~Failing /\ ~cancelled
    /\ IF method = "turn/interrupt within"
       THEN /\ abandoned' = Append(IF Len(abandoned) = MaxAbandoned THEN Tail(abandoned)
                                   ELSE abandoned, nextId - 1)
            /\ evicted' = (evicted \/ Len(abandoned) = MaxAbandoned)
            /\ method' = "none" /\ pc' = "poll"
            /\ UNCHANGED <<child, outcome, why>>
       ELSE Abort("timed_out") /\ UNCHANGED <<abandoned, evicted, method>>
    /\ UNCHANGED <<nextId, pending, outputFailed, cancelled, pipe,
                   writes, tracker, ingested, provider>>

-----------------------------------------------------------------------------
(* Observing the turn.                                                     *)

\* request_cancellation and request_cancellation_with_timeout, which the tracker
\* offers its caller between two polls (the daemon's loop raises the token
\* instead); resume_thread takes the course of the first.  Every error but the
\* abandoned request ends the run.
Interrupt ==
    /\ pc = "poll" /\ held = "none" /\ nextId < 3 + MaxInterrupts
    /\ method' \in {"turn/interrupt", "turn/interrupt within"} /\ pc' = "send"
    /\ UNCHANGED <<nextId, transport, cancelled, child, pipe, writes, tracker,
                   outcome, ingested, why, provider, evicted>>

\* turn_started: the first one is recorded by the daemon, which may fail.
IngestStarted ==
    /\ ~terminal
    /\ \/ running' = TRUE /\ UNCHANGED <<pc, child, outcome, why>>
       \/ ~running /\ Abort("store") /\ UNCHANGED running
    /\ UNCHANGED <<terminal, receipt, held, text>>

\* turn_completed.
IngestEnd(n) ==
    /\ ~terminal /\ terminal' = TRUE
    /\ OrderTerminal(Ends[n], FALSE)
    /\ UNCHANGED <<receipt, text, running>>

\* CodexFinalOutput::ingest: an answer too long discards the text for good.
IngestAnswer ==
    /\ text' \in (IF text = "none" THEN {"some", "overflowed"} ELSE {text, "overflowed"})
    /\ UNCHANGED <<pc, child, outcome, why, terminal, receipt, held, running>>

\* file_change_completed and diff_updated.
IngestChange ==
    /\ receipt' = TRUE
    /\ UNCHANGED <<pc, child, outcome, why, terminal, held, text, running>>

\* A notification whose parameters are not those of its method.
IngestDrift == Abort("drift") /\ UNCHANGED tracker

\* One round of poll_run_update_with_output and of the daemon's loop.
Ingest(n) ==
    /\ ingested' = Append(ingested, n)
    /\ \/ n = "started" /\ IngestStarted
       \/ n \in DOMAIN Ends /\ IngestEnd(n)
       \/ n = "answer" /\ IngestAnswer
       \/ n = "change" /\ IngestChange
       \/ n = "other" /\ UNCHANGED <<pc, child, outcome, why, tracker>>
       \/ n = "malformed" /\ IngestDrift

\* poll_notification takes what was put by during a request first.
PollPending ==
    /\ pc = "poll" /\ ~cancelled /\ ~Failing /\ held = "none" /\ pending # <<>>
    /\ pending' = Tail(pending)
    /\ Ingest(Head(pending))
    /\ UNCHANGED <<rpc, abandoned, outputFailed, cancelled, pipe, writes, provider,
                   evicted>>

\* MUTANT: the pipe is read although notifications were put by.
PollMessageEager ==
    /\ pc = "poll" /\ ~cancelled /\ ~Failing /\ held = "none"
    /\ inbox # <<>> /\ inbox' = Tail(inbox)
    /\ LET m == Head(inbox) IN
       \/ /\ Quarantined(m) /\ abandoned' = Forget(m.id)
          /\ UNCHANGED <<pc, child, outcome, why, tracker, ingested>>
       \/ /\ m.type = "note" /\ Ingest(m.note) /\ UNCHANGED abandoned
       \/ /\ m.type # "note" /\ ~Quarantined(m)
          /\ Abort("drift") /\ UNCHANGED <<abandoned, tracker, ingested>>
    /\ UNCHANGED <<rpc, pending, outputFailed, cancelled, overflowed, eof, writes,
                   provider, evicted>>

\* Then the pipe.  A quarantined reply is no activity; a reply to anything else
\* is not a notification.
PollMessage ==
    /\ pc = "poll" /\ ~cancelled /\ ~Failing /\ held = "none" /\ pending = <<>>
    /\ inbox # <<>> /\ inbox' = Tail(inbox)
    /\ LET m == Head(inbox) IN
       \/ /\ Quarantined(m) /\ abandoned' = Forget(m.id)
          /\ UNCHANGED <<pc, child, outcome, why, tracker, ingested>>
       \/ /\ m.type = "note" /\ Ingest(m.note) /\ UNCHANGED abandoned
       \/ /\ m.type # "note" /\ ~Quarantined(m)
          /\ Abort("drift") /\ UNCHANGED <<abandoned, tracker, ingested>>
    /\ UNCHANGED <<rpc, pending, outputFailed, cancelled, overflowed, eof, writes,
                   provider, evicted>>

\* The inactivity deadline: looked at before the pipe, so what has arrived
\* meanwhile is not read.  The transport is left to the loop to close.
PollTimesOut ==
    /\ pc = "poll" /\ ~cancelled /\ ~Failing /\ held = "none" /\ pending = <<>>
    /\ LocalTerminal("Failed", FALSE)
    /\ UNCHANGED <<rpc, transport, cancelled, pipe, writes, receipt, text, running,
                   ingested, provider, evicted>>

\* The stream failed (the check closes the transport) or ended.
PollLost ==
    /\ pc = "poll" /\ held = "none"
    /\ \/ Failing /\ LocalTerminal("Uncertain", TRUE)
       \/ /\ ~Failing /\ ~cancelled /\ pending = <<>> /\ eof /\ inbox = <<>>
          /\ LocalTerminal("Uncertain", FALSE)
    /\ UNCHANGED <<rpc, transport, cancelled, pipe, writes, receipt, text, running,
                   ingested, provider, evicted>>

\* The terminal update held back for a write receipt.
PollHeld ==
    /\ pc = "poll" /\ ~cancelled /\ held # "none"
    /\ Conclude(held)
    /\ UNCHANGED <<rpc, transport, cancelled, pipe, writes, terminal, receipt, text,
                   running, ingested, provider, evicted>>

\* The token is seen by the loop, or by the check of a round.
PollCancelled ==
    /\ pc = "poll" /\ cancelled
    /\ Abort("cancelled")
    /\ UNCHANGED <<rpc, transport, cancelled, pipe, writes, tracker, ingested,
                   provider, evicted>>

-----------------------------------------------------------------------------
(* The app-server child, the clock and the token.                          *)

\* The reader hands a message over; on a full queue the stream fails for good.
Deliver(m) ==
    /\ child = "live" /\ ~eof /\ ~overflowed /\ pc \notin {"pipes", "done"}
    /\ IF Len(inbox) < QueueItems THEN inbox' = Append(inbox, m) /\ UNCHANGED overflowed
       ELSE overflowed' = TRUE /\ UNCHANGED inbox
    /\ UNCHANGED <<pc, rpc, transport, cancelled, child, writes, tracker, outcome,
                   ingested, why, evicted>>

Requested == 0..nextId - 1

\* A correct app-server answers each request once; it speaks of the turn once it
\* was asked to start it, and of its course until it has ended.
SendReply ==
    /\ \E i \in Requested \ answered, b \in {"ok", "rejected"} :
        Deliver(Reply(i, b)) /\ answered' = answered \cup {i}
    /\ UNCHANGED <<log, faults, eof>>

SendNote ==
    /\ Len(log) < MaxNotes
    /\ \E n \in Notes \ {"malformed"} :
        /\ n = "other" \/ nextId > 2
        /\ n \in {"started"} \cup DOMAIN Ends => Range(log) \cap DOMAIN Ends = {}
        /\ Deliver(Note(n)) /\ log' = Append(log, n)
    /\ UNCHANGED <<answered, faults, eof>>

\* A message no correct app-server sends.  Garbage makes the reader return.
SendFault ==
    /\ faults < MaxFaults /\ faults' = faults + 1
    /\ \/ Deliver(Garbage) /\ eof' = TRUE /\ UNCHANGED log
       \/ \E i \in {nextId - 1, nextId} : Deliver(Reply(i, "bad")) /\ UNCHANGED <<log, eof>>
       \/ \E i \in answered : Deliver(Reply(i, "ok")) /\ UNCHANGED <<log, eof>>
       \/ /\ Len(log) < MaxNotes
          /\ \E n \in {"malformed", "started"} :
                Deliver(Note(n)) /\ log' = Append(log, n) /\ UNCHANGED eof
    /\ UNCHANGED answered

ChildEnds ==
    /\ child = "live" /\ ~eof /\ pc \notin {"pipes", "done"} /\ eof' = TRUE
    /\ UNCHANGED <<pc, rpc, transport, cancelled, child, inbox, overflowed, writes, tracker,
                   outcome, ingested, why, provider, evicted>>

Cancel ==
    /\ ~cancelled /\ pc # "done" /\ cancelled' = TRUE
    /\ UNCHANGED <<pc, rpc, transport, child, pipe, writes, tracker, outcome,
                   ingested, why, provider, evicted>>

Done == pc = "done" /\ UNCHANGED vars

RunThread ==
    Spawn \/ OpenPipes \/ Send \/ Receive \/ ReceiveFails \/ ReceiveTimesOut \/ PollPending
      \/ PollMessage \/ PollTimesOut \/ PollLost \/ PollHeld \/ PollCancelled
Environment == SendReply \/ SendNote \/ SendFault \/ ChildEnds \/ Cancel

Next == RunThread \/ Interrupt \/ Environment \/ Done

\* The run thread is scheduled and time passes; the child owes nothing.
Spec == Init /\ [][Next]_vars /\ WF_vars(RunThread)

-----------------------------------------------------------------------------
(* Properties.                                                             *)

\* The adapter keeps what the daemon relies on: one child, shut down before the
\* outcome, no definite outcome without confirmed cleanup, and an outcome in the
\* end (stdio.rs close_checked, provider_executor.rs run_codex_with_launcher).
KeepsPromise == Promise!Spec

\* The tracker sees the notifications in the order the child sent them and
\* without a gap, those that arrived during a request included (stdio.rs,
\* pending_notifications).
NotesInOrder == IsPrefix(ingested, log)

\* A run is ended for breaking the protocol only when the child did break it, or
\* when more interrupts were abandoned than the quarantine holds: no timing of a
\* correct child's late replies has that effect (stdio.rs:335,
\* discard_abandoned_response).
DriftHasCause == why = "drift" => faults > 0 \/ evicted

\* What is reported was observed: success needs the child's own completion and an
\* answer before it, cancellation the token or the child's word.
OutcomeIsObserved ==
    /\ outcome = "Succeeded" =>
         \E i, j \in 1..Len(log) : i < j /\ log[i] = "answer" /\ log[j] = "completed"
    /\ outcome = "Cancelled" => cancelled \/ "interrupted" \in Range(log)

\* Every outcome has its cause in what the child, the user and the system did
\* (lifecycle.rs ingest, stdio.rs route_request_message).
OutcomeHasCause == OutcomeIsObserved /\ DriftHasCause
=============================================================================
