-------------------------- MODULE ProviderExecutor --------------------------
(***************************************************************************)
(* Running a provider: the worker threads of                               *)
(* crates/bastet-daemon/src/provider_executor.rs, the registry of their    *)
(* controllers, the cancel and shutdown requests of lib.rs and the signal  *)
(* handler of main.rs that race with them.  A step is one Store            *)
(* transaction, one channel, lock or atomic operation, or one return of an *)
(* adapter call.                                                           *)
(*                                                                         *)
(* Every run has no selected account (those wait in StagedLaunch) and a    *)
(* node of its own.  The catalog, m3 and graph revisions that the writer   *)
(* of an outcome compares are abstracted to "fresh": the workers whose     *)
(* last read is still current.  What M3State::validate says of both        *)
(* catalogs and all executions is "valid"; the Store's own changes keep it *)
(* (M3Ledger), a client's edit need not.  A database that is busy only     *)
(* delays a step; a poisoned lock is not modelled.                         *)
(***************************************************************************)
EXTENDS Naturals, FiniteSets

CONSTANTS
    Run,         \* run identities
    Client,      \* HTTP clients, one request at a time each
    Text,        \* what a provider may leave as final output
    Route,       \* routes clients use on runs the daemon owns
    None,
    MaxRequests, \* bound: cancel and shutdown requests by clients
    MaxEdits,    \* bound: catalog edits by clients
    MaxCrashes   \* bound: deaths of the process

ASSUME ProviderAssumption ==
    /\ IsFiniteSet(Run)
    /\ Text \subseteq {"none", "blank", "text"}
    /\ Route \subseteq {"finish", "complete"}
    /\ None \notin Run \cup Client \cup {"dropped", "accepted", "rejected"}
    /\ "dropped" \notin Client
    /\ MaxRequests \in Nat /\ MaxEdits \in Nat /\ MaxCrashes \in Nat

VARIABLES
    run,         \* identity_catalog: state of each run
    open,        \* graph_executions: runs whose node is Running, bound to them
    accepted,    \* event_journal: runs with a cancel_accepted event
    bound,       \* runs whose launch binding is what the catalogs resolve to
    valid,       \* M3State::validate accepts the catalogs and the executions
    lifecycle,   \* daemon_state; "down" while there is no process
    worker,      \* where the run's begin handler or worker thread is
    outcome,     \* ProviderOutcome of a worker that has one
    fresh,       \* see above
    refused,     \* history: outcomes this process gave up because of ~valid
    token,       \* CancellationToken: runs whose token is set
    inbox,       \* the one-place channel to the worker
    registry,    \* RunControllerRegistry
    active,      \* ProviderExecutor.active
    client,      \* what each client's request is doing, and to which run
    ack,         \* acknowledgement channel of each client's cancel request
    signalled,   \* a termination signal is being handled
    requests,    \* bounded counters
    edits,
    crashes

durable == <<run, open, accepted, bound, valid>>
threads == <<worker, outcome, fresh, refused, token, inbox, registry, active>>
control == <<client, ack>>
bounds == <<requests, edits, crashes>>
vars == <<durable, lifecycle, threads, control, signalled, bounds>>

LiveState == {"Starting", "Running", "Cancelling"}
EndState == {"Succeeded", "Failed", "Cancelled", "Blocked", "Uncertain"}

\* In this order; "unspawned" is the detour of a thread that cannot be
\* created and "gone" what is left of it all when the process died.
Phase == {"idle", "begun", "registered", "unspawned", "launching", "preflight",
          "validating", "connecting", "streaming", "reported", "draining",
          "persisting", "finishing", "leaving", "released", "done", "gone"}

Outcome == [state : EndState, text : Text \cup {"none"}]

Idle == [pc |-> "idle", run |-> None]

Init ==
    /\ run = [r \in Run |-> "Absent"]
    /\ open = {}
    /\ accepted = {}
    /\ bound = {}
    /\ valid = TRUE
    /\ lifecycle = "ready"
    /\ worker = [r \in Run |-> "idle"]
    /\ outcome = [r \in Run |-> None]
    /\ fresh = {}
    /\ refused = {}
    /\ token = {}
    /\ inbox = [r \in Run |-> None]
    /\ registry = {}
    /\ active = 0
    /\ client = [c \in Client |-> Idle]
    /\ ack = [c \in Client |-> None]
    /\ signalled = FALSE
    /\ requests = 0
    /\ edits = 0
    /\ crashes = 0

Up == lifecycle \in {"ready", "stopping"}

\* RunControllerRegistry::cancel keeps the read lock while it waits for the
\* acknowledgement; register and unregister need the lock for themselves.
WriteLockFree == \A c \in Client : client[c].pc \notin {"sent", "waiting"}

Goto(r, phase) == worker' = [worker EXCEPT ![r] = phase]

-----------------------------------------------------------------------------
(* execute_ready_graph and ProviderExecutor::start.                        *)

\* begin_provider_graph_node_run
Begin(r) ==
    /\ lifecycle = "ready"
    /\ run[r] = "Absent"
    /\ run' = [run EXCEPT ![r] = "Starting"]
    /\ open' = open \cup {r}
    /\ bound' = bound \cup {r}
    /\ fresh' = {}
    /\ Goto(r, "begun")
    /\ UNCHANGED <<accepted, valid, lifecycle, outcome, refused, token, inbox, registry,
                   active, control, signalled, bounds>>

Register(r) ==
    /\ worker[r] = "begun"
    /\ WriteLockFree
    /\ registry' = registry \cup {r}
    /\ Goto(r, "registered")
    /\ UNCHANGED <<durable, lifecycle, outcome, fresh, refused, token, inbox, active,
                   control, signalled, bounds>>

Spawn(r) ==
    /\ worker[r] = "registered"
    /\ active' = active + 1
    /\ Goto(r, "launching")
    /\ UNCHANGED <<durable, lifecycle, outcome, fresh, refused, token, inbox, registry,
                   control, signalled, bounds>>

\* No thread: the closure is dropped, and with it the channel and whatever
\* cancel request it holds; the counter goes up and down again.
SpawnFails(r) ==
    /\ worker[r] = "registered"
    /\ Goto(r, "unspawned")
    /\ inbox' = [inbox EXCEPT ![r] = "dropped"]
    /\ ack' = [c \in Client |-> IF inbox[r] = c THEN "rejected" ELSE ack[c]]
    /\ UNCHANGED <<durable, lifecycle, outcome, fresh, refused, token, registry, active,
                   client, signalled, bounds>>

\* ... then unregister, and persist_start_failure.
AbandonStart(r) ==
    /\ worker[r] = "unspawned"
    /\ WriteLockFree
    /\ registry' = registry \ {r}
    /\ inbox' = [inbox EXCEPT ![r] = None]
    /\ token' = token \ {r}
    /\ outcome' = [outcome EXCEPT ![r] = [state |-> "Uncertain", text |-> "none"]]
    /\ Goto(r, "persisting")
    /\ UNCHANGED <<durable, lifecycle, fresh, refused, active, control, signalled,
                   bounds>>

-----------------------------------------------------------------------------
(* The worker thread up to its outcome.                                    *)

Stays == UNCHANGED <<durable, lifecycle, fresh, refused, token, inbox, registry, active,
                     control, signalled, bounds>>

\* The worker has its outcome and drains the cancel channel next.
Ends(r, s, text) ==
    /\ outcome' = [outcome EXCEPT ![r] = [state |-> s, text |-> text]]
    /\ Goto(r, "draining")

Proceeds(r, phase) == Goto(r, phase) /\ UNCHANGED outcome

CheckToken(r) ==
    /\ worker[r] = "launching"
    /\ IF r \in token THEN Ends(r, "Cancelled", "none") ELSE Proceeds(r, "preflight")
    /\ Stays

\* The attempt is still the one that was begun, with the same inputs.
preflight_provider_launch(r) == run[r] = "Starting" /\ r \in open /\ r \in bound

PreflightLaunch(r) ==
    /\ worker[r] = "preflight"
    /\ IF preflight_provider_launch(r)
       THEN Proceeds(r, "validating")
       ELSE Ends(r, IF r \in token THEN "Cancelled" ELSE "Uncertain", "none")
    /\ Stays

\* validate_online_cli_launch: the preflight once more, and the frozen policy.
ValidateOnline(r, allowed) ==
    /\ worker[r] = "validating"
    /\ IF preflight_provider_launch(r) /\ allowed
       THEN Proceeds(r, "connecting")
       ELSE Ends(r, "Blocked", "none")
    /\ Stays

\* The adapter starts the provider; it sees the token while it does.
Connect(r) ==
    /\ worker[r] = "connecting"
    /\ \/ Proceeds(r, "streaming")
       \/ r \in token /\ Ends(r, "Cancelled", "none")
       \/ Ends(r, "Uncertain", "none")
    /\ Stays

\* The first Running update, and record_provider_running.
ReportRunning(r) ==
    /\ worker[r] = "streaming"
    /\ IF run[r] \in LiveState
       THEN /\ run' = [run EXCEPT ![r] = IF @ = "Starting" THEN "Running" ELSE @]
            /\ fresh' = {}
            /\ Proceeds(r, "reported")
       ELSE Ends(r, "Uncertain", "none") /\ UNCHANGED <<run, fresh>>
    /\ UNCHANGED <<open, accepted, bound, valid, lifecycle, refused, token, inbox,
                   registry, active, control, signalled, bounds>>

Streaming(r) == worker[r] \in {"streaming", "reported"}

\* The loop sees the token and closes the provider; cleanup may fail.
Interrupt(r, cleaned) ==
    /\ Streaming(r)
    /\ r \in token
    /\ Ends(r, IF cleaned THEN "Cancelled" ELSE "Uncertain", "none")
    /\ Stays

\* fn outcome: a success without text is a failure, which keeps its text.
ProviderOutcome(s, text) ==
    [state |-> IF s = "Succeeded" /\ text # "text" THEN "Failed" ELSE s, text |-> text]

\* A terminal update, possibly read after the token was set.
ProviderEnds(r, s, text) ==
    /\ Streaming(r)
    /\ Ends(r, ProviderOutcome(s, text).state, ProviderOutcome(s, text).text)
    /\ Stays

\* An adapter error, an inactivity deadline or a panic.
ProviderLost(r) ==
    /\ Streaming(r)
    /\ Ends(r, "Uncertain", "none")
    /\ Stays

-----------------------------------------------------------------------------
(* The worker thread after its outcome.                                    *)

\* Mutant: every request is acknowledged.
Answer_Always(r) == "accepted"

Answer(r) == IF outcome[r].state = "Cancelled" THEN "accepted" ELSE "rejected"

\* One round of the try_recv loop: a request is acknowledged only with a
\* Cancelled outcome; nobody listens to the answer of one that timed out.
Drain(r) ==
    /\ worker[r] = "draining"
    /\ IF inbox[r] = None
       THEN Goto(r, "persisting") /\ UNCHANGED <<inbox, ack>>
       ELSE /\ inbox' = [inbox EXCEPT ![r] = None]
            /\ ack' = [c \in Client |-> IF inbox[r] = c THEN Answer(r) ELSE ack[c]]
            /\ UNCHANGED worker
    /\ UNCHANGED <<durable, lifecycle, outcome, fresh, refused, token, registry, active,
                   client, signalled, bounds>>

\* persist_outcome reads the revisions ...
ReadRevisions(r) ==
    /\ worker[r] = "persisting"
    /\ fresh' = fresh \cup {r}
    /\ Goto(r, "finishing")
    /\ UNCHANGED <<durable, lifecycle, outcome, refused, token, inbox, registry, active,
                   control, signalled, bounds>>

\* Only successes and failures keep their text, and a stored text is not blank.
StoredText(o) == IF o.state \in {"Succeeded", "Failed"} THEN o.text ELSE "none"

\* GraphNodeOutput::create and finish_node accept what the worker brings.
Acceptable(r) == StoredText(outcome[r]) # "blank" /\ r \in open

\* finish_graph_node_run also validates the whole M3 state with the outcome.
Can_finish(r) == Acceptable(r) /\ valid

\* The outcome of a live run is refused for a fault that is not its own.
RefusedWith(r) == IF run[r] \in LiveState /\ Acceptable(r) /\ ~valid THEN {r} ELSE {}

\* Mutant: a conflict counts as lost authority.
Finish_GivesUp(r) ==
    /\ worker[r] = "finishing"
    /\ Goto(r, IF r \in registry THEN "leaving" ELSE "done")
    /\ outcome' = [outcome EXCEPT ![r] = None]
    /\ refused' = refused \cup RefusedWith(r)
    /\ IF r \in fresh /\ run[r] \in LiveState /\ Can_finish(r)
       THEN /\ run' = [run EXCEPT ![r] = outcome[r].state]
            /\ open' = open \ {r}
            /\ fresh' = {}
       ELSE UNCHANGED <<run, open, fresh>>
    /\ UNCHANGED <<accepted, bound, valid, lifecycle, token, inbox, registry, active,
                   control, signalled, bounds>>

\* ... and calls finish_graph_node_run: again after a conflict; a run that is
\* no longer live lost its authority; any other error gives the outcome up.
\* A handler that persists a start failure has nothing to unregister.
Finish(r) ==
    /\ worker[r] = "finishing"
    /\ IF r \notin fresh
       THEN Goto(r, "persisting") /\ UNCHANGED <<run, open, fresh, refused, outcome>>
       ELSE /\ Goto(r, IF r \in registry THEN "leaving" ELSE "done")
            /\ outcome' = [outcome EXCEPT ![r] = None]
            /\ refused' = refused \cup RefusedWith(r)
            /\ IF run[r] \in LiveState /\ Can_finish(r)
               THEN /\ run' = [run EXCEPT ![r] = outcome[r].state]
                    /\ open' = open \ {r}
                    /\ fresh' = {}
               ELSE UNCHANGED <<run, open, fresh>>
    /\ UNCHANGED <<accepted, bound, valid, lifecycle, token, inbox, registry, active,
                   control, signalled, bounds>>

\* RegistrationGuard: unregister, then give the slot back; the channel and the
\* token end with the thread.
Unregister(r) ==
    /\ worker[r] = "leaving"
    /\ WriteLockFree
    /\ registry' = registry \ {r}
    /\ Goto(r, "released")
    /\ UNCHANGED <<durable, lifecycle, outcome, fresh, refused, token, inbox, active,
                   control, signalled, bounds>>

Release(r) ==
    /\ worker[r] = "released"
    /\ active' = active - 1
    /\ inbox' = [inbox EXCEPT ![r] = None]
    /\ token' = token \ {r}
    /\ Goto(r, "done")
    /\ UNCHANGED <<durable, lifecycle, outcome, fresh, refused, registry, control,
                   signalled, bounds>>

-----------------------------------------------------------------------------
(* cancel_run and the controller.                                          *)

\* A new request of a client that has none.  A daemon that is stopping takes
\* no new ones.
NewRequest(c) ==
    /\ lifecycle = "ready"
    /\ client[c] = Idle
    /\ requests < MaxRequests
    /\ requests' = requests + 1
    /\ UNCHANGED <<edits, crashes>>

At(c, pc, r) == client' = [client EXCEPT ![c] = [pc |-> pc, run |-> r]]

\* preflight_provider_cancel, with the revision the client last saw.
PreflightCancel(c, r) ==
    /\ NewRequest(c)
    /\ run[r] \in {"Starting", "Running"}
    /\ At(c, "checked", r)
    /\ UNCHANGED <<durable, lifecycle, threads, ack, signalled>>

\* The registry finds the run's controller, which puts the request into the
\* channel; an unknown run or a full channel is an error.
SendCancel(c) ==
    LET r == client[c].run
    IN  /\ client[c].pc = "checked"
        /\ IF r \in registry /\ inbox[r] = None
           THEN At(c, "sent", r) /\ inbox' = [inbox EXCEPT ![r] = c]
           ELSE client' = [client EXCEPT ![c] = Idle] /\ UNCHANGED inbox
        /\ UNCHANGED <<durable, lifecycle, worker, outcome, fresh, refused, token,
                       registry, active, ack, signalled, bounds>>

SetToken(c) ==
    /\ client[c].pc = "sent"
    /\ token' = token \cup {client[c].run}
    /\ At(c, "waiting", client[c].run)
    /\ UNCHANGED <<durable, lifecycle, worker, outcome, fresh, refused, inbox, registry,
                   active, ack, signalled, bounds>>

\* The answer arrives: the handler goes on to record it, or returns an error.
ReceiveAck(c) ==
    /\ client[c].pc = "waiting"
    /\ ack[c] # None
    /\ ack' = [ack EXCEPT ![c] = None]
    /\ IF ack[c] = "accepted"
       THEN At(c, "accepted", client[c].run)
       ELSE client' = [client EXCEPT ![c] = Idle]
    /\ UNCHANGED <<durable, lifecycle, threads, signalled, bounds>>

\* Mutant: after the timeout the handler waits again.
AckTimeout_Again(c) ==
    /\ client[c].pc = "waiting"
    /\ ack[c] = None
    /\ UNCHANGED vars

\* CANCEL_ACK_TIMEOUT: the request stays in the channel, the token stays set.
AckTimeout(c) ==
    /\ client[c].pc = "waiting"
    /\ ack[c] = None
    /\ client' = [client EXCEPT ![c] = Idle]
    /\ inbox' = [r \in Run |-> IF inbox[r] = c THEN "dropped" ELSE inbox[r]]
    /\ UNCHANGED <<durable, lifecycle, worker, outcome, fresh, refused, token, registry,
                   active, ack, signalled, bounds>>

\* Mutant: a run that ended is set back to Cancelling.
RecordCancel_Regress(c) ==
    /\ client[c].pc = "accepted"
    /\ client' = [client EXCEPT ![c] = Idle]
    /\ accepted' = accepted \cup {client[c].run}
    /\ run' = [run EXCEPT ![client[c].run] = "Cancelling"]
    /\ fresh' = {}
    /\ UNCHANGED <<open, bound, valid, lifecycle, worker, outcome, refused, token,
                   inbox, registry, active, ack, signalled, bounds>>

\* record_provider_cancel_after_preflight
RecordCancel(c) ==
    LET r == client[c].run
    IN  /\ client[c].pc = "accepted"
        /\ client' = [client EXCEPT ![c] = Idle]
        /\ accepted' = accepted \cup {r}
        /\ IF run[r] \in LiveState
           THEN run' = [run EXCEPT ![r] = "Cancelling"] /\ fresh' = {}
           ELSE UNCHANGED <<run, fresh>>
        /\ UNCHANGED <<open, bound, valid, lifecycle, worker, outcome, refused, token,
                       inbox, registry, active, ack, signalled, bounds>>

-----------------------------------------------------------------------------
(* Other requests.                                                         *)

\* replace_catalog or replace_m3_catalog: the revisions move, and what a run's
\* binding resolves to may change, or change back.  replace_catalog leaves the
\* M3 state valid; replace_m3_catalog does not look at the executions.
EditCatalog(R, v) ==
    /\ lifecycle = "ready"
    /\ edits < MaxEdits
    /\ edits' = edits + 1
    /\ bound' = R
    /\ valid' = v
    /\ fresh' = {}
    /\ UNCHANGED <<run, open, accepted, lifecycle, worker, outcome, refused, token, inbox,
                   registry, active, control, signalled, requests, crashes>>

\* create_graph_execution validates the client's execution alone, and moves no
\* revision a worker compares: its baseline, roles and outputs may be unknown
\* to the catalogs, or its nodes the ones a document waited for.
CreateGraphExecution ==
    /\ lifecycle = "ready"
    /\ edits < MaxEdits
    /\ edits' = edits + 1
    /\ valid' = ~valid
    /\ UNCHANGED <<run, open, accepted, bound, lifecycle, threads, control, signalled,
                   requests, crashes>>

\* POST .../runs/finish by a client that presents the run's owner.
ClientFinish(r, s) ==
    /\ lifecycle = "ready"
    /\ "finish" \in Route
    /\ run[r] \in LiveState
    /\ r \in open
    /\ valid
    /\ run' = [run EXCEPT ![r] = s]
    /\ open' = open \ {r}
    /\ fresh' = {}
    /\ UNCHANGED <<accepted, bound, valid, lifecycle, worker, outcome, refused, token,
                   inbox, registry, active, control, signalled, bounds>>

\* POST .../complete by such a client: the node ends, the run is not touched.
ClientComplete(r) ==
    /\ lifecycle = "ready"
    /\ "complete" \in Route
    /\ r \in open
    /\ open' = open \ {r}
    /\ fresh' = {}
    /\ UNCHANGED <<run, accepted, bound, valid, lifecycle, worker, outcome, refused,
                   token, inbox, registry, active, control, signalled, bounds>>

-----------------------------------------------------------------------------
(* Stopping, dying and starting again.                                     *)

\* Mutant: a run that is only starting does not count.
ProviderActive_Running == \E r \in Run : run[r] \in {"Running", "Cancelling"}

\* persist_checkpoint refuses while the catalog shows a run at work.
ProviderActive == \E r \in Run : run[r] \in LiveState

\* The shutdown route first asks the executor ...
CheckActive(c) ==
    /\ NewRequest(c)
    /\ active = 0
    /\ At(c, "halting", None)
    /\ UNCHANGED <<durable, lifecycle, threads, ack, signalled>>

\* ... and then the Store, which has the last word.
Halt(c) ==
    /\ client[c].pc = "halting"
    /\ client' = [client EXCEPT ![c] = Idle]
    /\ lifecycle' = IF ProviderActive THEN lifecycle ELSE "stopping"
    /\ UNCHANGED <<durable, threads, ack, signalled, bounds>>

Signal ==
    /\ lifecycle = "ready"
    /\ ~signalled
    /\ signalled' = TRUE
    /\ UNCHANGED <<durable, lifecycle, threads, control, bounds>>

\* Mutant: a run whose outcome is unknown is waited for.
SignalShutdown_Uncertain ==
    /\ signalled
    /\ lifecycle = "ready"
    /\ lifecycle' = IF \E r \in Run : run[r] \in LiveState \cup {"Uncertain"}
                    THEN lifecycle ELSE "stopping"
    /\ UNCHANGED <<durable, threads, control, signalled, bounds>>

\* checkpoint_for_signal, in the round that succeeds.  It asks the Store only.
SignalShutdown ==
    /\ signalled
    /\ lifecycle = "ready"
    /\ ~ProviderActive
    /\ lifecycle' = "stopping"
    /\ UNCHANGED <<durable, threads, control, signalled, bounds>>

\* What is in memory is lost, threads included.
ProcessEnds ==
    /\ lifecycle' = "down"
    /\ worker' = [r \in Run |-> IF run[r] = "Absent" THEN "idle" ELSE "gone"]
    /\ outcome' = [r \in Run |-> None]
    /\ fresh' = {}
    /\ refused' = {}
    /\ token' = {}
    /\ inbox' = [r \in Run |-> None]
    /\ registry' = {}
    /\ active' = 0
    /\ client' = [c \in Client |-> Idle]
    /\ ack' = [c \in Client |-> None]
    /\ signalled' = FALSE
    /\ UNCHANGED durable

\* The HTTP server has finished the requests in flight; nobody joins workers.
InHandler(r) == \/ worker[r] \in {"begun", "registered", "unspawned"}
                \/ worker[r] \in {"persisting", "finishing"} /\ r \notin registry

Exit ==
    /\ lifecycle = "stopping"
    /\ \A c \in Client : client[c] = Idle
    /\ \A r \in Run : ~InHandler(r)
    /\ ProcessEnds
    /\ UNCHANGED bounds

Crash ==
    /\ Up
    /\ crashes < MaxCrashes
    /\ crashes' = crashes + 1
    /\ ProcessEnds
    /\ UNCHANGED <<requests, edits>>

\* Store::open and mark_ready: reconcile_catalog and reconcile_graphs.
Open ==
    /\ lifecycle = "down"
    /\ lifecycle' = "ready"
    /\ run' = [r \in Run |-> IF run[r] \in LiveState THEN "Uncertain" ELSE run[r]]
    /\ open' = {}
    /\ UNCHANGED <<accepted, bound, valid, threads, control, signalled, bounds>>

-----------------------------------------------------------------------------
Worker(r) ==
    \/ Spawn(r) \/ SpawnFails(r)
    \/ CheckToken(r) \/ PreflightLaunch(r)
    \/ \E allowed \in BOOLEAN : ValidateOnline(r, allowed)
    \/ Connect(r)
    \/ \E cleaned \in BOOLEAN : Interrupt(r, cleaned)
    \/ \E s \in EndState, text \in Text : ProviderEnds(r, s, text)
    \/ ProviderLost(r)
    \/ Drain(r) \/ ReadRevisions(r) \/ Finish(r) \/ Release(r)

\* The steps that take the registry's write lock.
Locked(r) == Register(r) \/ AbandonStart(r) \/ Unregister(r)

Handler(c) ==
    SendCancel(c) \/ SetToken(c) \/ ReceiveAck(c) \/ AckTimeout(c) \/ RecordCancel(c) \/ Halt(c)

Next ==
    \/ \E r \in Run : Begin(r) \/ Worker(r) \/ Locked(r) \/ ReportRunning(r)
    \/ \E r \in Run : ClientComplete(r) \/ \E s \in EndState : ClientFinish(r, s)
    \/ \E c \in Client : Handler(c) \/ CheckActive(c) \/ \E r \in Run : PreflightCancel(c, r)
    \/ \E R \in SUBSET Run, v \in BOOLEAN : EditCatalog(R, v)
    \/ CreateGraphExecution
    \/ Signal \/ SignalShutdown \/ Exit \/ Crash \/ Open

Spec == Init /\ [][Next]_vars

\* Threads and handlers keep running, a writer gets the registry lock when no
\* reader has it, a provider ends or falls silent (which is an error after
\* PROVIDER_TIMEOUT), the signal loop polls, a daemon that is down is started.
\* Clients need not do anything; MaxRequests and MaxEdits bound what they do.
Fairness ==
    /\ \A r \in Run : WF_vars(Worker(r)) /\ WF_vars(Locked(r))
    /\ \A c \in Client : WF_vars(Handler(c))
    /\ WF_vars(SignalShutdown) /\ WF_vars(Exit) /\ WF_vars(Open)

FairSpec == Spec /\ Fairness

-----------------------------------------------------------------------------
(* Properties.                                                             *)

TypeOK ==
    /\ run \in [Run -> {"Absent"} \cup LiveState \cup EndState]
    /\ open \subseteq Run /\ accepted \subseteq Run /\ bound \subseteq Run
    /\ lifecycle \in {"ready", "stopping", "down"}
    /\ worker \in [Run -> Phase]
    /\ outcome \in [Run -> Outcome \cup {None}]
    /\ fresh \subseteq Run /\ refused \subseteq Run
    /\ token \subseteq Run /\ registry \subseteq Run
    /\ inbox \in [Run -> Client \cup {None, "dropped"}]
    /\ active \in 0..Cardinality(Run)
    /\ client \in [Client -> [pc : {"idle", "checked", "sent", "waiting", "accepted", "halting"},
                              run : Run \cup {None}]]
    /\ ack \in [Client -> {None, "accepted", "rejected"}]
    /\ signalled \in BOOLEAN /\ valid \in BOOLEAN
    /\ requests \in 0..MaxRequests /\ edits \in 0..MaxEdits /\ crashes \in 0..MaxCrashes

\* The executor implements the promise of RunLifecycle: a run ends once, an
\* accepted cancellation is neither regressed nor turned into another outcome,
\* and only a restart forgets.
Lifecycle == INSTANCE RunLifecycle WITH state <- run
ImplementsLifecycle == Lifecycle!Spec

\* No run is orphaned: while the daemon is up, a run the catalog shows as live
\* has a handler or a thread that will still write its outcome, unless the
\* Store refused that outcome because a client had made the M3 state invalid.
NoOrphanedRun ==
    Up => \A r \in Run : run[r] \in LiveState /\ r \notin refused =>
        worker[r] \notin {"idle", "leaving", "released", "done", "gone"}

\* A daemon that is stopping has abandoned nobody: no run is live, no thread
\* is still busy with a provider or with an unwritten outcome, and the counter
\* of active threads has never left its range.
StoppingMeansDrained ==
    /\ TypeOK
    /\ lifecycle = "stopping" => \A r \in Run :
        /\ run[r] \notin LiveState
        /\ worker[r] \in {"idle", "leaving", "released", "done", "gone"}

\* docs/M2_TASK_GRAPH.md: a signal waits for a safe checkpoint and errors "do
\* not authorize abandoning workers".  Read as: a daemon that is stopping has
\* no thread that is still attached to a provider.
NoProviderAbandoned ==
    lifecycle = "stopping" =>
        \A r \in Run : worker[r] \notin {"connecting", "streaming", "reported"}

\* A terminal state is final, whoever wrote it and whoever comes late: the
\* worker, a second cancel, a client's finish, a restart.
TerminalIsFinal ==
    [][\A r \in Run : run[r] \in EndState => run'[r] = run[r]]_vars

\* A cancel or shutdown request always returns, although the handler waits for
\* a worker that, leaving, waits for the lock the handler holds.
RequestsReturn == \A c \in Client : client[c] # Idle ~> client[c] = Idle

\* Every run ends, or its outcome was refused with the M3 state.
RunResolves ==
    \A r \in Run : run[r] \in LiveState ~> run[r] \in EndState \/ r \in refused

\* A termination signal ends the process once the runs that began are done; it
\* waits for good only for a run whose outcome was refused.
SignalStops == signalled ~> lifecycle = "down" \/ refused # {}

\* The daemon drains: every run it began ends, and a signal that waits for
\* them ends the process, if no client keeps an outcome from being stored.
DaemonDrains == RunResolves /\ SignalStops
=============================================================================
