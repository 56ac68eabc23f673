# Verification of Bastet Workstation

TLA+ models of Bastet Workstation: the durable task graph, the launches that wait
for an approval and what they may use, the threads that run providers, the two
adapters and the pipes below them, the ledger from decision to delivered knowledge,
and the desktop that supervises the daemon. TLC checks them on small instances;
TLAPS proves every invariant and every action property of them, and the safety part of
each refinement, for every value of the constants. Only liveness is left to TLC.

## 1. Inventory

Bastet Workstation is a desktop shell (`apps/desktop`), a client library, a local
IPC layer, and a daemon (`crates/bastet-daemon`) that owns one SQLite database and
runs provider command-line tools (Codex, Agy) through adapters.

| Component | State | Operations | Correct when |
|---|---|---|---|
| Workflow graph (`bastet-core/src/graph.rs`) | state, owner, run and failure of each node; outputs; revision | claim, bind, stage, activate, cancel, complete, finish, retry, reconcile | work starts after its inputs, nobody waits for what cannot come, outcomes are final |
| Graph and run transactions (`bastet-daemon/src/lib.rs`) | catalog, executions, attempts, outputs, journal | one IMMEDIATE transaction each, guarded by revisions | tables agree, no update is lost |
| Staged launches, approvals (`staged_launches.rs`, `approval.rs`) | staging ledger, requests, decisions | stage, decide, cancel, expire | every wait ends; a consent is used once, in time, for what it was given |
| Credential grants and broker (`credential_grants.rs`, `credential_dispatch.rs`) | grants, dispatch claims | issue, consume, revoke, claim, fail, reconcile | a secret is read only after its grant was spent |
| Provider executor (`provider_executor.rs`) | threads, controller registry, channels, tokens, active count | start, run, cancel, drain, persist | no run is orphaned, an accepted cancellation stays one |
| Daemon process (`main.rs`, routes of `lib.rs`) | lifecycle, signal loop, expiry timer | shutdown, suspend, resume, signal, open | stops only when drained; reopens what a crash left |
| Identity catalog (`catalog.rs`, `identity.rs`, `policy.rs`, `provider_launch.rs`) | providers, accounts, credentials, models, agents, projects, roles, runs; launch plans | replace, resolve a binding, capture a policy, validate | what is used is what was agreed, whatever is edited meanwhile |
| MVP delivery (`mvp.rs`, `deliverable.rs`, `meeting.rs`, Store) | plans, decisions, documents, deliveries, costs | prepare, accept, deliver, record | a delivery happens once |
| Adapters (`bastet-adapter-codex`, `-agy`) | request tables, event streams | connect, start, poll, interrupt | each reply goes to its request, one terminal event |
| Process plumbing (`process_*.rs`) | queues, writers, children | push, receive, write, terminate | bounded memory, order kept, nothing after a fault |
| Knowledge delivery (desktop `lib.rs`) | vault note, index and log, memories | publish, then record | Delivered means published, and published once |
| Supervisor, power events, Unix endpoint (`supervisor.rs`, desktop `lib.rs`, `unix.rs`) | child handle, quit flag, lock file, socket, lifecycle | ensure running, quit, suspend, resume, bind | one daemon, reachable, back after a crash |
| Client, protocol | none | requests | pure I/O |

How they interact: a client asks the daemon to execute ready nodes; the Store
begins an attempt for each (or stages it, when an account is selected); the executor
registers a controller and spawns a thread that validates, connects to a provider
through an adapter, streams its updates and writes the outcome back. Cancel
requests reach the thread through a one-place channel and a sticky token. Staged
attempts wait in the ledger for a decision; an approval issues a grant that the
broker consumes. All of them share the Store, where the revision of each document
is the compare-and-swap token.

What is hard: handlers, threads, a timer and a signal loop that interleave between
transactions; cancellation that races with the end of a run and with its own
timeout; a process that dies between two transactions; a wall clock that is set
back; a retry in a graph with several failures. The hazards are listed in
`PROJECT.json`, each at its line with the property that watches it.

## 2. Modules

| Module | Models | Variables and actions |
|---|---|---|
| `WorkflowGraph` | the functions of `graph.rs`, as operators on a function from nodes to executions | none |
| `GraphExecution` | one stored execution under the Store's transactions | `nodes`, `outputs`, `attempts`, `revision`; one action per operation |
| `GraphExecution_proofs` | theorems about `GraphExecution` | |
| `StagedLaunch` | staging, approvals, grants, broker, recovery | one variable per table, `current` for live authority, `coherent` for the validity of the M3 state, `clock`, the volatile `broker` |
| `StagedLaunch_proofs` | theorems about `StagedLaunch` | |
| `RunLifecycle` | abstract: what the daemon promises about a run | `state`, `accepted` |
| `ProviderExecutor` | worker threads, cancel and shutdown handlers, signals, crashes | durable tables, `valid` for the M3 state, thread states, channel, token, registry, handlers, history `refused` |
| `ProviderExecutor_proofs` | theorems about `ProviderExecutor`, its refinement of `RunLifecycle` among them | |
| `AdapterRun` | abstract: what an adapter promises about a child and its outcome | `child`, `outcome` |
| `AdapterState` | what a run of either adapter keeps | program point, `cancelled`, `child`, the pipe's end, `held`, `text`, `outcome`, history |
| `CodexRun` | one Codex run: transport, requests, tracker, daemon loop | the method, pending and abandoned queues, the tracker's fields, history |
| `AgyOutcome` | the properties of the outcome of an Agy run | `stopped`, `broke` |
| `AgyRun` | one Agy run: process, stream, daemon loop | the queue of lines, the stream's fields |
| `AdapterRun_proofs` | theorems about `CodexRun` and about `AgyRun` (as the instance `Agy`), the steps of both as steps of `AdapterRun` among them | |
| `ProcessPipes` | stdin writer, stdout reader, bounded queue, owned child | one group of variables per thread; the wire and the child |
| `ProcessPipes_proofs` | theorems about `ProcessPipes` | |
| `LaunchAuthority` | catalogs, plans, requests, grants and the checks between them | `catalog`, `m3`, `plans`, `requests`, `worker`, history of what was agreed and used |
| `LaunchAuthority_proofs` | theorems about `LaunchAuthority` | |
| `M3Ledger` | meeting, decision, executions, documents, deliveries, costs under the Store's commands | `catalog`, `executions`, `configured`, the `snapshot` each client read, history `restarts`; one action per Store operation |
| `KnowledgeDelivery` | `deliver_knowledge` step by step | the ledger's row, the files of the vault, the memories, the programs that outlived their desktop, one program point per command |
| `M3Ledger_proofs` | theorems about `M3Ledger` | |
| `Supervisor` | desktop supervision, quit, sleep and wake, daemon processes, Unix endpoint | processes, `lock`, `socket`, `schema`, `lifecycle`, `child`, `shutting_down`, a program point per task |
| `Desktop_proofs` | theorems about `Supervisor` and about `KnowledgeDelivery` | |
| `MC...` | values of the constants for TLC | |

### Task graph

`GraphNodeExecution` is the Rust struct without its own revision counter. An action
of `GraphExecution` is a whole Store transaction: it requires the guards of the
graph function and of the transaction around it, and replaces everything the
transaction writes. A rejected operation writes nothing and is not a step.
`block_dependents` and the loop of `retry_failed` are fixpoints in the code; the
model writes them as the sets they compute (`Downstream`, `Reopened`), which is what
makes the proofs possible. `claim_ready` takes nodes in the order of a vector; the
model takes any set of ready nodes of the right size. The execution starts as
`GraphExecution::start` makes it. `POST /v1/graphs` also accepts one in the middle of
its work, of which only each node by itself is checked; a client that sends one is
outside this module (`M3Ledger` has it).

### Staged launches

Each table is a function from run or request to row or `None`. `cancel_for_request`
is shared by denial, revocation, explicit cancel and expiry, as in the code, and
carries the tables' CHECK constraints as a guard, since a violated one aborts the
transaction. What the catalogs resolve to is abstracted to the set `current`, which a
catalog edit may change in both directions. `coherent` is the verdict of
`M3State::validate` on both catalogs and all executions, which a cancellation (hence the
sweep and, when a launch has expired, `Store::open`) and the finish of a run demand. The
Store's own commands keep it; clients may break and mend it (`EditM3State`,
`EditCatalog`), since nothing holds `replace_m3_catalog` and `create_graph_execution`
to it. A client's stale revision is a rejected command. `Reopen` is `Store::open` with
its recovery in one transaction.

### Provider executor

A step is one transaction, one channel, lock or atomic operation, or one return of
an adapter call. Worker phases follow the thread's closure top to bottom. The
revisions that `persist_outcome` reads and the Store compares are abstracted to the
set `fresh` of workers whose read is still current: any write empties it. The
registry's read lock is held by a handler from sending a request until its answer or
timeout; registering and leaving need it free. `open` is the part of the graph that
matters: runs whose node still runs under them. `bound` says whether the launch
binding is still what the catalogs resolve to, `valid` what `M3State::validate` says of
catalogs and executions: `finish_graph_node_run` demands it, and a client's edit or
execution may break or mend it at any time. The history `refused` has the runs whose
outcome the worker, or the handler that could not start it, gave up for that reason.

### Adapters

`CodexRun` and `AgyRun` follow `run_codex_with_launcher` and `run_agy_with_launcher`
down through the adapter: a step is one round of a loop, one message taken, or one
call that may fail. A message is what the code tells apart: the note's method, the
reply's id and body, the line's event and status. `Closed` in `AdapterRun` is the
shutdown of the owned child, which succeeds or leaves it `lost` for good; both modules
implement `AdapterRun` (`KeepsPromise`): an outcome other than Uncertain is reported
only for a child that is gone, and the run ends. The app-server and the CLI are
environments that behave correctly, end at any point, and send up to `MaxFaults`
messages no correct one sends. A flood of notifications, which the code calls
ProtocolDrift, has a cause of its own in the model.

`ProcessPipes` has the thread of the adapter, the writer and the reader as separate
processes with their atomics and zero-capacity channel, and a child whose pipe takes a
frame apart. Bytes of stdout are plain, CR, LF or not UTF-8; sizes are small numbers.
`Loads` gives the bounds of a behaviour: many frames and few bytes, or the reverse.

### Authority

`LaunchAuthority` keeps the contents that the other modules abstract: the rows of the
identity catalog with their lifecycle and policies, the assignment of the node, the plan
with its policy snapshot, the request with its credential binding. Every check is
translated clause by clause, in the order of the code, and a run, an approval, a claim
and a launch are the transactions that apply it. `consent` and `used` record what the
catalogs said when something was agreed and when it was used. Texts are blank or one of
two values; times, digests and metadata are left out (`StagedLaunch` has the times).

### Ledger

A client reads the m3 catalog (`Read`) and later sends a command built from what it
read; `ExpectedRevision` is the comparison every command begins with. `StateValid` is
`M3State::validate`, `validate_m3_catalog` the weaker check of `replace_m3_catalog`.
The two research nodes are one phase and a node is open, succeeded without output
(reported by an outside worker) or succeeded with it. `CarefulClients` says whether
clients submit only what the desktop submits: fresh executions on accepted baselines, and
catalogs they read with the built-in pet applied or rolled back. Nothing in the Store
enforces that (section 5): without it `Submitted` is every row, whatever outputs,
baseline or predecessor it claims. All invariants but `RestartedOnce` are stated under
it. `restarts` records what `restart_missing_output_graph` restarted.

### Knowledge delivery

The steps are the system calls between which a crash, an error or another caller can
come. A note is absent, partial or the day in its text, since that is what the
comparison with an existing file tells apart; index, log and memory are counts of
marked entries. `append_once` is two steps, the read and the append. A desktop that
dies may leave a running `agent-memory add` behind (`strays`), which does its work later.

### Supervision

Every await of the desktop is a point where the others may run. Instead of revisions
the model keeps the set `fresh` of tasks whose snapshot is still current. `Lock`, `Bind`
and `SetPermissions` are the parts of `unix::bind`; a process that dies leaves its socket
`Stale`, or `Denied` if it was not private yet. `ReadSchema` and `Migrate` the steps of
`apply_migrations`, each version a transaction of its own, `CloseEndpoint` is the drop of the guard:
first the socket, then, with the process, the lock. The daemon's own work is
`ProviderExecutor`'s; here a quit may be refused for any reason.

## 3. Runs

| Run | Shows |
|---|---|
| `graph` | nine operations on two research nodes, their join and a document, three runs: all invariants and action properties of `GraphExecution` |
| `staged` | one launch, two requests, a restart, a clock rollback, clients that break and mend the M3 state: the tables agree, only an invalid M3 state locks anybody out, and without one every launch is dispatched or cancelled |
| `provider_routes` | clients finish and complete runs the daemon owns, blank outputs: terminal states still are final |
| `provider_clients` | two clients and one run during edits that may make the M3 state invalid: `ProviderExecutor` implements `RunLifecycle`, orphans only runs whose outcome was refused with that state and stops only when drained; requests return, the other runs end, a signal stops the daemon |
| `provider_blank` | **violated**: output of white space only leaves a run live for ever |
| `m3_ledger` | two clients, three executions, a document, a delivery, nine revisions |
| `deliver` | two commands, a vault and a memory delivery, two faults, two days, a program that outlives its desktop |
| `supervisor` | loop and window, two processes, a fault, a quit and a sleep; the daemon comes back, also after a quit that failed, unless a death between bind and chmod left a socket that is denied |
| `pipes` | frames that are cut, cancelled or too late, lines of every shape, a child that forks, dies or floods: frames are whole, lines in order, memory accounted for, cleanup true; every call returns |
| `codex` | two notifications, two interrupts, an abandoned request, a fault: order, cause and promise of the outcome |
| `agy` | four lines, cancellation, deadline and end of the child in any order: cause and promise of the outcome |
| `launch_authority` | two catalog edits at any point between begin, approval and use: nothing is used that was not agreed, and nothing agreed is refused |

Bounds of the ledger and the desktop. Nine revisions take a project from preparation
through two finished nodes, a document, its acceptance and a delivery, with one
command in between; three executions allow a restart and a second one. Clients record
one cost of their own (`MaxCosts`); the Store's are not bounded. Two commands
meet in every step of a delivery; two days separate a write from its retry. Two
processes are the child and one more (started by hand, or left by an earlier desktop);
a dead one's place is used again. One fault is a crash, a SIGTERM, a lost answer, a
failed system call or a manual start at any point; the safety properties are proved
for any number of processes and faults. Deadlock is not checked in
the ledger and delivery runs, which end with the bound on revisions.
Two schema versions let a process die, or meet another one, between two migrations.

Bounds of the adapters and the authority. Two interrupts and room for one abandoned id
make a late reply, a reply to a forgotten request and an eviction; one place in the queue
and one for pending notifications make both overflow. Four lines are init, step, result
and one too many. In `pipes` a frame has up to two chunks and one size is too large; the
queue holds fewer items and bytes than the child writes. In `launch_authority` two
providers, accounts, credentials, agents and roles give every reference something wrong
to point to, and two edits are one and its undoing, or one on each side of an approval;
it is safety only, and ends with its edits.

Fairness of the adapters: the thread of a run goes on (`WF(RunThread)`); in `AgyRun` the
inactivity deadline is strongly fair, since every line refreshes it and a child writes
only `MaxLines` of them. In `ProcessPipes` the three threads are scheduled and time
passes; nothing is assumed of the child.

Fairness of `Supervisor`: the loop calls again every two seconds, started calls, tasks
and processes go on; nothing is assumed of the user.

Bounds. Four graph nodes give two independent failures, a common dependent and a
transitive one, the smallest graph in which blocking and retrying interact. Nine
operations suffice for fail, fail, retry, begin, succeed on both branches. TTL 2 with
clock values up to 3 has times before, at and after the expiry; a rollback can undo
an issue or a staging. The run has one launch: two share no row, since every table is
keyed by run or request, and a sweep, which takes all of them in one transaction, is
refused only if one of them is or the M3 state is invalid, as `NeverLockedOut` says; the
invariants are proved for any number of launches. Two cancel
requests fill the one-place channel and find it full; the third of `provider_routes`
comes after a timeout. One crash is enough, since a restart forgets all volatile state
and a second one starts from a state the first could have left.
Two edits break the M3 state and mend it again around an outcome.
`CHECK_DEADLOCK FALSE` stands where the bounds (revision, clock, restarts) or, in
`provider_routes` and `provider_clients`, the system itself ends: a run stranded by the
complete route, or by a refused outcome, can be neither ended nor stopped.

Symmetry is declared for interchangeable runs, clients, executions and commands, only
in runs without liveness.

Fairness. Threads and handlers are scheduled by the operating system and the async
runtime (weak fairness for each worker and handler); the registry lock goes to a
waiting writer once no reader holds it; a provider that falls silent is ended by
PROVIDER_TIMEOUT, so leaving the streaming phases is always enabled and fair; the
signal loop polls every 50 ms; a daemon that is down is started again by its
supervisor. `ReportRunning` is not assumed: a provider need not report. In
`StagedLaunch` the timer ticks, time passes, and a started daemon becomes ready.
Users, the broker and clients need do nothing. What they do is restricted in two places,
which the properties name: `LaunchResolves` assumes that the M3 state is valid from some
time on (`<>[]coherent`), and the invariants of the ledger assume `CarefulClients`.

## 4. What is proved

`GraphExecution_proofs` proves, for every graph that `WorkflowGraph::validate`
accepts (`GraphAssumption`), every set of owners, runs and failures:

* `TypeCorrect`, `StartOrder` (nothing starts before its inputs), `NothingDoomed` (no
  Pending node behind a dead dependency), `NothingStranded` (no Blocked node
  without a cause).

They share one inductive invariant, `GraphInv`: types plus `DepInv`, the three
dependency properties together. None of the three is inductive alone: that blocking
is complete needs that a Pending node has no dead dependency before the step, that a
retry reopens the right nodes needs that a Blocked node has a cause, and that a
started node's dependencies stay Succeeded needs that nothing leaves Succeeded.
`DownstreamClosed` and `ReopenedFixpoint` state what the two fixpoints compute;
`OneNodeLive` and `OneNodeDies` cover all operations that change one node.

* `StoredExecutionIsSound`: every transaction leaves an execution that validates, in
  which a node's run is its latest attempt and every output belongs to an attempt. With
  `GraphInv` it is inductive: `StepHasShape` says once for all operations how a step may
  move one node (`NodeMove`), its run and its attempts.
* `NothingSettledIsUndone`: no step takes back an outcome, changes a staged node's
  identity or rewrites an output.

`StagedLaunch_proofs` proves, for any graph, number of launches, requests, restarts and
clock rollbacks, `LedgersAgree`, `NeverLockedOut`, `ConsentIsSpentOnce` and the action
property `SettledStaysSettled`. The inductive invariant `LaunchInv` speaks of one run
(`RunOK`: node, attempt, staging row, plan and claim fit together) and of one request
(`GrantOK`: a grant, its times and its consumption). The times are the point: a row that
was written before a rollback must still satisfy its CHECK constraint when it is closed
afterwards, so that the invariant orders the times stored in a row and never compares
them with the clock. `NeverLockedOut` says that the conditions of the cancellation and of
the recovery (`Can_cancel`, `Can_recover`) hold exactly when `M3State::validate` accepts
the M3 state (or, for the recovery, nothing has expired): the launches themselves never
stand in the way. It speaks of the guards, not of ENABLED. The assumption on `None` is
that it is no row, id or decision.

`ProviderExecutor_proofs` proves, for every finite set of runs and any number of clients:

* `TerminalStaysFinal`, on every route and with every output;
* `StoppingIsDrained` and `ExecutorImplementsLifecycle`, the refinement of
  `RunLifecycle`, where no client uses the finish route for a run it does not own;
* `NoRunIsOrphaned`, where no client completes such a node and no output is blank, for
  every run but those in `refused`.

The hypotheses are those of the configurations: section 5 shows that the code loses a
run, or stops under one, without them. `refused` is the third way to lose a run, an M3
state that a client made invalid; it is in the property, since the runs explore it. `ExecutorInv` ties registry, phases, channels
and the counter `active` together (`active` is the number of seated threads, which
is why the set of runs is finite). `SoleOwnerInv` adds what the refinement needs: an
acknowledged cancellation is in the hands of the thread that will write it
(`Promised`), from the reply in the channel to the row in the Store. `HeldInv` says who
holds a live run.

`ProcessPipes_proofs` proves `BytesAccounted`, `WireIsFramed`, `CleanupIsTrue`,
`LinesInOrder` and the action property `OverflowIsSticky`, for every queue budget, frame size and output of the
child. `WriterInv` says what the caller and the writer thread know of each other at each
program point (one frame is under way, and its caller waits for it or is about to join
the thread); `WireInv` says that the pipe holds the frames chunk by chunk; `BudgetInv`
that the reserved bytes are those of the queue, the reader's hand and the caller's.
`Charged` is a sum over the queue, defined by recursion; the proofs need only that two
sequences with the same elements have the same sum and what one element adds, which
follow from the least counterexample (`WFMin`) instead of an induction principle.

`LinesInOrder` compares what `recv_timeout` returned with lines that are found in the whole
output at once. Its invariant `LinesInv` looks at the values on their way as one sequence,
`Stream`: returned, in the caller's hand, queued, at the sink. Queue and receiver only move
values along it (`StreamMoves`), so that the sequence changes when the decoder calls the
sink and in no other step. While the decoder reads, there is one value for each newline read, value k
is line k (`LineOf`), and `partial` is what was read since the last newline (`Cut`): that
is what makes the next value the next line. `EndInv` says why a reader that nobody stopped
has returned: after an Err(()), or at the end of the output with every line handed over.
None of this holds of the queue once it has overflowed, when only the values returned
count; `ReturnedInv` keeps them.

`AdapterRun_proofs` proves of `CodexRun`, for any number of notifications, faults and interrupts and any
size of the queues and of the quarantine:

* `NotesStayInOrder`. The invariant `OrderInv` says that what was ingested, put by during
  a request and waits in the pipe is the log, in this order; `Follows` gives each message
  of the pipe its place in the log, up to the point where the queue overflowed.
* `CodexOutcomeHasCause`. `SeenInv` says what the tracker must have been told for the
  state it is in. That no late reply is taken for drift needs `QuarantineInv` (each reply
  still to come is awaited or its id is quarantined, unless one was evicted) and
  `ProperInv` (each request is answered once), neither of which is inductive alone.
* `CodexKeepsPromise`: every step is one of `AdapterRun` or a stutter. The fairness part
  of `KeepsPromise` stays with TLC.

And of `AgyRun`, for any number of lines and any size of the queue, `AgyKeepsPromise` and
`AgyOutcomeHasReason`. `Reading` gives the run thread its place c in what the child has
written: what the stream has noted (an init, an answer after it) was in the first c lines,
and the lines that wait are the next ones, but for a torn line that the end of the child
leaves at their end. `AgyPhase` adds that a terminal update is held back only behind a
confirmed shutdown, without which `AdapterRun` would see an outcome beside a live child.

`LaunchAuthority_proofs` proves `UsedAsAgreed` and `ChecksAreExact` for any catalogs that
validate, any number of agents, runs, requests and edits. The inductive invariant
`AuthorityInv` has one part per table. `PlansInv` says that a plan records what was noted
when its attempt began; `GrantsInv` that a grant is for a decided request, whose action is
what was agreed to and names the credential of the plan; `WorkersInv` that a worker runs a
plan without an account, in which nothing was staged; `StagedInv` that a launch that waits
has its plan, the request made for it and its run exactly as they were when it was staged.
`UsedAsAgreed` needs the first three: the use is checked against the plan, the consent is
on the terms, and only the invariant says that the two are the same. `ChecksAreExact`
needs the last: the checks read rows that an edit may have replaced, and are exact only
because a run that waits cannot be replaced and a request is never rewritten. The
assumptions are those of the code: `SeedsAreValid` (the catalogs of the initial state
validate, as what the Store loads does), `NoneIsNoRow` (`None` is no id, row or text), and
run ids and request ids are different UUIDs.

`M3Ledger_proofs` proves, for any number of clients, executions, documents and
deliveries and under `CarefulClients`, that `LedgerValid`, `EveryOutputIsPriced` and
`NothingIsLost` hold. The invariant adds `SnapshotsCurrent`: a client whose revision is
still the stored one holds exactly the stored catalog. Without it a catalog that is
sent back could be anything, and neither `LedgerValid` nor the action property would
survive `ReplaceCatalog`. `RestartedOnce` is proved for all clients, careful or not: the
Store itself restarts an execution at most once, because a restart stays linked to its
original. It does not speak of executions that a client submits as restarts; the Store
takes the first of them for its own (section 5).

`Desktop_proofs` proves of `Supervisor` that `OneStoreOwner`, `ServingIsReachable` and
`NoLostChild` hold for any number of callers, processes and events, from `LockIsHeld`
(the lock belongs to the process between its flock and its exit) and `SocketIsHeld` (from
`UnixListener::bind`, before the socket is private, to the drop of the guard the socket is
the holder's). `OneStoreOwner` contains `SchemaIsOwn`: the
version a migrating process read is still the one of the database, so that no migration
is applied twice, and who serves has all of them.

Of `KnowledgeDelivery` it proves `DeliveredIsPublished` and `NotesAreKept` for any
number of commands, failures and days. `CallEvidence` says what a command at each program
point may rely on (one before `check_log` knows the index entry exists, one at
`complete` knows all of it), `OneWriter` that only the command that created a note is
about to write it, and `GrowthStep` that nothing published disappears. `PublishedOnce`
follows from a bound that counts the entries and the commands about to append one: their
sum never exceeds the number of commands, which is finite; for memories (`MemoryRoom`)
programs that outlived their desktop are counted on both sides. (The module prefixes its
specification with `KD` so that one module of proofs can extend both.)

Only model-checked:

* liveness (`LaunchResolves`, `CallsReturn`, `RequestsReturn`, `DaemonDrains`,
  `DaemonComesBack`, and the fairness part of `KeepsPromise`), which is outside the
  prover.

## 5. Findings

One run keeps a finding: `provider_blank`. An output of white space only is turned into a
failure that keeps its text, which the Store then refuses; the worker gives up and the
run stays live, so that the daemon refuses every later shutdown.

TLC shows the following in seconds, with the configuration named; where a property is
named without its exception, that part of its definition has to be taken out first.

* `retry_failed` reopens Blocked nodes that are not descendants of the retried node and
  clears their run and failure, against its doc comment (`graph.rs:605`): a sibling whose
  own provider run ended Blocked goes back to Pending (`MCGraphExecution.cfg` with
  PROPERTY `RetryTouchesOnlyDescendants`).
* A vault note contains its day of delivery and is compared as a whole: a delivery whose
  record was refused conflicts with its own note from the next day on, although
  `docs/M3_TASK_GRAPH.md:90` says that a marker is reconciled before a retry
  (`MCKnowledgeDelivery.cfg` with INVARIANT `RetryIsPossible`
  and `MaxFailures = 0`).
* The tasks of sleep and wake are not ordered: a late suspend leaves the daemon
  Suspended on a machine that is awake (`MCSupervisor.cfg` with INVARIANT
  `AwakeIsNotSuspended`).
* The finish route accepts runs that a worker drives, and a signal's checkpoint looks
  only at the Store: the process may end under a working provider
  (`NoProviderAbandoned`, `MCProviderBlank.cfg` with `Route = {"finish"}` and
  `Text = {"none", "text"}`).
* `create_graph_execution` does not look up the baseline of the execution it stores,
  and `replace_m3_catalog` checks the catalog without the executions: a client other
  than the desktop can leave a state that `M3State::validate` rejects, which locks out
  every later command that validates it (`LedgerValid`, `MCM3Ledger.cfg` with
  `CarefulClients = FALSE`). While it lasts,
  * a provider's result is refused as `InvalidM3`, `persist_outcome` gives up
    (`provider_executor.rs:656`) and its run stays live for good, so that a signal waits
    for ever (`DaemonDrains` without its exception `refused`, `MCProviderClients.cfg`);
  * no launch can be cancelled (`staged_launches.rs:250`), the expiry sweep only logs its
    failure, and a daemon that is started beside an expired launch does not open its
    database (`lib.rs:775`), although only a running daemon could accept the repair
    (`NeverLockedOut` and `LaunchResolves` without `coherent`, `MCStagedLaunch.cfg`).
* A daemon that dies between `UnixListener::bind` and `set_permissions` (`unix.rs:148`)
  leaves a socket with the mode of the umask. If others may open it, `validate_socket`
  denies it to every later bind and connect, and no daemon comes back until somebody
  removes the file (`DaemonComesBack` without its exception, `MCSupervisor.cfg`).
* `ensure_running` reads the quit flag once, before its awaits, and may start a daemon
  during Quit that outlives the desktop (`QuitLeavesNoDaemon`, `MCSupervisor.cfg`).

And these were read in the code while modelling it; the models contain them.

* Agy: a child killed in the middle of a line leaves a torn one, which `consume_line`
  calls ProtocolDrift, so an accepted `request_cancellation` may end as Uncertain
  (`process.rs:376`, `process_output.rs:173`).
* The inactivity deadline is looked at before the queue (Agy `process.rs:326`, Codex
  `stdio.rs:228`): a late poll discards a result that has arrived as a timeout.
* Codex: a reply that says "rejected, retryable" closes the transport all the same; a
  quarantined reply refreshes the deadline of a request, though the poll path does not
  count it as activity.
* A run without an account is begun and preflighted without looking at the lifecycle of
  its agent, provider and assignment (only project and role must be active), and the
  lifecycle of a model is never looked at.
* `restarted_from_execution_id` of an execution that a client submits is not checked
  (`lib.rs:1810`): `restart_missing_output_graph` takes it for the restart of the named
  execution and starts none itself.
* An `agent-memory add` whose desktop dies goes on; the retry of another desktop may search
  before it has stored its memory, and then stores a second one.

## 6. Not modelled, and the plan

Prompts, digests, failure texts and the wire format are data whose validation verdicts
are inputs. The client library and the routes that only forward a command keep no state.
Operating-system work (sandbox, job objects, key stores, named pipes, workspace
snapshots) is outside: the models know whether it succeeded. The desktop's projections,
exports and inspection of installed agents only read. The conformance kit is a test
harness. A poisoned mutex and a permanently failing disk are left out: the code retries
them for ever. All processes of `Supervisor` are of one build, so that the refusal of a
database with a newer schema is not reached.

Next, in this order:

1. composition of `StagedLaunch` with the signal loop of `ProviderExecutor`, and of
   `Supervisor` with the provider runs that refuse a quit;
2. `GraphRestart`: retried nodes together with restarted executions, where
   `GraphExecution::output` falls back to a historical output.
