----------------------------- MODULE Supervisor -----------------------------
(***************************************************************************)
(* The desktop keeps one daemon alive, stops it on Quit and follows the    *)
(* machine's sleep: supervisor.rs and the power and exit handlers of       *)
(* apps/desktop/src-tauri/src/lib.rs, against the start and stop of the    *)
(* daemon (crates/bastet-daemon/src/main.rs) and the ownership of its Unix *)
(* endpoint (crates/bastet-local-ipc/src/unix.rs).                         *)
(*                                                                         *)
(* Actors: callers of ensure_running (the loop that runs every two seconds *)
(* and the window's daemon_snapshot), the quit task, the suspend and the   *)
(* resume task, and daemon processes.  Every await of the desktop is a     *)
(* point where all others may run.  Somebody may also start a daemon by    *)
(* hand, and the desktop may die and be started again.                     *)
(*                                                                         *)
(* A revision is only ever compared with the one read before, so instead   *)
(* of the number the model keeps which task's number is still current.     *)
(* Requests that time out, and the crashes, are drawn from a budget.       *)
(***************************************************************************)
EXTENDS Naturals, FiniteSets

CONSTANTS
    Loop,       \* the supervision loop
    Window,     \* callers of daemon_snapshot
    Proc,       \* daemon processes; a dead one's place is used again
    MaxFaults,  \* bound: crashes, lost answers, failed system calls, manual starts
    MaxQuits,   \* bound: requests to quit
    MaxSleeps,  \* bound: times the machine goes to sleep
    SchemaVersion,  \* migrations of the database (every process is of one build)
    Stale,      \* a socket file nobody listens on
    Denied,     \* ... and that others may open besides
    None

ASSUME SupervisorAssumption ==
    /\ Loop \notin Window
    /\ MaxFaults \in Nat /\ MaxQuits \in Nat /\ MaxSleeps \in Nat
    /\ SchemaVersion \in Nat
    /\ Stale # Denied /\ Stale # None /\ Denied # None
    /\ {Stale, Denied, None} \cap Proc = {}

VARIABLES
    proc,           \* where each daemon process is
    lock,           \* holder of the flock on the endpoint's lock file
    socket,         \* whose socket file lies at the endpoint, if any
    schema,         \* the last of schema_migrations
    current,        \* apply_migrations: the version each process has got to
    lifecycle,      \* daemon_state
    fresh,          \* tasks whose snapshot still has the current revision
    desktop,        \* the desktop process
    child,          \* DaemonSupervisor: handle of the spawned process
    mine,           \* processes this desktop process spawned (history)
    shutting_down,  \* DaemonSupervisor
    at,             \* program point of every task of the desktop
    power,          \* the machine
    budget

endpoint == <<proc, lock, socket>>
store == <<schema, current>>
state == <<lifecycle, fresh>>
shell == <<desktop, child, mine, shutting_down>>
vars == <<endpoint, store, state, shell, at, power, budget>>

Caller == {Loop} \cup Window
Task == {"quit", "suspend", "resume"}

Live == {"spawned", "locked", "binding", "bound", "migrating", "serving", "draining", "unlinked"}

TypeOK ==
    /\ proc \in [Proc -> Live \cup {"dead"}]
    /\ lock \in Proc \cup {None}
    /\ socket \in Proc \cup {Stale, Denied, None}
    /\ schema \in 0..SchemaVersion
    /\ current \in [Proc -> 0..SchemaVersion]
    /\ lifecycle \in {"starting", "ready", "suspended", "stopping"}
    /\ fresh \subseteq Task
    /\ desktop \in {"running", "quit", "crashed"}
    /\ child \in Proc \cup {None}
    /\ mine \subseteq Proc
    /\ shutting_down \in BOOLEAN
    /\ at \in [Caller \cup Task -> {"idle", "probe", "reap", "spawn", "poll",
                                     "snapshot", "send", "exit"}]
    /\ power \in {"awake", "falling", "asleep"}
    /\ budget \in [fault : 0..MaxFaults, quit : 0..MaxQuits, sleep : 0..MaxSleeps]

Spend(what) == budget[what] > 0 /\ budget' = [budget EXCEPT ![what] = @ - 1]

\* Nothing runs while the machine sleeps.
Awake == power # "asleep"
Active(t, point) == Awake /\ desktop = "running" /\ at[t] = point
Goto(t, point) == at' = [at EXCEPT ![t] = point]

\* A connection to the endpoint reaches p, and p answers it.
Answers(p) == socket = p /\ proc[p] = "serving"
Reachable == \E p \in Proc : Answers(p)

\* A write to daemon_state: a new lifecycle and a new revision.
Commit(new) == lifecycle' = new /\ fresh' = {}

-----------------------------------------------------------------------------
(* ensure_running                                                          *)

\* The quit flag is looked at once, before the first await.
EnsureRunning(c) ==
    /\ Active(c, "idle")
    /\ Goto(c, IF shutting_down THEN "idle" ELSE "probe")
    /\ UNCHANGED <<endpoint, state, shell, power, store, budget>>

\* client.snapshot(): a daemon that serves may still be too slow to answer.
Probe(c) ==
    /\ Active(c, "probe")
    /\ \/ Reachable /\ Goto(c, "idle") /\ UNCHANGED budget
       \/ ~Reachable /\ Goto(c, "reap") /\ UNCHANGED budget
       \/ Reachable /\ Goto(c, "reap") /\ Spend("fault")
    /\ UNCHANGED <<endpoint, state, shell, power, store>>

\* try_wait reports an exit status.
ChildEnded == \E p \in Proc : p = child /\ proc[p] = "dead"

RecordPreviousExit_Keeps(c) ==
    /\ Active(c, "reap")
    /\ Goto(c, "spawn")
    /\ UNCHANGED <<endpoint, state, shell, power, store, budget>>

\* record_previous_exit: a child that ended is forgotten, unless its exit
\* cannot be written down.
RecordPreviousExit(c) ==
    /\ Active(c, "reap")
    /\ \/ /\ ChildEnded
          /\ \/ child' = None /\ Goto(c, "spawn") /\ UNCHANGED budget
             \/ UNCHANGED child /\ Goto(c, "idle") /\ Spend("fault")
       \/ /\ ~ChildEnded
          /\ Goto(c, "spawn")
          /\ UNCHANGED <<child, budget>>
    /\ UNCHANGED <<endpoint, state, desktop, mine, shutting_down, power, store>>

Free(p) == proc[p] = "dead" /\ p # child

Spawn_Unchecked(c) ==
    /\ Active(c, "spawn")
    /\ \E p \in {q \in Proc : Free(q)} :
          /\ proc' = [proc EXCEPT ![p] = "spawned"]
          /\ child' = p
          /\ mine' = mine \cup {p}
    /\ Goto(c, "poll")
    /\ UNCHANGED <<lock, socket, state, desktop, shutting_down, power, store, budget>>

\* spawn, under the child mutex: nothing to do when there is a child.
Spawn(c) ==
    /\ Active(c, "spawn")
    /\ \/ /\ child = None
          /\ \E p \in {q \in Proc : Free(q)} :
                /\ proc' = [proc EXCEPT ![p] = "spawned"]
                /\ child' = p
                /\ mine' = mine \cup {p}
          /\ Goto(c, "poll")
          /\ UNCHANGED budget
       \/ /\ child # None
          /\ Goto(c, "poll")
          /\ UNCHANGED <<proc, child, mine, budget>>
       \/ /\ child = None
          /\ Spend("fault")
          /\ Goto(c, "idle")
          /\ UNCHANGED <<proc, child, mine>>
    /\ UNCHANGED <<lock, socket, state, desktop, shutting_down, power, store>>

\* Up to thirty probes: the call returns when one succeeds or after the last.
Poll(c) ==
    /\ Active(c, "poll")
    /\ Goto(c, "idle")
    /\ UNCHANGED <<endpoint, state, shell, power, store, budget>>

-----------------------------------------------------------------------------
(* A daemon process                                                        *)

\* bind: the lock comes first; a process that does not get it ends before
\* it touches the socket or the database.
Lock(p) ==
    /\ Awake /\ proc[p] = "spawned"
    /\ \/ lock = None /\ lock' = p /\ proc' = [proc EXCEPT ![p] = "locked"]
       \/ lock # None /\ UNCHANGED lock /\ proc' = [proc EXCEPT ![p] = "dead"]
    /\ UNCHANGED <<socket, state, shell, at, power, store, budget>>

\* What a process that dies leaves of its endpoint: the operating system frees
\* the lock, the socket file stays as it is.
Abandon(p) ==
    /\ proc' = [proc EXCEPT ![p] = "dead"]
    /\ lock' = IF lock = p THEN None ELSE lock
    /\ socket' = IF socket # p THEN socket
                 ELSE IF proc[p] = "binding" THEN Denied ELSE Stale

\* bind: a private socket nobody listens on is removed and replaced; any other
\* that is in the way ends the process.
Bind(p) ==
    /\ Awake /\ proc[p] = "locked"
    /\ IF \/ socket = Denied
          \/ \E q \in Proc : socket = q /\ proc[q] \in {"binding", "bound", "migrating", "serving"}
       THEN Abandon(p)
       ELSE /\ socket' = p
            /\ proc' = [proc EXCEPT ![p] = "binding"]
            /\ UNCHANGED lock
    /\ UNCHANGED <<state, shell, at, power, store, budget>>

\* bind: only now is the new socket made private.
SetPermissions(p) ==
    /\ Awake /\ proc[p] = "binding"
    /\ proc' = [proc EXCEPT ![p] = "bound"]
    /\ UNCHANGED <<lock, socket, state, shell, at, power, store, budget>>

\* apply_migrations reads the version of the database once ...
ReadSchema(p) ==
    /\ Awake /\ proc[p] = "bound"
    /\ proc' = [proc EXCEPT ![p] = "migrating"]
    /\ current' = [current EXCEPT ![p] = schema]
    /\ UNCHANGED <<lock, socket, schema, state, shell, at, power, budget>>

\* ... and brings in what is missing, every version in a transaction of its
\* own.  A version that is already there makes it fail, and the process ends.
Migrate(p) ==
    /\ Awake /\ proc[p] = "migrating" /\ current[p] < SchemaVersion
    /\ IF schema = current[p]
       THEN /\ schema' = schema + 1
            /\ current' = [current EXCEPT ![p] = schema + 1]
            /\ UNCHANGED endpoint
       ELSE Abandon(p) /\ UNCHANGED store
    /\ UNCHANGED <<state, shell, at, power, budget>>

\* The rest of Store::open with its recovery, then mark_ready; requests are
\* answered from here on.
Open(p) ==
    /\ Awake /\ proc[p] = "migrating" /\ current[p] = SchemaVersion
    /\ proc' = [proc EXCEPT ![p] = "serving"]
    /\ Commit("ready")
    /\ UNCHANGED <<lock, socket, shell, at, power, store, budget>>

Stop_DropsGuard(p) ==
    /\ proc' = [proc EXCEPT ![p] = "draining"]
    /\ lock' = None
    /\ UNCHANGED socket

\* Graceful shutdown: the listener is closed, open connections are
\* finished, and the endpoint guard is held through all of it.
Stop(p) ==
    /\ proc' = [proc EXCEPT ![p] = "draining"]
    /\ UNCHANGED <<lock, socket>>

CloseEndpoint_Swapped(p) ==
    /\ Awake
    /\ \/ /\ proc[p] = "draining"
          /\ proc' = [proc EXCEPT ![p] = "unlinked"]
          /\ lock' = None
          /\ UNCHANGED socket
       \/ /\ proc[p] = "unlinked"
          /\ proc' = [proc EXCEPT ![p] = "dead"]
          /\ socket' = None
          /\ UNCHANGED lock
    /\ UNCHANGED <<state, shell, at, power, store, budget>>

\* EndpointGuard is dropped: the socket goes first, the lock with the
\* process.
CloseEndpoint(p) ==
    /\ Awake
    /\ \/ /\ proc[p] = "draining"
          /\ proc' = [proc EXCEPT ![p] = "unlinked"]
          /\ socket' = IF socket = p THEN None ELSE socket
          /\ UNCHANGED lock
       \/ /\ proc[p] = "unlinked"
          /\ proc' = [proc EXCEPT ![p] = "dead"]
          /\ lock' = IF lock = p THEN None ELSE lock
          /\ UNCHANGED socket
    /\ UNCHANGED <<state, shell, at, power, store, budget>>

\* The process is killed, or set_permissions or Store::open fails.
Crash(p) ==
    /\ Awake /\ proc[p] \in Live
    /\ Spend("fault")
    /\ Abandon(p)
    /\ UNCHANGED <<state, shell, at, power, store>>

\* SIGTERM from outside: checkpoint_for_signal, then the same way down.
Terminate(p) ==
    /\ Awake /\ proc[p] = "serving"
    /\ Spend("fault")
    /\ Commit("stopping")
    /\ Stop(p)
    /\ UNCHANGED <<shell, at, power, store>>

\* Somebody runs the daemon from a terminal.
ManualStart(p) ==
    /\ Awake /\ Free(p)
    /\ Spend("fault")
    /\ proc' = [proc EXCEPT ![p] = "spawned"]
    /\ mine' = mine \ {p}
    /\ UNCHANGED <<lock, socket, state, desktop, child, shutting_down, at, power, store>>

-----------------------------------------------------------------------------
(* Quit                                                                    *)

\* request_checkpointed_exit: one owner at a time.
RequestQuit ==
    /\ Active("quit", "idle")
    /\ ~shutting_down
    /\ Spend("quit")
    /\ shutting_down' = TRUE
    /\ Goto("quit", "snapshot")
    /\ UNCHANGED <<endpoint, state, desktop, child, mine, power, store>>

\* The task's snapshot arrives; its revision is current.
ReadRevision(t) ==
    /\ Goto(t, "send")
    /\ lifecycle' = lifecycle
    /\ fresh' = fresh \cup {t}
    /\ UNCHANGED <<endpoint, shell, power, store, budget>>

QuitSnapshot ==
    /\ Active("quit", "snapshot")
    /\ Reachable
    /\ ReadRevision("quit")

\* The shutdown route: the checkpoint is stored, then the receipt is sent.
QuitShutdown ==
    /\ Active("quit", "send")
    /\ "quit" \in fresh
    /\ \E p \in Proc : Answers(p) /\ Stop(p)
    /\ Commit("stopping")
    /\ Goto("quit", "exit")
    /\ UNCHANGED <<shell, power, store, budget>>

\* No daemon, a stale revision, active runs, or an answer that is lost,
\* also the receipt: the desktop stays, and supervision goes on.
QuitFails ==
    /\ Awake /\ desktop = "running"
    /\ \/ at["quit"] = "snapshot" /\ ~Reachable /\ UNCHANGED budget
       \/ at["quit"] = "send" /\ ~(Reachable /\ "quit" \in fresh) /\ UNCHANGED budget
       \/ at["quit"] \in {"snapshot", "send", "exit"} /\ Spend("fault")
    /\ Goto("quit", "idle")
    /\ shutting_down' = FALSE
    /\ UNCHANGED <<endpoint, state, desktop, child, mine, power, store>>

Gone(how) ==
    /\ desktop' = how
    /\ child' = None
    /\ mine' = {}
    /\ shutting_down' = FALSE
    /\ at' = [t \in DOMAIN at |-> "idle"]

\* authorize_exit and app.exit: every task ends with the process.
Exit ==
    /\ Active("quit", "exit")
    /\ Gone("quit")
    /\ UNCHANGED <<endpoint, state, power, store, budget>>

DesktopCrashes ==
    /\ Awake /\ desktop = "running"
    /\ Spend("fault")
    /\ Gone("crashed")
    /\ UNCHANGED <<endpoint, state, power, store>>

Launch ==
    /\ Awake /\ desktop # "running"
    /\ desktop' = "running"
    /\ UNCHANGED <<endpoint, state, child, mine, shutting_down, at, power, store, budget>>

-----------------------------------------------------------------------------
(* Sleep and wake                                                          *)

\* The notification only spawns the suspend task; the machine does not wait
\* for it.
WillSleep ==
    /\ power = "awake"
    /\ Active("suspend", "idle")
    /\ Spend("sleep")
    /\ power' = "falling"
    /\ Goto("suspend", "snapshot")
    /\ UNCHANGED <<endpoint, state, shell, store>>

FallAsleep ==
    /\ power = "falling"
    /\ power' = "asleep"
    /\ UNCHANGED <<endpoint, state, shell, store, at, budget>>

\* The wake notification spawns the resume task.
Wake ==
    /\ power = "asleep"
    /\ power' = "awake"
    /\ IF desktop = "running" /\ at["resume"] = "idle"
       THEN Goto("resume", "snapshot") ELSE UNCHANGED at
    /\ UNCHANGED <<endpoint, state, shell, store, budget>>

Required(t) == IF t = "suspend" THEN "ready" ELSE "suspended"
Result(t) == IF t = "suspend" THEN "suspended" ELSE "ready"

\* suspend_if_ready and resume_if_suspended read a snapshot, ...
PowerSnapshot(t) ==
    /\ Active(t, "snapshot")
    /\ Reachable
    /\ lifecycle = Required(t)
    /\ ReadRevision(t)

\* ... and send the command with its revision.
PowerSend(t) ==
    /\ Active(t, "send")
    /\ Reachable
    /\ t \in fresh
    /\ lifecycle = Required(t)
    /\ Commit(Result(t))
    /\ Goto(t, "idle")
    /\ UNCHANGED <<endpoint, shell, power, store, budget>>

\* Not reachable, another lifecycle, another revision, or lost.
PowerFails(t) ==
    /\ Awake /\ desktop = "running"
    /\ \/ /\ at[t] \in {"snapshot", "send"}
          /\ ~Reachable \/ lifecycle # Required(t) \/ (at[t] = "send" /\ t \notin fresh)
          /\ UNCHANGED budget
       \/ at[t] \in {"snapshot", "send"} /\ Spend("fault")
    /\ Goto(t, "idle")
    /\ UNCHANGED <<endpoint, state, shell, power, store>>

-----------------------------------------------------------------------------
Init ==
    /\ proc = [p \in Proc |-> "dead"]
    /\ lock = None
    /\ socket = None
    /\ schema \in 0..SchemaVersion
    /\ current = [p \in Proc |-> 0]
    /\ lifecycle = "starting"
    /\ fresh = {}
    /\ desktop = "running"
    /\ child = None
    /\ mine = {}
    /\ shutting_down = FALSE
    /\ at = [t \in Caller \cup Task |-> "idle"]
    /\ power = "awake"
    /\ budget = [fault |-> MaxFaults, quit |-> MaxQuits, sleep |-> MaxSleeps]

CallerStep(c) == Probe(c) \/ RecordPreviousExit(c) \/ Spawn(c) \/ Poll(c)
ProcessStep(p) ==
    \/ Lock(p) \/ Bind(p) \/ SetPermissions(p) \/ ReadSchema(p) \/ Migrate(p) \/ Open(p)
    \/ CloseEndpoint(p)
QuitStep == QuitSnapshot \/ QuitShutdown \/ QuitFails \/ Exit
PowerStep(t) == PowerSnapshot(t) \/ PowerSend(t) \/ PowerFails(t)

Next ==
    \/ \E c \in Caller : EnsureRunning(c) \/ CallerStep(c)
    \/ \E p \in Proc : ProcessStep(p) \/ Crash(p) \/ Terminate(p) \/ ManualStart(p)
    \/ RequestQuit \/ QuitStep
    \/ DesktopCrashes \/ Launch
    \/ WillSleep \/ FallAsleep \/ Wake
    \/ \E t \in {"suspend", "resume"} : PowerStep(t)

Spec == Init /\ [][Next]_vars

\* The loop calls ensure_running again and again; started calls, tasks and
\* processes go on; the machine wakes up.  Nobody has to open the window,
\* quit or relaunch.
Fairness ==
    /\ WF_vars(EnsureRunning(Loop))
    /\ \A c \in Caller : WF_vars(CallerStep(c))
    /\ \A p \in Proc : WF_vars(ProcessStep(p))
    /\ WF_vars(QuitStep)
    /\ \A t \in {"suspend", "resume"} : WF_vars(PowerStep(t))
    /\ WF_vars(FallAsleep) /\ WF_vars(Wake)

FairSpec == Spec /\ Fairness

-----------------------------------------------------------------------------
(* Properties                                                              *)

\* No other process migrates the database meanwhile: the version read at first
\* stays true, no migration is run twice, and whatever crashed before, the
\* daemon serves the full schema (apply_migrations).
SchemaIsOwn ==
    \A p \in Proc :
        /\ proc[p] = "migrating" => current[p] = schema
        /\ proc[p] \in {"serving", "draining"} => schema = SchemaVersion

\* "A competing process must fail before Store startup recovery can run":
\* from its migrations and recovery to the last connection a daemon has the
\* database for itself, whoever starts another one meanwhile (main, unix::bind).
OneStoreOwner ==
    /\ Cardinality({p \in Proc :
          proc[p] \in {"bound", "migrating", "serving", "draining"}}) <= 1
    /\ SchemaIsOwn

\* The daemon that serves is the one clients reach: neither a leaving
\* daemon nor a recovered stale socket takes its endpoint away
\* (EndpointGuard::drop, unix::bind).
ServingIsReachable == \A p \in Proc : proc[p] = "serving" => socket = p

\* The desktop holds the handle of every process of its own that lives,
\* although two callers may find the daemon missing at the same time
\* (ensure_running, record_previous_exit, spawn).
NoLostChild == \A p \in mine : proc[p] # "dead" => child = p

\* Whatever ended the daemon, a running desktop gets one again
\* (ensure_running in the supervision loop), with one exception: a daemon that
\* died after UnixListener::bind and before set_permissions has left a socket
\* that validate_socket denies to every later daemon and client.
DaemonComesBack == []<>(desktop # "running" \/ Reachable \/ socket = Denied)

\* "Direct tray Quit exited the desktop with code 0, closed the listener":
\* after Quit no daemon is left that will serve (request_checkpointed_exit
\* against ensure_running).
QuitLeavesNoDaemon ==
    desktop = "quit" => \A p \in Proc : proc[p] \in {"dead", "draining", "unlinked"}

\* ready, suspended, ready: once the machine is awake and the tasks of the
\* last sleep are done, the daemon is not left suspended
\* (request_suspend, request_resume).
AwakeIsNotSuspended ==
    (power = "awake" /\ Reachable /\ at["suspend"] = "idle" /\ at["resume"] = "idle")
        => lifecycle # "suspended"
=============================================================================
