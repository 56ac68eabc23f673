---------------------------- MODULE StagedLaunch ----------------------------
(***************************************************************************)
(* Launches that use a selected account wait for an approval, receive a    *)
(* one-use credential grant and are claimed by the credential broker:      *)
(* crates/bastet-daemon/src/staged_launches.rs, credential_grants.rs,      *)
(* credential_dispatch.rs and the Store operations of lib.rs that call     *)
(* them.  The durable tables are variables; each Store operation is one    *)
(* IMMEDIATE transaction, hence one action, and a rejected operation       *)
(* writes nothing.  The broker's in-memory claim is lost in a crash; the   *)
(* wall clock may be set back.                                             *)
(*                                                                         *)
(* A command that carries a stale revision is rejected, so the revisions   *)
(* themselves are not modelled here.  "current" abstracts the live catalog:*)
(* the runs whose saved launch plan still is what the catalog and the m3   *)
(* catalog resolve to, under a policy that allows it.  "coherent" is what  *)
(* M3State::validate says of the identity catalog, the m3 catalog and all  *)
(* graph executions together.  The Store's own changes keep it, but a      *)
(* client's replace_m3_catalog and create_graph_execution are not held to  *)
(* it (M3Ledger models both in detail), and cancelling a launch and        *)
(* finishing a run are refused without it.                                 *)
(***************************************************************************)
EXTENDS WorkflowGraph, Sequences

CONSTANTS
    Request,      \* approval request identities
    TTL,          \* APPROVAL_TTL_MS, in clock units
    MaxClock,     \* bound: the last clock value explored
    MaxRestarts,  \* bound: how often the daemon process is restarted
    MaxRollbacks  \* bound: how often the wall clock is set back

ASSUME StagedLaunchAssumption ==
    /\ TTL \in Nat \ {0}
    /\ MaxClock \in Nat /\ MaxRestarts \in Nat /\ MaxRollbacks \in Nat
    /\ None \notin Request \cup Nat \cup {"Approve", "Deny"}

VARIABLES
    nodes,       \* graph_executions: the execution's nodes
    attempts,    \* graph_node_runs, oldest attempt first
    unfinished,  \* graph_node_runs rows without finished_at and terminal_state
    runs,        \* identity_catalog: state and times of every run
    plans,       \* provider_launch_plans
    staged,      \* staged_provider_launches
    requests,    \* approval_requests with their decisions
    grants,      \* credential_grants
    claims,      \* provider_dispatch_claims
    current,     \* live authority, see above
    coherent,    \* M3State::validate accepts catalogs and executions together
    lifecycle,   \* daemon_state
    broker,      \* volatile: the broker's use of a DispatchClaim
    clock,       \* SystemTime::now
    restarts,    \* bounded counters
    rollbacks

ledgers == <<nodes, attempts, unfinished, runs, plans, staged, requests, grants, claims>>
bounds == <<restarts, rollbacks>>
vars == <<ledgers, current, coherent, lifecycle, broker, clock, bounds>>

LiveRunState == {"Starting", "Running", "Cancelling"}
RunState == {"Absent", "AwaitingApproval"} \cup LiveRunState \cup TerminalState

Run == [state : RunState, started : BOOLEAN, finished : BOOLEAN]
Plan == [node : Node, owner : Owner]
Staged == [request : Request, staged_at : Nat, finished_at : Nat \cup {None},
           state : {"awaiting_approval", "ready", "dispatching", "cancelled", "uncertain"}]
RequestRow == [run : RunId, created : Nat, expires : Nat,
               decision : {None, "Approve", "Deny"}, decided_at : Nat \cup {None}]
Grant == [issued : Nat, consumed : Nat \cup {None}, revoked : Nat \cup {None}]

ASSUME NoneIsNoRow == None \notin Plan \cup Staged \cup RequestRow \cup Grant

Later(a, b) == IF a > b THEN a ELSE b

Init ==
    /\ nodes = StartNodes
    /\ attempts = [n \in Node |-> <<>>]
    /\ unfinished = {}
    /\ runs = [r \in RunId |-> [state |-> "Absent", started |-> FALSE, finished |-> FALSE]]
    /\ plans = [r \in RunId |-> None]
    /\ staged = [r \in RunId |-> None]
    /\ requests = [q \in Request |-> None]
    /\ grants = [q \in Request |-> None]
    /\ claims = {}
    /\ current = {}
    /\ coherent = TRUE
    /\ lifecycle = "starting"
    /\ broker = [r \in RunId |-> "idle"]
    /\ clock = 0
    /\ restarts = 0
    /\ rollbacks = 0

-----------------------------------------------------------------------------
(* Validation.                                                             *)

\* The HTTP server runs once mark_ready has succeeded, and finishes requests
\* in flight after a shutdown.
Serving == lifecycle \in {"ready", "suspended", "stopping"}

\* The state an undispatched launch is in.
Undispatched(r) == staged[r] # None /\ staged[r].state \in {"awaiting_approval", "ready"}

\* validate_staged_context without live authority: catalog run, ledger row,
\* plan, graph node, attempt and request all tell the same story.
validate_staged_context(r) ==
    /\ runs[r] = [state |-> "AwaitingApproval", started |-> FALSE, finished |-> FALSE]
    /\ Undispatched(r)
    /\ staged[r].finished_at = None
    /\ plans[r] # None
    /\ IsStagedAs(nodes, plans[r].node, plans[r].owner, r)
    /\ LET tried == attempts[plans[r].node]
       IN  tried # <<>> /\ tried[Len(tried)] = r
    /\ r \in unfinished
    /\ requests[staged[r].request] # None
    /\ requests[staged[r].request].run = r

validate_decision_and_grant_state(r) ==
    LET q == staged[r].request
    IN  \/ /\ staged[r].state = "awaiting_approval"
           /\ requests[q].decision = None
           /\ grants[q] = None
        \/ /\ staged[r].state = "ready"
           /\ requests[q].decision = "Approve"
           /\ grants[q] = [issued |-> requests[q].decided_at,
                           consumed |-> None, revoked |-> None]

validate_staged_run(r) == validate_staged_context(r) /\ validate_decision_and_grant_state(r)

\* Mutant: an expired request still counts.
validate_time_Expired(q) == requests[q].created <= clock

validate_time(q) == requests[q].created <= clock /\ clock < requests[q].expires

\* validate_current_catalog: the run may (still) use the credential.
validate_current_catalog(q, r) ==
    /\ ~runs[r].finished
    /\ IF staged[r] # None
       THEN /\ staged[r].request = q /\ Undispatched(r)
            /\ runs[r].state = "AwaitingApproval" /\ ~runs[r].started
       ELSE runs[r].state = "Starting"
    /\ r \in unfinished
    /\ LET e == nodes[plans[r].node]
       IN  /\ e.run_id = r
           /\ e.owner = plans[r].owner
           /\ e.state = IF staged[r] # None THEN "AwaitingApproval" ELSE "Running"
    /\ r \in current

-----------------------------------------------------------------------------
(* Cancelling undispatched launches: cancel_for_request, for every run of  *)
(* a set (a sweep may cancel several in one transaction).                  *)

\* Mutant: the wall clock is trusted to move forward.
CancelTime_Now(r) == clock

CancelTime(r) == Later(clock, staged[r].staged_at)

RevokeTime(q, r) == Later(grants[q].issued, CancelTime(r))

\* The CHECK constraints of staged_provider_launches and credential_grants.
CancelChecks(r) ==
    LET q == staged[r].request
    IN  /\ CancelTime(r) >= staged[r].staged_at
        /\ grants[q] # None /\ grants[q].consumed = None /\ grants[q].revoked = None =>
              RevokeTime(q, r) >= grants[q].issued

CancelledNodes(N, R) ==
    LET dead == {plans[r].node : r \in R}
    IN  [m \in Node |->
            CASE m \in dead -> [N[m] EXCEPT !.state = "Cancelled", !.failure = None]
              [] /\ m \notin dead
                 /\ N[m].state = "Pending"
                 /\ \E n \in dead : m \in Downstream(n)
                 -> [N[m] EXCEPT !.state = "Blocked"]
              [] OTHER -> N[m]]

CancelledRuns(C, R) ==
    [r \in RunId |-> IF r \in R THEN [C[r] EXCEPT !.state = "Cancelled", !.finished = TRUE]
                                ELSE C[r]]

CancelledStaged(R) ==
    [r \in RunId |-> IF r \in R
                     THEN [staged[r] EXCEPT !.state = "cancelled", !.finished_at = CancelTime(r)]
                     ELSE staged[r]]

\* Mutant: the grant of a cancelled launch stays usable.
RevokedGrants_None(R) == grants

RevokedGrants(R) ==
    [q \in Request |->
        IF /\ grants[q] # None /\ grants[q].consumed = None /\ grants[q].revoked = None
           /\ \E r \in R : staged[r].request = q
        THEN [grants[q] EXCEPT !.revoked =
                RevokeTime(q, CHOOSE r \in R : staged[r].request = q)]
        ELSE grants[q]]

\* What cancel_for_request demands before it writes: each launch tells one
\* story, the whole M3 state validates, and no CHECK constraint is broken.
Can_cancel(R) ==
    /\ \A r \in R : validate_staged_context(r) /\ CancelChecks(r)
    /\ R # {} => coherent

\* cancel_for_request, as the change of the tables it writes.
cancel_for_request(R) ==
    /\ Can_cancel(R)
    /\ nodes' = CancelledNodes(nodes, R)
    /\ runs' = CancelledRuns(runs, R)
    /\ unfinished' = unfinished \ R
    /\ staged' = CancelledStaged(R)

\* Mutant: an approved launch is not swept.
Expired_Undecided ==
    {r \in RunId :
        /\ staged[r] # None
        /\ requests[staged[r].request].expires <= clock
        /\ staged[r].state = "awaiting_approval"
        /\ requests[staged[r].request].decision = None}

\* expire: what a sweep at the current time cancels.
Expired ==
    {r \in RunId :
        /\ staged[r] # None
        /\ LET q == staged[r].request
           IN  /\ requests[q].expires <= clock
               /\ \/ staged[r].state = "awaiting_approval" /\ requests[q].decision = None
                  \/ staged[r].state = "ready" /\ requests[q].decision # None}

-----------------------------------------------------------------------------
(* Beginning runs.                                                         *)

NewAttempt(n, owner, r) ==
    /\ runs[r].state = "Absent"
    /\ attempts' = [attempts EXCEPT ![n] = Append(@, r)]
    /\ unfinished' = unfinished \cup {r}
    /\ plans' = [plans EXCEPT ![r] = [node |-> n, owner |-> owner]]
    /\ current' = current \cup {r}

\* begin_graph_node_run_inner without an account, or through the manual route:
\* the run starts at once.  The manual route does not look at the lifecycle.
BeginDirect(n, owner, r) ==
    /\ Serving
    /\ NewAttempt(n, owner, r)
    /\ Can_claim_node(nodes, n)
    /\ nodes' = bind_run(claim_node(nodes, n, owner), n, r)
    /\ runs' = [runs EXCEPT ![r] = [state |-> "Starting", started |-> TRUE, finished |-> FALSE]]
    /\ UNCHANGED <<staged, requests, grants, claims, coherent, lifecycle, broker, clock, bounds>>

\* begin_graph_node_run_inner with a selected account, and stage.
BeginStaged(n, owner, r, q) ==
    /\ lifecycle = "ready"
    /\ clock + TTL <= MaxClock    \* bound: the expiry is within the explored time
    /\ NewAttempt(n, owner, r)
    /\ Can_stage_node(nodes, <<>>, n, r)
    /\ requests[q] = None
    /\ nodes' = stage_node(nodes, n, owner, r)
    /\ runs' = [runs EXCEPT ![r] =
                 [state |-> "AwaitingApproval", started |-> FALSE, finished |-> FALSE]]
    /\ requests' = [requests EXCEPT ![q] =
                     [run |-> r, created |-> clock, expires |-> clock + TTL,
                      decision |-> None, decided_at |-> None]]
    /\ staged' = [staged EXCEPT ![r] =
                   [request |-> q, state |-> "awaiting_approval",
                    staged_at |-> clock, finished_at |-> None]]
    /\ UNCHANGED <<grants, claims, coherent, lifecycle, broker, clock, bounds>>

-----------------------------------------------------------------------------
(* Approvals and grants.                                                   *)

\* create_approval with a credential binding: a client asks for the use of a
\* credential by a run that was not staged.
CreateApproval(q, r) ==
    /\ Serving
    /\ clock + TTL <= MaxClock
    /\ requests[q] = None
    /\ runs[r].state # "Absent"
    /\ validate_current_catalog(q, r)
    /\ requests' = [requests EXCEPT ![q] =
                     [run |-> r, created |-> clock, expires |-> clock + TTL,
                      decision |-> None, decided_at |-> None]]
    /\ UNCHANGED <<nodes, attempts, unfinished, runs, plans, staged, grants, claims,
                   current, coherent, lifecycle, broker, clock, bounds>>

\* The request belongs to the staging ledger.
IsStagedRequest(q) ==
    LET r == requests[q].run
    IN  staged[r] # None /\ staged[r].request = q

Decidable(q) ==
    /\ Serving
    /\ requests[q] # None
    /\ requests[q].decision = None
    /\ validate_time(q)

\* decide_approval with Approve: the grant is issued with the decision and a
\* staged launch becomes ready, if the live catalog still agrees.
Approve(q) ==
    /\ Decidable(q)
    /\ LET r == requests[q].run
       IN  /\ validate_current_catalog(q, r)
           /\ IF IsStagedRequest(q)
              THEN /\ staged[r].state = "awaiting_approval"
                   /\ validate_staged_context(r)
                   /\ staged' = [staged EXCEPT ![r].state = "ready"]
              ELSE UNCHANGED staged
    /\ requests' = [requests EXCEPT ![q].decision = "Approve", ![q].decided_at = clock]
    /\ grants' = [grants EXCEPT ![q] = [issued |-> clock, consumed |-> None, revoked |-> None]]
    /\ UNCHANGED <<nodes, attempts, unfinished, runs, plans, claims, current, coherent, lifecycle,
                   broker, clock, bounds>>

\* decide_approval with Deny.
Deny(q) ==
    /\ Decidable(q)
    /\ LET r == requests[q].run
       IN  IF IsStagedRequest(q)
           THEN staged[r].state = "awaiting_approval" /\ cancel_for_request({r})
           ELSE UNCHANGED <<nodes, runs, unfinished, staged>>
    /\ requests' = [requests EXCEPT ![q].decision = "Deny", ![q].decided_at = clock]
    /\ UNCHANGED <<attempts, plans, grants, claims, current, coherent, lifecycle, broker, clock, bounds>>

Unspent(q) == grants[q] # None /\ grants[q].consumed = None /\ grants[q].revoked = None

\* revoke_credential_grant
RevokeGrant(q) ==
    /\ Serving
    /\ Unspent(q)
    /\ validate_time(q)
    /\ clock >= grants[q].issued
    /\ grants' = [grants EXCEPT ![q].revoked = clock]
    /\ LET r == requests[q].run
       IN  IF IsStagedRequest(q) /\ staged[r].state # "cancelled"
           THEN cancel_for_request({r})
           ELSE UNCHANGED <<nodes, runs, unfinished, staged>>
    /\ UNCHANGED <<attempts, plans, requests, claims, current, coherent, lifecycle, broker, clock, bounds>>

\* consume_credential_grant: the path for launches that were not staged.
ConsumeGrant(q) ==
    /\ Unspent(q)
    /\ ~IsStagedRequest(q)
    /\ validate_time(q)
    /\ clock >= grants[q].issued
    /\ lifecycle = "ready"
    /\ validate_current_catalog(q, requests[q].run)
    /\ grants' = [grants EXCEPT ![q].consumed = clock]
    /\ UNCHANGED <<nodes, attempts, unfinished, runs, plans, staged, requests, claims,
                   current, coherent, lifecycle, broker, clock, bounds>>

-----------------------------------------------------------------------------
(* Ending a launch before it is dispatched.                                *)

\* cancel_staged_run: the cancel route, for an undispatched launch.
CancelStagedRun(r) ==
    /\ Serving
    /\ Undispatched(r)
    /\ cancel_for_request({r})
    /\ grants' = RevokedGrants({r})
    /\ UNCHANGED <<attempts, plans, requests, claims, current, coherent, lifecycle, broker, clock, bounds>>

\* expire_staged_launches: the sweep of the daemon's timer and of approval reads.
ExpireSweep ==
    /\ Serving
    /\ Expired # {}
    /\ cancel_for_request(Expired)
    /\ grants' = RevokedGrants(Expired)
    /\ UNCHANGED <<attempts, plans, requests, claims, current, coherent, lifecycle, broker, clock, bounds>>

-----------------------------------------------------------------------------
(* The broker.                                                             *)

\* claim_staged_dispatch: consume the grant, record the claim and start the run
\* in one transaction, before the secret is read.
ClaimDispatch(r) ==
    LET q == staged[r].request
    IN  /\ lifecycle = "ready"
        /\ staged[r] # None
        /\ Unspent(q)
        /\ validate_time(q)
        /\ grants[q].issued <= clock
        /\ staged[r].state = "ready"
        /\ validate_staged_run(r)
        /\ validate_current_catalog(q, r)
        /\ r \notin claims
        /\ nodes' = activate_staged_node(nodes, plans[r].node)
        /\ runs' = [runs EXCEPT ![r].state = "Starting", ![r].started = TRUE]
        /\ grants' = [grants EXCEPT ![q].consumed = clock]
        /\ staged' = [staged EXCEPT ![r].state = "dispatching"]
        /\ claims' = claims \cup {r}
        /\ broker' = [broker EXCEPT ![r] = "reading"]
        /\ UNCHANGED <<attempts, unfinished, plans, requests, current, coherent, lifecycle, clock, bounds>>

\* The credential reader succeeds: a PreparedLaunch is handed out.
ReadCredential(r) ==
    /\ broker[r] = "reading"
    /\ broker' = [broker EXCEPT ![r] = "prepared"]
    /\ UNCHANGED <<ledgers, current, coherent, lifecycle, clock, bounds>>

\* Mutant: only the staging ledger is looked at.
Can_fail_dispatch_claim_Ledger(r) == staged[r].state = "dispatching"

Can_fail_dispatch_claim(r) ==
    /\ runs[r].state = "Starting"
    /\ nodes[plans[r].node].run_id = r
    /\ IsRunningFor(nodes, plans[r].node, plans[r].owner)
    /\ staged[r].state = "dispatching"

\* The reader fails and fail_dispatch_claim records the attempt as Uncertain,
\* or finds that somebody else ended the run and reports it (Recovery).
FailDispatchClaim(r) ==
    /\ broker[r] = "reading"
    /\ broker' = [broker EXCEPT ![r] = "idle"]
    /\ IF Can_fail_dispatch_claim(r)
       THEN /\ nodes' = finish_terminal(nodes, plans[r].node, plans[r].owner, "Uncertain", None)
            /\ runs' = [runs EXCEPT ![r].state = "Uncertain"]
            /\ staged' = [staged EXCEPT ![r].state = "uncertain"]
       ELSE UNCHANGED <<nodes, runs, staged>>
    /\ UNCHANGED <<attempts, unfinished, plans, requests, grants, claims, current, coherent,
                   lifecycle, clock, bounds>>

-----------------------------------------------------------------------------
(* The rest of the run's life, and the daemon's.                           *)

\* finish_graph_node_run, which validates the whole M3 state with the outcome.
FinishRun(r, state) ==
    /\ Serving
    /\ coherent
    /\ runs[r].state \in LiveRunState
    /\ LET n == plans[r].node
       IN  /\ nodes[n].run_id = r
           /\ attempts[n][Len(attempts[n])] = r
           /\ IsRunningFor(nodes, n, plans[r].owner)
           /\ nodes' = finish_terminal(nodes, n, plans[r].owner, state, None)
    /\ runs' = [runs EXCEPT ![r].state = state, ![r].finished = TRUE]
    /\ unfinished' = unfinished \ {r}
    /\ UNCHANGED <<attempts, plans, staged, requests, grants, claims, current, coherent, lifecycle,
                   broker, clock, bounds>>

\* retry_failed_graph_node
RetryFailed(n) ==
    /\ Serving
    /\ nodes[n].state = "Failed"
    /\ nodes' = retry_failed(nodes, n)
    /\ UNCHANGED <<attempts, unfinished, runs, plans, staged, requests, grants, claims,
                   current, coherent, lifecycle, broker, clock, bounds>>

\* replace_catalog or replace_m3_catalog changes what a saved plan resolves to.
\* Neither may touch an existing run; the first leaves the M3 state valid.
EditCatalog(r) ==
    /\ Serving
    /\ runs[r].state # "Absent"
    /\ current' = IF r \in current THEN current \ {r} ELSE current \cup {r}
    /\ coherent' \in BOOLEAN
    /\ UNCHANGED <<ledgers, lifecycle, broker, clock, bounds>>

\* A client's replace_m3_catalog, which checks the new m3 catalog without the
\* executions, or its create_graph_execution, which checks the execution
\* alone, breaks the validity of the M3 state or mends it.
EditM3State ==
    /\ Serving
    /\ coherent' = ~coherent
    /\ UNCHANGED <<ledgers, current, lifecycle, broker, clock, bounds>>

\* mark_ready: a sweep, then Ready.
MarkReady ==
    /\ lifecycle \in {"starting", "recovering"}
    /\ lifecycle' = "ready"
    /\ cancel_for_request(Expired)
    /\ grants' = RevokedGrants(Expired)
    /\ UNCHANGED <<attempts, plans, requests, claims, current, coherent, broker, clock, bounds>>

Suspend ==
    /\ lifecycle = "ready"
    /\ lifecycle' = "suspended"
    /\ UNCHANGED <<ledgers, current, coherent, broker, clock, bounds>>

Resume ==
    /\ lifecycle = "suspended"
    /\ lifecycle' = "ready"
    /\ UNCHANGED <<ledgers, current, coherent, broker, clock, bounds>>

\* persist_checkpoint refuses to stop while a provider may be working.
ProviderActive ==
    \E r \in RunId : \/ runs[r].state \in {"Running", "Cancelling"}
                     \/ runs[r].state \in {"Starting", "AwaitingApproval"} /\ runs[r].started

Shutdown ==
    /\ lifecycle \in {"ready", "suspended"}
    /\ ~ProviderActive
    /\ lifecycle' = "stopping"
    /\ UNCHANGED <<ledgers, current, coherent, broker, clock, bounds>>

\* A run the restarted daemon can know nothing about.
Interrupted(r) == runs[r].state \in LiveRunState /\ runs[r].started

\* What Store::open demands of the database: every waiting launch validates,
\* and the sweep at the end of the recovery can cancel the expired ones.
Can_recover ==
    /\ \A r \in RunId : runs[r].state = "AwaitingApproval" => validate_staged_run(r)
    /\ \A r \in Expired : CancelChecks(r)
    /\ Expired # {} => coherent

\* The process dies, or exits, and Store::open recovers the database in one
\* transaction.
Reopen ==
    /\ restarts < MaxRestarts
    /\ restarts' = restarts + 1
    /\ broker' = [r \in RunId |-> "idle"]
    /\ lifecycle' = "recovering"
    /\ Can_recover
    /\ nodes' = CancelledNodes(reconcile_after_restart(nodes), Expired)
    /\ runs' = CancelledRuns([r \in RunId |-> IF Interrupted(r)
                                              THEN [runs[r] EXCEPT !.state = "Uncertain"]
                                              ELSE runs[r]], Expired)
    /\ staged' = [r \in RunId |->
                    IF staged[r] # None /\ staged[r].state = "dispatching"
                    THEN [staged[r] EXCEPT !.state = "uncertain"]
                    ELSE CancelledStaged(Expired)[r]]
    /\ unfinished' = unfinished \ Expired
    /\ grants' = RevokedGrants(Expired)
    /\ UNCHANGED <<attempts, plans, requests, claims, current, coherent, clock, rollbacks>>

Tick ==
    /\ clock < MaxClock
    /\ clock' = clock + 1
    /\ UNCHANGED <<ledgers, current, coherent, lifecycle, broker, bounds>>

\* The operator or a time service sets the wall clock back.
SetClockBack(t) ==
    /\ rollbacks < MaxRollbacks
    /\ t < clock
    /\ rollbacks' = rollbacks + 1
    /\ clock' = t
    /\ UNCHANGED <<ledgers, current, coherent, lifecycle, broker, restarts>>

Next ==
    \/ \E n \in Node, o \in Owner, r \in RunId :
        \/ BeginDirect(n, o, r)
        \/ \E q \in Request : BeginStaged(n, o, r, q)
    \/ \E q \in Request :
        \/ \E r \in RunId : CreateApproval(q, r)
        \/ Approve(q)
        \/ Deny(q)
        \/ RevokeGrant(q)
        \/ ConsumeGrant(q)
    \/ \E r \in RunId :
        \/ CancelStagedRun(r)
        \/ ClaimDispatch(r)
        \/ ReadCredential(r)
        \/ FailDispatchClaim(r)
        \/ \E s \in TerminalState : FinishRun(r, s)
        \/ EditCatalog(r)
    \/ \E n \in Node : RetryFailed(n)
    \/ EditM3State
    \/ ExpireSweep
    \/ MarkReady
    \/ Suspend
    \/ Resume
    \/ Shutdown
    \/ Reopen
    \/ Tick
    \/ \E t \in 0..MaxClock : SetClockBack(t)

Spec == Init /\ [][Next]_vars

\* The daemon's one-second timer keeps sweeping until the daemon stops, a
\* started daemon becomes ready, and time passes.  Nothing is assumed of users,
\* broker or restarts.
Fairness == /\ WF_vars(lifecycle # "stopping" /\ ExpireSweep)
            /\ WF_vars(MarkReady)
            /\ WF_vars(Tick)

FairSpec == Spec /\ Fairness

-----------------------------------------------------------------------------
(* Properties.                                                             *)

TypeOK ==
    /\ nodes \in [Node -> GraphNodeExecution]
    /\ attempts \in [Node -> Seq(RunId)]
    /\ unfinished \subseteq RunId /\ claims \subseteq RunId /\ current \subseteq RunId
    /\ runs \in [RunId -> Run]
    /\ plans \in [RunId -> Plan \cup {None}]
    /\ staged \in [RunId -> Staged \cup {None}]
    /\ requests \in [Request -> RequestRow \cup {None}]
    /\ grants \in [Request -> Grant \cup {None}]
    /\ lifecycle \in {"starting", "recovering", "ready", "suspended", "stopping"}
    /\ broker \in [RunId -> {"idle", "reading", "prepared"}]
    /\ coherent \in BOOLEAN
    /\ clock \in 0..MaxClock /\ restarts \in 0..MaxRestarts /\ rollbacks \in 0..MaxRollbacks

\* Store::open never refuses the database because of the launches in it: in
\* every state a crash can leave, each waiting launch passes
\* validate_staged_run, the proof that recovery demands of it, and what has
\* expired can be cancelled.  What keeps the daemon from opening is exactly an
\* M3 state that a client made invalid together with an expired launch.
RecoveryNeverRefused == Can_recover <=> (coherent \/ Expired = {})

\* An undispatched launch can be discarded exactly while the M3 state
\* validates, also after the clock was set back or the catalog no longer
\* agrees with it: cancel_for_request passes its own validation and every
\* CHECK constraint, the guards of CancelStagedRun that are not the caller's.
CancelAlwaysPossible ==
    \A r \in RunId : Undispatched(r) => (Can_cancel({r}) <=> coherent)

\* Nothing the Store's own operations leave behind locks the daemon out: it
\* can be opened again, and every launch that waits can be got rid of, unless
\* a client has made the M3 state one that M3State::validate refuses.
NeverLockedOut == RecoveryNeverRefused /\ CancelAlwaysPossible

\* The ledgers agree about a launch: it is undispatched exactly while its run
\* awaits approval and is unclaimed; a cancelled one never started, is closed
\* in every table and left no usable grant behind.
RowsAgree ==
    \A r \in RunId :
        /\ Undispatched(r) <=> runs[r].state = "AwaitingApproval"
        /\ Undispatched(r) => r \notin claims
        /\ staged[r] # None /\ staged[r].state = "cancelled" =>
              /\ runs[r] = [state |-> "Cancelled", started |-> FALSE, finished |-> TRUE]
              /\ r \notin unfinished \cup claims
              /\ ~Unspent(staged[r].request)

\* A secret is read only for a launch whose own request a user approved, with
\* its grant spent, in the validity interval, before the read, and the run and
\* the claim recorded.
SecretOnlyAfterConsent ==
    \A r \in RunId : broker[r] # "idle" =>
        LET q == staged[r].request
        IN  /\ requests[q].run = r /\ requests[q].decision = "Approve"
            /\ grants[q].consumed \in grants[q].issued..(requests[q].expires - 1)
            /\ r \in claims /\ runs[r].started

\* Every claim spent a grant of its own: no two claims, and no claim and a
\* consumption outside the broker, share one.
ClaimsSpendGrants ==
    /\ \A r \in claims : grants[staged[r].request].consumed # None
    /\ \A r, s \in claims : staged[r].request = staged[s].request => r = s
    /\ \A r \in RunId : staged[r] # None /\ grants[staged[r].request] # None =>
          (grants[staged[r].request].consumed # None <=> r \in claims)

\* The CHECK constraints of the grant and staging tables hold whatever the
\* clock does, so that no transaction is ever aborted by one.
TableChecksHold ==
    /\ \A q \in Request : grants[q] # None =>
          /\ grants[q].consumed # None => grants[q].consumed >= grants[q].issued
          /\ grants[q].revoked # None => grants[q].revoked >= grants[q].issued
          /\ grants[q].consumed = None \/ grants[q].revoked = None
    /\ \A r \in RunId : staged[r] # None =>
          /\ (staged[r].state = "cancelled") <=> (staged[r].finished_at # None)
          /\ staged[r].finished_at # None => staged[r].finished_at >= staged[r].staged_at

\* A consent is spent once, in time and before the secret is read.
ConsentIsSpentOnce == SecretOnlyAfterConsent /\ ClaimsSpendGrants

\* The seven tables about a launch agree with each other and with their own
\* constraints after any interleaving of users, sweeps, broker and crashes.
LedgersAgree == TypeOK /\ RowsAgree /\ TableChecksHold

\* What is settled stays settled: a terminal run, a decision, a spent grant
\* and a claim survive every later operation, restarts included.
SettledStaysSettled ==
    [][/\ \A r \in RunId : runs[r].state \in TerminalState => runs'[r] = runs[r]
       /\ \A q \in Request : requests[q] # None /\ requests[q].decision # None =>
            requests'[q] = requests[q]
       /\ \A q \in Request : grants[q] # None /\ ~Unspent(q) => grants'[q] = grants[q]
       /\ claims \subseteq claims']_vars

\* Whatever the user does or fails to do, a staged launch does not wait for
\* ever: it is cancelled or dispatched, unless the daemon itself is stopped or
\* clients never leave the M3 state valid, without which the timer's sweep
\* only logs its failure.
LaunchResolves ==
    <>[]coherent =>
        \A r \in RunId : Undispatched(r) ~> ~Undispatched(r) \/ lifecycle = "stopping"
=============================================================================
