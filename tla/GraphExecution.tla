--------------------------- MODULE GraphExecution ---------------------------
(***************************************************************************)
(* One stored graph execution and the operations the daemon applies to it  *)
(* (crates/bastet-core/src/graph.rs, driven by the Store of                *)
(* crates/bastet-daemon/src/lib.rs).  Every operation is one SQLite        *)
(* IMMEDIATE transaction, hence one action: it loads the execution,        *)
(* compares the revision, applies the graph operation, validates and       *)
(* writes everything back, or writes nothing.                              *)
(*                                                                         *)
(* attempts[n] is the graph_node_runs table: the runs ever begun or staged *)
(* for n, oldest first.  outputs is the execution's list of node outputs.  *)
(***************************************************************************)
EXTENDS WorkflowGraph, Sequences

CONSTANT MaxRevision   \* bound: the graph revision at which exploration stops

ASSUME MaxRevisionAssumption == MaxRevision \in Nat

VARIABLES
    nodes,      \* GraphExecution.nodes
    outputs,    \* GraphExecution.outputs
    attempts,   \* graph_node_runs
    revision    \* GraphExecution.revision, the compare-and-swap token

vars == <<nodes, outputs, attempts, revision>>

Output == [node : Node, run_id : RunId]

UsedRuns == {r \in RunId : \E n \in Node : \E i \in DOMAIN attempts[n] : attempts[n][i] = r}

\* GraphExecution::start.  POST /v1/graphs also takes an execution in the
\* middle of its work, each node of which is valid by itself; the properties
\* below are about the others, which all of the desktop's are.
Init ==
    /\ nodes = StartNodes
    /\ outputs = <<>>
    /\ attempts = [n \in Node |-> <<>>]
    /\ revision = 0

-----------------------------------------------------------------------------
Bump == revision < MaxRevision /\ revision' = revision + 1

\* POST .../claim: hand up to "limit" ready nodes to a scheduler, runless.
ClaimReady(owner, limit) ==
    /\ Bump
    /\ \E C \in ClaimSets(nodes, limit) :
        /\ C # {}
        /\ nodes' = claim_ready(nodes, C, owner)
    /\ UNCHANGED <<outputs, attempts>>

\* Mutant: the attempt is not entered into graph_node_runs.
BeginRun_NoAttempt(n, owner, run) ==
    /\ Bump
    /\ run \notin UsedRuns
    /\ Can_claim_node(nodes, n)
    /\ LET claimed == claim_node(nodes, n, owner)
       IN  /\ Can_bind_run(claimed, n, owner)
           /\ nodes' = bind_run(claimed, n, run)
    /\ UNCHANGED <<outputs, attempts>>

\* The account-less path of begin_graph_node_run_inner: claim and bind at once.
BeginRun(n, owner, run) ==
    /\ Bump
    /\ run \notin UsedRuns
    /\ Can_claim_node(nodes, n)
    /\ LET claimed == claim_node(nodes, n, owner)
       IN  /\ Can_bind_run(claimed, n, owner)
           /\ nodes' = bind_run(claimed, n, run)
    /\ attempts' = [attempts EXCEPT ![n] = Append(@, run)]
    /\ UNCHANGED outputs

\* The account-selected path of begin_graph_node_run_inner: stage for approval.
StageRun(n, owner, run) ==
    /\ Bump
    /\ run \notin UsedRuns
    /\ Can_stage_node(nodes, outputs, n, run)
    /\ nodes' = stage_node(nodes, n, owner, run)
    /\ attempts' = [attempts EXCEPT ![n] = Append(@, run)]
    /\ UNCHANGED outputs

\* claim_staged_dispatch
ActivateStaged(n, owner, run) ==
    /\ Bump
    /\ IsStagedAs(nodes, n, owner, run)
    /\ nodes' = activate_staged_node(nodes, n)
    /\ UNCHANGED <<outputs, attempts>>

\* cancel_for_request: denial, expiry, revocation or an explicit cancel.
CancelStaged(n, owner, run) ==
    /\ Bump
    /\ IsStagedAs(nodes, n, owner, run)
    /\ nodes' = cancel_staged_node(nodes, n)
    /\ UNCHANGED <<outputs, attempts>>

\* POST .../complete: a scheduler closes a node it claimed.
Complete(n, owner, succeeded) ==
    /\ Bump
    /\ IsRunningFor(nodes, n, owner)
    /\ nodes' = complete(nodes, n, succeeded)
    /\ UNCHANGED <<outputs, attempts>>

\* finish_graph_node_run: the node's current, latest attempt ends.  A success
\* has an output and no failure; only successes and failures keep an output.
FinishRun(n, owner, state, failure, withOutput) ==
    /\ Bump
    /\ attempts[n] # <<>>
    /\ nodes[n].run_id = attempts[n][Len(attempts[n])]
    /\ state = "Succeeded" => withOutput /\ failure = None
    /\ IsRunningFor(nodes, n, owner)
    /\ nodes' = finish_terminal(nodes, n, owner, state, failure)
    /\ IF withOutput
       THEN /\ Can_record_output(nodes', outputs, n, nodes[n].run_id)
            /\ outputs' = Append(outputs, [node |-> n, run_id |-> nodes[n].run_id])
       ELSE UNCHANGED outputs
    /\ UNCHANGED attempts

RetryFailed(n) ==
    /\ Bump
    /\ nodes[n].state = "Failed"
    /\ nodes' = retry_failed(nodes, n)
    /\ UNCHANGED <<outputs, attempts>>

\* Store::open after a crash.
Restart ==
    /\ Bump
    /\ \E n \in Node : nodes[n].state = "Running"
    /\ nodes' = reconcile_after_restart(nodes)
    /\ UNCHANGED <<outputs, attempts>>

Next ==
    \/ \E o \in Owner, limit \in 1..Cardinality(Node) : ClaimReady(o, limit)
    \/ \E n \in Node, o \in Owner :
        \/ \E r \in RunId :
            \/ BeginRun(n, o, r)
            \/ StageRun(n, o, r)
            \/ ActivateStaged(n, o, r)
            \/ CancelStaged(n, o, r)
        \/ \E b \in BOOLEAN : Complete(n, o, b)
        \/ \E s \in TerminalState, f \in Failure \cup {None}, b \in BOOLEAN :
            FinishRun(n, o, s, f, b)
    \/ \E n \in Node : RetryFailed(n)
    \/ Restart

Spec == Init /\ [][Next]_vars

-----------------------------------------------------------------------------
(* Properties.                                                             *)

TypeOK ==
    /\ nodes \in [Node -> GraphNodeExecution]
    /\ outputs \in Seq(Output)
    /\ attempts \in [Node -> Seq(RunId)]
    /\ revision \in Nat

\* Every stored execution passes GraphExecution::validate, which each later
\* operation runs before it does anything: were an operation to leave a node
\* with a wrong owner, or two outputs of one run, the execution could never
\* be touched again.
ExecutionValid ==
    /\ \A n \in Node : execution_state_is_valid(nodes[n])
    /\ \A i, j \in DOMAIN outputs : outputs[i].run_id = outputs[j].run_id => i = j

\* Work never starts before its inputs exist: a node that is staged, runs or
\* ran has only Succeeded dependencies, also after retries, cancellations and
\* restarts in any order.
StartedAfterDependencies ==
    \A n \in Node :
        nodes[n].state \in {"AwaitingApproval", "Running", "Succeeded",
                            "Failed", "Cancelled", "Uncertain"}
        => dependencies_succeeded(nodes, n)

\* block_dependents and retry_failed together never leave a Pending node that
\* waits for a dependency that failed, was cancelled or is blocked.
NoPendingOnDeadDependency ==
    \A n \in Node : nodes[n].state = "Pending" =>
        \A d \in needs[n] : nodes[d].state \notin DeadState

\* The converse: a node stays Blocked only with a cause, a dead dependency or
\* its own run that ended Blocked.  A retry that forgot to reopen a node would
\* strand it, since nothing else leaves Blocked.
BlockedHasCause ==
    \A n \in Node : nodes[n].state = "Blocked" =>
        \/ \E d \in needs[n] : nodes[d].state \in DeadState
        \/ nodes[n].run_id # None

\* The run a node shows is its latest attempt, no run serves two nodes or two
\* attempts, and every output belongs to an attempt of its node.
RunIdentity ==
    /\ \A n \in Node : nodes[n].run_id # None =>
        attempts[n] # <<>> /\ nodes[n].run_id = attempts[n][Len(attempts[n])]
    /\ \A m, n \in Node : \A i \in DOMAIN attempts[m], j \in DOMAIN attempts[n] :
        attempts[m][i] = attempts[n][j] => m = n /\ i = j
    /\ \A i \in DOMAIN outputs :
        \E j \in DOMAIN attempts[outputs[i].node] :
            attempts[outputs[i].node][j] = outputs[i].run_id

\* Success, cancellation and an unknown outcome are final for a node; a failed
\* node only goes back to Pending, by retry_failed.
OutcomesAreFinal ==
    [][\A n \in Node :
        /\ nodes[n].state \in {"Succeeded", "Cancelled", "Uncertain"} =>
             nodes'[n] = nodes[n]
        /\ nodes[n].state = "Failed" =>
             nodes'[n] = nodes[n] \/ nodes'[n] = PendingExecution]_vars

\* A staged node keeps the owner and run the approval was asked for until it
\* is activated or cancelled, under the same identity (the comment of
\* activate_staged_node); a restart does not disturb it.
StagedIdentityKept ==
    [][\A n \in Node : nodes[n].state = "AwaitingApproval" =>
        /\ nodes'[n].state \in {"AwaitingApproval", "Running", "Cancelled"}
        /\ nodes'[n].owner = nodes[n].owner
        /\ nodes'[n].run_id = nodes[n].run_id]_vars

\* Outputs are history: no operation drops or rewrites one, and any change of
\* the execution moves the revision that guards against lost updates.
HistoryIsKept ==
    [][/\ Len(outputs) <= Len(outputs')
       /\ \A i \in DOMAIN outputs : outputs'[i] = outputs[i]
       /\ <<nodes, outputs>>' # <<nodes, outputs>> => revision' > revision]_vars

\* The stored execution is sound after every operation: it validates, and the
\* runs, attempts and outputs it names belong together.
ExecutionSound == ExecutionValid /\ RunIdentity

\* What is settled is kept by every operation, in any order of retries,
\* cancellations and restarts: outcomes, the identity an approval was asked
\* for, and the outputs under the revision that guards them.
SettledIsKept == OutcomesAreFinal /\ StagedIdentityKept /\ HistoryIsKept

\* The doc comment of retry_failed: "Reopens exactly one failed node ...
\* Blocked descendants are reopened only when ...".  Read as: apart from the
\* retried node itself, a retry touches only its descendants.
RetryTouchesOnlyDescendants ==
    [][\A n \in Node : RetryFailed(n) =>
        \A m \in Node \ Downstream(n) : nodes'[m] = nodes[m]]_vars
=============================================================================
