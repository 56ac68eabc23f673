--------------------------- MODULE WorkflowGraph ---------------------------
(***************************************************************************)
(* The task graph of crates/bastet-core/src/graph.rs: the definition of a  *)
(* workflow (WorkflowGraph) and the operations of its execution record     *)
(* (GraphExecution), as operators on the function "nodes" that gives every *)
(* node its GraphNodeExecution.  An operation that returns Err is an       *)
(* operator whose guard Can_... is FALSE; the caller then writes nothing.  *)
(*                                                                         *)
(* The per-node revision counter is left out: no code reads it.  Titles,   *)
(* prompts and the text of an output are left out; an output is the pair   *)
(* (node, run) it is keyed by.                                             *)
(***************************************************************************)
EXTENDS Naturals, FiniteSets

CONSTANTS
    Node,      \* GraphNodeId of the nodes of the one graph being executed
    kind,      \* GraphNodeKind of each node
    needs,     \* the dependencies of each node
    Owner,     \* scheduler identities (a blank owner is rejected everywhere)
    RunId,     \* run identities
    Failure,   \* the sanitized AdapterFailure values
    None       \* Option::None

NodeKind == {"Research", "Join", "Document"}

\* No cycle: every non-empty set of nodes has one that needs nothing in it.
\* The source decides it by a depth-first visit.
Acyclic == \A S \in SUBSET Node : S # {} => \E n \in S : needs[n] \cap S = {}

ResearchNodes == {n \in Node : kind[n] = "Research"}
JoinNodes == {n \in Node : kind[n] = "Join"}

validate_research_join ==
    /\ Cardinality(ResearchNodes) = 2
    /\ Cardinality(JoinNodes) = 1
    /\ \A j \in JoinNodes : needs[j] = ResearchNodes
    /\ \A r \in ResearchNodes : needs[r] = {}

\* WorkflowGraph::validate: the dependencies are known nodes, never the node
\* itself, without a cycle, around the two-branch research join.
GraphIsValid ==
    /\ kind \in [Node -> NodeKind]
    /\ needs \in [Node -> SUBSET Node]
    /\ \A n \in Node : n \notin needs[n]
    /\ Acyclic
    /\ validate_research_join

ASSUME GraphAssumption == GraphIsValid
ASSUME NoneAssumption == None \notin Owner \cup RunId \cup Failure

-----------------------------------------------------------------------------
(* Node executions.                                                        *)

GraphNodeState == {"Pending", "AwaitingApproval", "Running", "Succeeded",
                   "Failed", "Cancelled", "Blocked", "Uncertain"}

\* The states finish_terminal accepts.
TerminalState == {"Succeeded", "Failed", "Cancelled", "Blocked", "Uncertain"}

\* The states of a dependency that make its dependents impossible.
DeadState == {"Failed", "Cancelled", "Blocked"}

GraphNodeExecution == [state   : GraphNodeState,
                       owner   : Owner \cup {None},
                       run_id  : RunId \cup {None},
                       failure : Failure \cup {None}]

PendingExecution == [state |-> "Pending", owner |-> None,
                     run_id |-> None, failure |-> None]

\* GraphExecution::start
StartNodes == [n \in Node |-> PendingExecution]

execution_state_is_valid(e) ==
    /\ e.state \in {"Pending", "Blocked", "Uncertain"} => e.owner = None
    /\ e.state = "AwaitingApproval" =>
         e.owner # None /\ e.run_id # None /\ e.failure = None
    /\ e.state \in {"Running", "Succeeded", "Failed", "Cancelled"} =>
         e.owner # None

-----------------------------------------------------------------------------
(* Dependencies.                                                           *)

dependencies_succeeded(nodes, n) ==
    \A d \in needs[n] : nodes[d].state = "Succeeded"

\* What block_dependents' growing set "blocked" ends up as: the least set
\* that holds n and every node that needs a member of it.
Downstream(n) ==
    {m \in Node :
        \A S \in SUBSET Node :
            (/\ n \in S
             /\ \A k \in Node : needs[k] \cap S # {} => k \in S) => m \in S}

\* Mutant: the walk stops after the direct dependents.
block_dependents_Direct(nodes, n) ==
    [m \in Node |->
        IF n \in needs[m] /\ nodes[m].state = "Pending"
        THEN [nodes[m] EXCEPT !.state = "Blocked"]
        ELSE nodes[m]]

\* Every Pending node downstream of n becomes Blocked; others keep their state.
block_dependents(nodes, n) ==
    [m \in Node |->
        IF m \in Downstream(n) \ {n} /\ nodes[m].state = "Pending"
        THEN [nodes[m] EXCEPT !.state = "Blocked"]
        ELSE nodes[m]]

-----------------------------------------------------------------------------
(* Operations of GraphExecution.                                           *)

Can_claim_node(nodes, n) ==
    /\ nodes[n].state = "Pending"
    /\ dependencies_succeeded(nodes, n)

claim_node(nodes, n, owner) ==
    [nodes EXCEPT ![n].state = "Running",
                  ![n].owner = owner,
                  ![n].failure = None]

ReadyNodes(nodes) == {n \in Node : Can_claim_node(nodes, n)}

\* The first "limit" ready nodes in the order of the node list, which is
\* arbitrary: any set of that many ready nodes.
ClaimSets(nodes, limit) ==
    {C \in SUBSET ReadyNodes(nodes) :
        \/ Cardinality(C) = limit
        \/ C = ReadyNodes(nodes) /\ Cardinality(C) < limit}

claim_ready(nodes, C, owner) ==
    [n \in Node |->
        IF n \in C
        THEN [nodes[n] EXCEPT !.state = "Running", !.owner = owner,
                              !.failure = None]
        ELSE nodes[n]]

Can_bind_run(nodes, n, owner) ==
    /\ nodes[n].state = "Running"
    /\ nodes[n].owner = owner
    /\ nodes[n].run_id = None

bind_run(nodes, n, run) == [nodes EXCEPT ![n].run_id = run]

run_id_is_in_use(nodes, outputs, run) ==
    \/ \E n \in Node : nodes[n].run_id = run
    \/ \E i \in DOMAIN outputs : outputs[i].run_id = run

\* Mutant: a node is staged before its dependencies are done.
Can_stage_node_Early(nodes, outputs, n, run) ==
    /\ ~run_id_is_in_use(nodes, outputs, run)
    /\ nodes[n].state = "Pending"
    /\ nodes[n].owner = None
    /\ nodes[n].run_id = None

Can_stage_node(nodes, outputs, n, run) ==
    /\ ~run_id_is_in_use(nodes, outputs, run)
    /\ dependencies_succeeded(nodes, n)
    /\ nodes[n].state = "Pending"
    /\ nodes[n].owner = None
    /\ nodes[n].run_id = None

stage_node(nodes, n, owner, run) ==
    [nodes EXCEPT ![n] = [state |-> "AwaitingApproval", owner |-> owner,
                          run_id |-> run, failure |-> None]]

\* The exact owner and run that were staged must be presented again.
IsStagedAs(nodes, n, owner, run) ==
    /\ nodes[n].state = "AwaitingApproval"
    /\ nodes[n].owner = owner
    /\ nodes[n].run_id = run

activate_staged_node(nodes, n) ==
    [nodes EXCEPT ![n].state = "Running"]

cancel_staged_node(nodes, n) ==
    block_dependents([nodes EXCEPT ![n].state = "Cancelled",
                                   ![n].failure = None], n)

IsRunningFor(nodes, n, owner) ==
    nodes[n].state = "Running" /\ nodes[n].owner = owner

complete(nodes, n, succeeded) ==
    IF succeeded
    THEN [nodes EXCEPT ![n].state = "Succeeded", ![n].failure = None]
    ELSE block_dependents([nodes EXCEPT ![n].state = "Failed",
                                        ![n].failure = None], n)

\* An Uncertain node leaves its dependents Pending.
finish_terminal(nodes, n, owner, state, failure) ==
    LET finished ==
          [nodes EXCEPT
             ![n].state = state,
             ![n].owner = IF state \in {"Succeeded", "Failed", "Cancelled"}
                          THEN owner ELSE None,
             ![n].failure = failure]
    IN  IF state \in DeadState THEN block_dependents(finished, n) ELSE finished

Can_record_output(nodes, outputs, n, run) ==
    /\ \A i \in DOMAIN outputs : outputs[i].run_id # run
    /\ nodes[n].state \in {"Succeeded", "Failed"}
    /\ nodes[n].run_id \in {None, run}

\* The nodes the loop of retry_failed reopens: the least set that holds every
\* Blocked node none of whose dependencies is Failed, Cancelled, or Blocked
\* and not itself reopened.
Unblocked(nodes, S) ==
    {m \in Node :
        /\ nodes[m].state = "Blocked"
        /\ \A d \in needs[m] :
              \/ nodes[d].state \notin DeadState
              \/ nodes[d].state = "Blocked" /\ d \in S}

Reopened(nodes) ==
    {m \in Node :
        \A S \in SUBSET Node : Unblocked(nodes, S) \subseteq S => m \in S}

\* Mutant: the dependents stay Blocked.
retry_failed_Alone(nodes, n) == [nodes EXCEPT ![n] = PendingExecution]

retry_failed(nodes, n) ==
    LET reset == [nodes EXCEPT ![n] = PendingExecution]
    IN  [m \in Node |->
            IF m \in Reopened(reset) THEN PendingExecution ELSE reset[m]]

\* Mutant: staged work is taken for running work.
reconcile_after_restart_Staged(nodes) ==
    [n \in Node |->
        IF nodes[n].state \in {"Running", "AwaitingApproval"}
        THEN [state |-> "Uncertain", owner |-> None,
              run_id |-> None, failure |-> None]
        ELSE nodes[n]]

\* Work that was running when the daemon died has an unknown outcome;
\* staged work never started and is kept.
reconcile_after_restart(nodes) ==
    [n \in Node |->
        IF nodes[n].state = "Running"
        THEN [state |-> "Uncertain", owner |-> None,
              run_id |-> None, failure |-> None]
        ELSE nodes[n]]
=============================================================================
