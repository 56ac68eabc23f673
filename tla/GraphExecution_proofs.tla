----------------------- MODULE GraphExecution_proofs -----------------------
(***************************************************************************)
(* Proofs about GraphExecution for every valid graph, every set of owners, *)
(* runs and failures, and every bound on the revision.                     *)
(***************************************************************************)
EXTENDS GraphExecution, SequenceTheorems, TLAPS

(* The node function's part of the invariant, as a predicate of a function *)
(* so that the lemmas can speak of intermediate values.                    *)

Started == {"AwaitingApproval", "Running", "Succeeded", "Failed", "Cancelled",
            "Uncertain"}

NodesType(N) == N \in [Node -> GraphNodeExecution]

DepsDone(N) == \A n \in Node : N[n].state \in Started =>
                  \A d \in needs[n] : N[d].state = "Succeeded"
NoneDoomed(N) == \A n \in Node : N[n].state = "Pending" =>
                  \A d \in needs[n] : N[d].state \notin DeadState
BlockCause(N) == \A n \in Node : N[n].state = "Blocked" =>
                  \/ \E d \in needs[n] : N[d].state \in DeadState
                  \/ N[n].run_id # None

DepInv(N) == DepsDone(N) /\ NoneDoomed(N) /\ BlockCause(N)

-----------------------------------------------------------------------------
(* Facts about the operators.                                              *)

\* The dependencies of a node are nodes, and never the node itself.
LEMMA NeedsAreNodes ==
    \A n \in Node : needs[n] \subseteq Node /\ n \notin needs[n]
  BY GraphAssumption DEF GraphIsValid

\* Downstream(n) holds n and is closed under "needs a member of".
LEMMA DownstreamClosed ==
  ASSUME NEW n \in Node
  PROVE  /\ n \in Downstream(n)
         /\ \A m \in Node, d \in Node :
               d \in needs[m] /\ d \in Downstream(n) => m \in Downstream(n)
<1>1. n \in Downstream(n)
  BY DEF Downstream
<1>2. ASSUME NEW m \in Node, NEW d \in Node, d \in needs[m], d \in Downstream(n)
      PROVE  m \in Downstream(n)
  <2>1. SUFFICES ASSUME NEW S \in SUBSET Node, n \in S,
                        \A k \in Node : needs[k] \cap S # {} => k \in S
                 PROVE  m \in S
    BY DEF Downstream
  <2>2. d \in S
    BY <1>2, <2>1 DEF Downstream
  <2>3. QED
    BY <1>2, <2>1, <2>2
<1>3. QED
  BY <1>1, <1>2

\* block_dependents changes nothing but the state of Pending nodes
\* downstream of n, to Blocked, and leaves none of them Pending.
LEMMA BlockEffect ==
  ASSUME NEW N, NodesType(N), NEW n \in Node
  PROVE  /\ NodesType(block_dependents(N, n))
         /\ block_dependents(N, n)[n] = N[n]
         /\ \A m \in Node :
              \/ block_dependents(N, n)[m] = N[m]
              \/ /\ N[m].state = "Pending"
                 /\ block_dependents(N, n)[m] = [N[m] EXCEPT !.state = "Blocked"]
                 /\ m \in Downstream(n)
         /\ \A m \in Downstream(n) \ {n} :
              block_dependents(N, n)[m].state # "Pending"
  BY DEF block_dependents, NodesType, GraphNodeExecution, GraphNodeState, Downstream

\* The reopened set is a fixed point: a node is in it exactly when it is
\* Blocked and its dependencies are not dead or are reopened with it.
LEMMA ReopenedFixpoint ==
  ASSUME NEW N
  PROVE  Reopened(N) = Unblocked(N, Reopened(N))
<1>1. \A S, T : S \subseteq T => Unblocked(N, S) \subseteq Unblocked(N, T)
  BY DEF Unblocked
<1>2. Unblocked(N, Reopened(N)) \subseteq Reopened(N)
  <2>1. SUFFICES ASSUME NEW m \in Unblocked(N, Reopened(N)),
                        NEW S \in SUBSET Node, Unblocked(N, S) \subseteq S
                 PROVE  m \in S
    BY DEF Reopened, Unblocked
  <2>2. Reopened(N) \subseteq S
    BY <2>1 DEF Reopened
  <2>3. QED
    BY <1>1, <2>1, <2>2
<1>3. Reopened(N) \subseteq Unblocked(N, Reopened(N))
  <2> DEFINE U == Unblocked(N, Reopened(N))
  <2>1. U \in SUBSET Node
    BY DEF Unblocked
  <2>2. Unblocked(N, U) \subseteq U
    BY <1>1, <1>2
  <2>3. QED
    BY <2>1, <2>2 DEF Reopened
<1>4. QED
  BY <1>2, <1>3

-----------------------------------------------------------------------------
(* How DepInv survives each kind of change.                                *)

\* One node moves between live or successful states; the rest is untouched.
LEMMA OneNodeLive ==
  ASSUME NEW N, NEW M, NodesType(N), NodesType(M), DepInv(N), NEW n \in Node,
         \A m \in Node \ {n} : M[m] = N[m],
         N[n].state \in {"Pending", "AwaitingApproval", "Running"},
         N[n].state = "Pending" => dependencies_succeeded(N, n),
         M[n].state \in {"AwaitingApproval", "Running", "Succeeded", "Uncertain"}
  PROVE  DepInv(M)
<1>1. \A d \in needs[n] : N[d].state = "Succeeded"
  BY DEF DepInv, DepsDone, Started, dependencies_succeeded
<1>2. DepsDone(M)
  BY <1>1, NeedsAreNodes DEF DepInv, DepsDone, Started
<1>3. NoneDoomed(M)
  BY NeedsAreNodes DEF DepInv, NoneDoomed, DeadState
<1>4. BlockCause(M)
  BY NeedsAreNodes DEF DepInv, BlockCause, DeadState
<1>5. QED
  BY <1>2, <1>3, <1>4 DEF DepInv

\* A started node dies and its dependents are blocked.
LEMMA OneNodeDies ==
  ASSUME NEW N, NEW M, NodesType(N), NodesType(M), DepInv(N), NEW n \in Node,
         \A m \in Node \ {n} : M[m] = N[m],
         N[n].state \in {"AwaitingApproval", "Running"},
         M[n].state \in DeadState,
         M[n].state = "Blocked" => M[n].run_id # None
  PROVE  DepInv(block_dependents(M, n))
<1> DEFINE B == block_dependents(M, n)
<1> HIDE DEF B
<1>0. /\ NodesType(B)
      /\ B[n] = M[n]
      /\ \A m \in Node :
           \/ B[m] = M[m]
           \/ /\ M[m].state = "Pending"
              /\ B[m] = [M[m] EXCEPT !.state = "Blocked"]
              /\ m \in Downstream(n)
      /\ \A m \in Downstream(n) \ {n} : B[m].state # "Pending"
  BY BlockEffect DEF B
<1>a. \A m \in Node : \/ B[m] = M[m]
                      \/ /\ M[m].state = "Pending"
                         /\ B[m].state = "Blocked"
                         /\ m \in Downstream(n)
  BY <1>0 DEF NodesType, GraphNodeExecution
<1>1. \A d \in needs[n] : N[d].state = "Succeeded"
  BY DEF DepInv, DepsDone, Started
<1>b. \A m \in Downstream(n) \ {n} : N[m].state \in {"Pending", "Blocked"}
  <2> DEFINE S == {n} \cup {k \in Downstream(n) : N[k].state \in {"Pending", "Blocked"}}
  <2>1. S \in SUBSET Node /\ n \in S
    BY DEF Downstream
  <2>2. ASSUME NEW k \in Node, NEW d \in S, d \in needs[k]
        PROVE  k \in S
    <3>1. d \in Node /\ d \in Downstream(n) /\ N[d].state # "Succeeded"
      BY <2>1, DownstreamClosed
    <3>2. k \in Downstream(n)
      BY <2>2, <3>1, DownstreamClosed
    <3>3. N[k].state \notin Started
      BY <2>2, <3>1 DEF DepInv, DepsDone
    <3>4. N[k].state \in GraphNodeState
      BY DEF NodesType, GraphNodeExecution
    <3>5. QED
      BY <3>2, <3>3, <3>4 DEF Started, GraphNodeState
  <2>3. \A k \in Node : needs[k] \cap S # {} => k \in S
    BY <2>2
  <2>4. Downstream(n) \subseteq S
    BY <2>1, <2>3 DEF Downstream
  <2>5. QED
    BY <2>4
<1>2. DepsDone(B)
  <2>1. SUFFICES ASSUME NEW m \in Node, B[m].state \in Started, NEW d \in needs[m]
                 PROVE  B[d].state = "Succeeded"
    BY DEF DepsDone
  <2>2. d \in Node /\ B[m] = M[m]
    BY <1>a, <2>1, NeedsAreNodes DEF Started
  <2>3. N[d].state = "Succeeded"
    BY <1>1, <2>1, <2>2 DEF DepInv, DepsDone, Started
  <2>4. QED
    BY <1>a, <2>2, <2>3
<1>3. NoneDoomed(B)
  <2>1. SUFFICES ASSUME NEW m \in Node, B[m].state = "Pending", NEW d \in needs[m],
                        B[d].state \in DeadState
                 PROVE  FALSE
    BY DEF NoneDoomed
  <2>2. d \in Node /\ m # n /\ B[m] = M[m] /\ M[m] = N[m]
    BY <1>0, <1>a, <2>1, NeedsAreNodes DEF DeadState
  <2>3. m \notin Downstream(n)
    BY <1>0, <2>1, <2>2
  <2>4. d \notin Downstream(n)
    BY <2>1, <2>2, <2>3, DownstreamClosed
  <2>5. B[d] = M[d] /\ d # n
    BY <1>a, <2>2, <2>4, DownstreamClosed
  <2>6. N[d].state \in DeadState
    BY <2>1, <2>2, <2>5
  <2>7. QED
    BY <2>1, <2>2, <2>6 DEF DepInv, NoneDoomed
<1>4. BlockCause(B)
  <2>1. SUFFICES ASSUME NEW m \in Node, B[m].state = "Blocked",
                        \A d \in needs[m] : B[d].state \notin DeadState
                 PROVE  B[m].run_id # None
    BY DEF BlockCause
  <2>2. \A d \in needs[m] : d \in Node /\ d # n /\ M[d].state \notin DeadState
    BY <1>0, <1>a, <2>1, NeedsAreNodes DEF DeadState
  <2>3. m \in Downstream(n) \ {n} => \E d \in needs[m] : d \in Downstream(n)
    <3>1. SUFFICES ASSUME m \in Downstream(n), m # n,
                          \A d \in needs[m] : d \notin Downstream(n)
                   PROVE  FALSE
      OBVIOUS
    <3> DEFINE S == Downstream(n) \ {m}
    <3>2. S \in SUBSET Node /\ n \in S
      BY <3>1, DownstreamClosed DEF Downstream
    <3>3. \A k \in Node : needs[k] \cap S # {} => k \in S
      BY <3>1, DownstreamClosed, NeedsAreNodes
    <3>4. m \in S
      BY <3>1, <3>2, <3>3 DEF Downstream
    <3>5. QED
      BY <3>4
  <2>4. CASE B[m] = M[m]
    BY <2>1, <2>2, <2>4 DEF DepInv, BlockCause
  <2>5. CASE B[m] # M[m]
    <3>1. M[m].state = "Pending" /\ m \in Downstream(n) \ {n}
      BY <1>0, <1>a, <2>5
    <3>2. PICK d \in needs[m] : d \in Downstream(n)
      BY <2>3, <3>1
    <3>3. d \in Node /\ d # n /\ B[d].state \notin DeadState /\ B[d].state # "Pending"
      BY <1>0, <2>1, <2>2, <3>2
    <3>4. N[d].state \in {"Pending", "Blocked"}
      BY <1>b, <3>2, <3>3
    <3>5. QED
      BY <1>a, <3>3, <3>4 DEF DeadState
  <2>6. QED
    BY <2>4, <2>5
<1>5. QED
  BY <1>2, <1>3, <1>4 DEF DepInv, B

\* Claiming a node keeps the types and touches no other node.
LEMMA ClaimKeeps ==
  ASSUME NEW N, NodesType(N), NEW n \in Node, NEW o \in Owner
  PROVE  /\ NodesType(claim_node(N, n, o))
         /\ \A m \in Node \ {n} : claim_node(N, n, o)[m] = N[m]
<1> DEFINE new == [N[n] EXCEPT !.state = "Running", !.owner = o, !.failure = None]
<1>1. N[n] \in GraphNodeExecution /\ N \in [Node -> GraphNodeExecution]
  BY DEF NodesType
<1>2. new \in GraphNodeExecution
  BY <1>1 DEF GraphNodeExecution, GraphNodeState
<1>3. claim_node(N, n, o) = [N EXCEPT ![n] = new]
  BY <1>1 DEF claim_node
<1> HIDE DEF new
<1>4. QED
  BY <1>1, <1>2, <1>3 DEF NodesType

\* Giving a node another state, owner and failure keeps the types.
LEMMA NodeChanged ==
  ASSUME NEW N, NodesType(N), NEW n \in Node, NEW s \in GraphNodeState,
         NEW o \in Owner \cup {None}, NEW f \in Failure \cup {None}
  PROVE  NodesType([N EXCEPT ![n].state = s, ![n].owner = o, ![n].failure = f])
<1> DEFINE new == [N[n] EXCEPT !.state = s, !.owner = o, !.failure = f]
<1>1. N[n] \in GraphNodeExecution /\ N \in [Node -> GraphNodeExecution]
  BY DEF NodesType
<1>2. new \in GraphNodeExecution
  BY <1>1 DEF GraphNodeExecution
<1>3. [N EXCEPT ![n].state = s, ![n].owner = o, ![n].failure = f] = [N EXCEPT ![n] = new]
  BY <1>1
<1> HIDE DEF new
<1>4. QED
  BY <1>1, <1>2, <1>3 DEF NodesType

\* claim_ready starts ready nodes.
LEMMA ClaimReadyKeeps ==
  ASSUME NEW N, NodesType(N), DepInv(N), NEW C \in SUBSET ReadyNodes(N),
         NEW owner \in Owner
  PROVE  NodesType(claim_ready(N, C, owner)) /\ DepInv(claim_ready(N, C, owner))
<1> DEFINE M == claim_ready(N, C, owner)
<1> HIDE DEF M
<1>1. NodesType(M)
  BY DEF M, claim_ready, NodesType, GraphNodeExecution, GraphNodeState
<1>2. \A m \in Node :
        \/ M[m] = N[m]
        \/ /\ N[m].state = "Pending"
           /\ M[m].state = "Running"
           /\ \A d \in needs[m] : N[d].state = "Succeeded"
  BY DEF M, claim_ready, ReadyNodes, Can_claim_node, dependencies_succeeded,
         NodesType, GraphNodeExecution
<1>3. DepsDone(M)
  BY <1>2, NeedsAreNodes DEF DepInv, DepsDone, Started
<1>4. NoneDoomed(M)
  BY <1>2, NeedsAreNodes DEF DepInv, NoneDoomed, DeadState
<1>5. BlockCause(M)
  BY <1>2, NeedsAreNodes DEF DepInv, BlockCause, DeadState
<1>6. QED
  BY <1>1, <1>3, <1>4, <1>5 DEF DepInv, M

\* retry_failed reopens the failed node and exactly the blocked nodes that
\* have no other cause.
LEMMA RetryKeeps ==
  ASSUME NEW N, NodesType(N), DepInv(N), NEW n \in Node, N[n].state = "Failed"
  PROVE  NodesType(retry_failed(N, n)) /\ DepInv(retry_failed(N, n))
<1> DEFINE R == [N EXCEPT ![n] = PendingExecution]
           M == retry_failed(N, n)
<1>1. /\ \A m \in Node \ {n} : R[m] = N[m]
      /\ R[n] = PendingExecution
      /\ PendingExecution \in GraphNodeExecution
      /\ PendingExecution.state = "Pending"
      /\ NodesType(R)
  BY DEF NodesType, PendingExecution, GraphNodeExecution, GraphNodeState
<1>2. /\ M \in [Node -> GraphNodeExecution]
      /\ \A m \in Node : M[m] = IF m \in Reopened(R) THEN PendingExecution ELSE R[m]
  BY <1>1 DEF retry_failed, NodesType
<1>3. \A m \in Node : m \in Reopened(R) <=>
          /\ R[m].state = "Blocked"
          /\ \A d \in needs[m] : \/ R[d].state \notin DeadState
                                 \/ R[d].state = "Blocked" /\ d \in Reopened(R)
  <2> HIDE DEF R
  <2>1. Reopened(R) = Unblocked(R, Reopened(R))
    BY ReopenedFixpoint
  <2>2. QED
    BY <2>1 DEF Unblocked
<1> HIDE DEF R, M
<1>4. DepsDone(M)
  <2>1. SUFFICES ASSUME NEW m \in Node, M[m].state \in Started, NEW d \in needs[m]
                 PROVE  M[d].state = "Succeeded"
    BY DEF DepsDone
  <2>2. d \in Node /\ M[m] = N[m]
    BY <1>1, <1>2, <2>1, NeedsAreNodes DEF Started
  <2>3. N[d].state = "Succeeded"
    BY <2>1, <2>2 DEF DepInv, DepsDone
  <2>4. QED
    BY <1>1, <1>2, <1>3, <2>2, <2>3
<1>5. NoneDoomed(M)
  <2>1. SUFFICES ASSUME NEW m \in Node, M[m].state = "Pending", NEW d \in needs[m],
                        M[d].state \in DeadState
                 PROVE  FALSE
    BY DEF NoneDoomed
  <2>2. d \in Node /\ d \notin Reopened(R) /\ d # n /\ N[d].state \in DeadState /\ R[d] = N[d]
    BY <1>1, <1>2, <2>1, NeedsAreNodes DEF DeadState
  <2>3. m \notin Reopened(R)
    BY <1>3, <2>1, <2>2
  <2>4. CASE m = n
    BY <2>1, <2>2, <2>4 DEF DepInv, DepsDone, Started, DeadState
  <2>5. CASE m # n
    BY <1>1, <1>2, <2>1, <2>2, <2>3, <2>5 DEF DepInv, NoneDoomed
  <2>6. QED
    BY <2>4, <2>5
<1>6. BlockCause(M)
  <2>1. SUFFICES ASSUME NEW m \in Node, M[m].state = "Blocked"
                 PROVE  \E d \in needs[m] : M[d].state \in DeadState
    BY DEF BlockCause
  <2>2. m \notin Reopened(R) /\ R[m].state = "Blocked"
    BY <1>1, <1>2, <2>1
  <2>3. PICK d \in needs[m] : R[d].state \in DeadState /\ d \notin Reopened(R)
    BY <1>3, <2>2, NeedsAreNodes DEF DeadState
  <2>4. QED
    BY <1>2, <2>3, NeedsAreNodes
<1>7. QED
  BY <1>2, <1>4, <1>5, <1>6 DEF DepInv, NodesType, M

\* A restart makes running nodes Uncertain, which blocks nobody.
LEMMA RestartKeeps ==
  ASSUME NEW N, NodesType(N), DepInv(N)
  PROVE  NodesType(reconcile_after_restart(N)) /\ DepInv(reconcile_after_restart(N))
<1> DEFINE M == reconcile_after_restart(N)
<1>1. /\ M \in [Node -> GraphNodeExecution]
      /\ \A m \in Node : \/ M[m] = N[m]
                         \/ N[m].state = "Running" /\ M[m].state = "Uncertain"
  BY DEF reconcile_after_restart, NodesType, GraphNodeExecution, GraphNodeState
<1> HIDE DEF M
<1>2. DepsDone(M)
  BY <1>1, NeedsAreNodes DEF DepInv, DepsDone, Started
<1>3. NoneDoomed(M)
  BY <1>1, NeedsAreNodes DEF DepInv, NoneDoomed, DeadState
<1>4. BlockCause(M)
  BY <1>1, NeedsAreNodes DEF DepInv, BlockCause, DeadState
<1>5. QED
  BY <1>1, <1>2, <1>3, <1>4 DEF DepInv, NodesType, M

-----------------------------------------------------------------------------
(* The inductive invariant and the theorems.                               *)

GraphInv == TypeOK /\ DepInv(nodes)

\* A freshly started execution (WorkflowGraph::start) satisfies the invariant.
LEMMA InitEstablishes == Init => GraphInv
<1> SUFFICES ASSUME Init PROVE GraphInv
  OBVIOUS
<1>1. /\ nodes \in [Node -> GraphNodeExecution]
      /\ \A n \in Node : nodes[n].state = "Pending"
  BY DEF Init, StartNodes, PendingExecution, GraphNodeExecution, GraphNodeState
<1>2. TypeOK
  BY <1>1 DEF Init, TypeOK
<1>3. DepInv(nodes)
  BY <1>1, NeedsAreNodes DEF DepInv, DepsDone, NoneDoomed, BlockCause, Started, DeadState
<1>4. QED
  BY <1>2, <1>3 DEF GraphInv

\* One step of Next, one case per operation.
LEMMA StepPreserves == GraphInv /\ [Next]_vars => GraphInv'
<1> SUFFICES ASSUME GraphInv, [Next]_vars PROVE GraphInv'
  OBVIOUS
<1>0. /\ NodesType(nodes) /\ DepInv(nodes)
      /\ outputs \in Seq(Output) /\ attempts \in [Node -> Seq(RunId)] /\ revision \in Nat
  BY DEF GraphInv, TypeOK, NodesType
<1>q. SUFFICES /\ NodesType(nodes') /\ DepInv(nodes')
               /\ outputs' \in Seq(Output)
               /\ attempts' \in [Node -> Seq(RunId)] /\ revision' \in Nat
  BY DEF GraphInv, TypeOK, NodesType, DepInv, DepsDone, NoneDoomed, BlockCause
<1>1. ASSUME NEW o \in Owner, NEW limit \in 1..Cardinality(Node), ClaimReady(o, limit)
      PROVE  /\ NodesType(nodes') /\ DepInv(nodes')
             /\ UNCHANGED <<outputs, attempts>> /\ revision' \in Nat
  <2>1. PICK C \in SUBSET ReadyNodes(nodes) : nodes' = claim_ready(nodes, C, o)
    BY <1>1 DEF ClaimReady, ClaimSets
  <2>2. QED
    BY <1>0, <1>1, <2>1, ClaimReadyKeeps DEF ClaimReady, Bump
<1>2. ASSUME NEW n \in Node, NEW o \in Owner, NEW r \in RunId, BeginRun(n, o, r)
      PROVE  /\ NodesType(nodes') /\ DepInv(nodes')
             /\ outputs' = outputs
             /\ attempts' \in [Node -> Seq(RunId)] /\ revision' \in Nat
  <2> DEFINE C == claim_node(nodes, n, o)
  <2>0. NodesType(C)
    BY <1>0, ClaimKeeps
  <2>1. NodesType(nodes')
    <3>1. nodes' = [C EXCEPT ![n].run_id = r]
      BY <1>2 DEF BeginRun, bind_run
    <3> HIDE DEF C
    <3>2. QED
      BY <2>0, <3>1 DEF NodesType, GraphNodeExecution
  <2>2. /\ \A m \in Node \ {n} : nodes'[m] = nodes[m]
        /\ nodes'[n].state = "Running"
        /\ nodes[n].state = "Pending" /\ dependencies_succeeded(nodes, n)
    BY <1>0, <1>2 DEF BeginRun, claim_node, bind_run, Can_claim_node, NodesType, GraphNodeExecution
  <2>3. DepInv(nodes')
    BY <1>0, <2>1, <2>2, OneNodeLive
  <2>4. QED
    BY <1>0, <1>2, <2>1, <2>3 DEF BeginRun, Bump
<1>3. ASSUME NEW n \in Node, NEW o \in Owner, NEW r \in RunId, StageRun(n, o, r)
      PROVE  /\ NodesType(nodes') /\ DepInv(nodes')
             /\ outputs' = outputs
             /\ attempts' \in [Node -> Seq(RunId)] /\ revision' \in Nat
  <2>1. NodesType(nodes')
    BY <1>0, <1>3 DEF StageRun, stage_node, NodesType, GraphNodeExecution, GraphNodeState
  <2>2. /\ \A m \in Node \ {n} : nodes'[m] = nodes[m]
        /\ nodes'[n].state = "AwaitingApproval"
        /\ nodes[n].state = "Pending" /\ dependencies_succeeded(nodes, n)
    BY <1>0, <1>3 DEF StageRun, stage_node, Can_stage_node, NodesType
  <2>3. DepInv(nodes')
    BY <1>0, <2>1, <2>2, OneNodeLive
  <2>4. QED
    BY <1>0, <1>3, <2>1, <2>3 DEF StageRun, Bump
<1>4. ASSUME NEW n \in Node, NEW o \in Owner, NEW r \in RunId, ActivateStaged(n, o, r)
      PROVE  /\ NodesType(nodes') /\ DepInv(nodes')
             /\ UNCHANGED <<outputs, attempts>> /\ revision' \in Nat
  <2>1. NodesType(nodes')
    BY <1>0, <1>4 DEF ActivateStaged, activate_staged_node, NodesType, GraphNodeExecution, GraphNodeState
  <2>2. /\ \A m \in Node \ {n} : nodes'[m] = nodes[m]
        /\ nodes'[n].state = "Running"
        /\ nodes[n].state = "AwaitingApproval"
    BY <1>0, <1>4 DEF ActivateStaged, activate_staged_node, IsStagedAs, NodesType, GraphNodeExecution
  <2>3. DepInv(nodes')
    BY <1>0, <2>1, <2>2, OneNodeLive
  <2>4. QED
    BY <1>0, <1>4, <2>1, <2>3 DEF ActivateStaged, Bump
<1>5. ASSUME NEW n \in Node, NEW o \in Owner, NEW r \in RunId, CancelStaged(n, o, r)
      PROVE  /\ NodesType(nodes') /\ DepInv(nodes')
             /\ UNCHANGED <<outputs, attempts>> /\ revision' \in Nat
  <2> DEFINE M == [nodes EXCEPT ![n].state = "Cancelled", ![n].failure = None]
  <2>1. NodesType(M)
    BY <1>0 DEF NodesType, GraphNodeExecution, GraphNodeState
  <2>2. /\ \A m \in Node \ {n} : M[m] = nodes[m]
        /\ M[n].state = "Cancelled"
        /\ nodes[n].state = "AwaitingApproval"
        /\ nodes' = block_dependents(M, n)
    BY <1>0, <1>5 DEF CancelStaged, cancel_staged_node, IsStagedAs, NodesType, GraphNodeExecution
  <2> HIDE DEF M
  <2>3. DepInv(nodes')
    BY <1>0, <2>1, <2>2, OneNodeDies DEF DeadState
  <2>4. NodesType(nodes')
    BY <2>1, <2>2, BlockEffect
  <2>5. QED
    BY <1>0, <1>5, <2>3, <2>4 DEF CancelStaged, Bump
<1>6. ASSUME NEW n \in Node, NEW o \in Owner, NEW b \in BOOLEAN, Complete(n, o, b)
      PROVE  /\ NodesType(nodes') /\ DepInv(nodes')
             /\ UNCHANGED <<outputs, attempts>> /\ revision' \in Nat
  <2> DEFINE M(s) == [nodes EXCEPT ![n].state = s, ![n].failure = None]
  <2>1. ASSUME NEW s \in {"Succeeded", "Failed"}
        PROVE  /\ NodesType(M(s)) /\ M(s)[n].state = s
               /\ \A m \in Node \ {n} : M(s)[m] = nodes[m]
    BY <1>0 DEF NodesType, GraphNodeExecution, GraphNodeState
  <2>2. nodes[n].state = "Running"
    BY <1>6 DEF Complete, IsRunningFor
  <2>3. nodes' = IF b THEN M("Succeeded") ELSE block_dependents(M("Failed"), n)
    BY <1>6 DEF Complete, complete
  <2> HIDE DEF M
  <2>4. CASE b
    BY <1>0, <2>1, <2>2, <2>3, <2>4, <1>6, OneNodeLive DEF Complete, Bump
  <2>5. CASE ~b
    <3>1. DepInv(nodes')
      BY <1>0, <2>1, <2>2, <2>3, <2>5, OneNodeDies DEF DeadState
    <3>2. NodesType(nodes')
      BY <2>1, <2>3, <2>5, BlockEffect
    <3>3. QED
      BY <1>0, <1>6, <3>1, <3>2 DEF Complete, Bump
  <2>6. QED
    BY <2>4, <2>5
<1>7. ASSUME NEW n \in Node, NEW o \in Owner, NEW s \in TerminalState,
             NEW f \in Failure \cup {None}, NEW b \in BOOLEAN, FinishRun(n, o, s, f, b)
      PROVE  /\ NodesType(nodes') /\ DepInv(nodes')
             /\ outputs' \in Seq(Output) /\ attempts' = attempts /\ revision' \in Nat
  <2> DEFINE own == IF s \in {"Succeeded", "Failed", "Cancelled"} THEN o ELSE None
             M == [nodes EXCEPT ![n].state = s, ![n].owner = own, ![n].failure = f]
  <2>0. own \in Owner \cup {None} /\ s \in GraphNodeState
    BY DEF TerminalState, GraphNodeState
  <2>1. NodesType(M)
    <3> HIDE DEF own
    <3>1. QED
      BY <1>0, <2>0, NodeChanged
  <2>2. /\ \A m \in Node \ {n} : M[m] = nodes[m]
        /\ M[n].state = s /\ M[n].run_id = nodes[n].run_id
    BY <1>0 DEF NodesType, GraphNodeExecution
  <2>3. nodes' = IF s \in DeadState THEN block_dependents(M, n) ELSE M
    BY <1>7 DEF FinishRun, finish_terminal
  <2>4. nodes[n].state = "Running" /\ nodes[n].run_id \in RunId
    BY <1>0, <1>7 DEF FinishRun, IsRunningFor
  <2>5. M[n].run_id # None
    BY <2>2, <2>4, NoneAssumption
  <2> HIDE DEF M
  <2>6. NodesType(nodes') /\ DepInv(nodes')
    <3>1. CASE s \in DeadState
      BY <1>0, <2>1, <2>2, <2>3, <2>4, <2>5, <3>1, OneNodeDies, BlockEffect
    <3>2. CASE s \notin DeadState
      <4>1. s \in {"Succeeded", "Uncertain"}
        BY <3>2 DEF DeadState, TerminalState
      <4>2. QED
        BY <1>0, <2>1, <2>2, <2>3, <2>4, <3>2, <4>1, OneNodeLive
    <3>3. QED
      BY <3>1, <3>2
  <2>7. outputs' \in Seq(Output)
    <3> DEFINE out == [node |-> n, run_id |-> nodes[n].run_id]
    <3>1. out \in Output
      BY <2>4 DEF Output
    <3>2. outputs' = Append(outputs, out) \/ outputs' = outputs
      BY <1>7 DEF FinishRun
    <3> HIDE DEF out
    <3>3. Append(outputs, out) \in Seq(Output)
      BY <1>0, <3>1, AppendProperties
    <3>4. QED
      BY <1>0, <3>2, <3>3
  <2>8. QED
    BY <1>0, <1>7, <2>6, <2>7 DEF FinishRun, Bump
<1>8. ASSUME NEW n \in Node, RetryFailed(n)
      PROVE  /\ NodesType(nodes') /\ DepInv(nodes')
             /\ UNCHANGED <<outputs, attempts>> /\ revision' \in Nat
  BY <1>0, <1>8, RetryKeeps DEF RetryFailed, Bump
<1>9. CASE Restart
  BY <1>0, <1>9, RestartKeeps DEF Restart, Bump
<1>10. CASE UNCHANGED vars
  BY <1>0, <1>10 DEF vars
<1>11. QED
  BY <1>0, <1>1, <1>2, <1>3, <1>4, <1>5, <1>6, <1>7, <1>8, <1>9, <1>10 DEF Next

\* GraphInv holds throughout: the base of the theorems below.
THEOREM GraphInvariant == Spec => []GraphInv
<1>1. Init => GraphInv
  BY InitEstablishes
<1>2. GraphInv /\ [Next]_vars => GraphInv'
  BY StepPreserves
<1>3. QED
  BY <1>1, <1>2, PTL DEF Spec

\* Every operation keeps the stored execution well typed.
THEOREM TypeCorrect == Spec => []TypeOK
<1>1. GraphInv => TypeOK
  BY DEF GraphInv
<1>2. QED
  BY <1>1, GraphInvariant, PTL

\* No node is staged, runs or has run before all its dependencies succeeded.
THEOREM StartOrder == Spec => []StartedAfterDependencies
<1>1. GraphInv => StartedAfterDependencies
  BY DEF GraphInv, DepInv, DepsDone, Started, StartedAfterDependencies,
         dependencies_succeeded
<1>2. QED
  BY <1>1, GraphInvariant, PTL

\* No Pending node waits for a dependency that can no longer succeed.
THEOREM NothingDoomed == Spec => []NoPendingOnDeadDependency
<1>1. GraphInv => NoPendingOnDeadDependency
  BY DEF GraphInv, DepInv, NoneDoomed, NoPendingOnDeadDependency
<1>2. QED
  BY <1>1, GraphInvariant, PTL

\* No node stays Blocked without a cause.
THEOREM NothingStranded == Spec => []BlockedHasCause
<1>1. GraphInv => BlockedHasCause
  BY DEF GraphInv, DepInv, BlockCause, BlockedHasCause
<1>2. QED
  BY <1>1, GraphInvariant, PTL

-----------------------------------------------------------------------------
(* What one operation may do to one node, and to the runs.                 *)

\* The moves of one node.
NodeMove(e, f) ==
    \/ f = e
    \/ /\ e.state = "Pending"
       /\ \/ f.state = "Blocked" /\ f.owner = e.owner
          \/ f.state = "Running" /\ f.owner # None
          \/ /\ f.state = "AwaitingApproval"
             /\ f.owner # None /\ f.run_id # None /\ f.failure = None
    \/ /\ e.state = "AwaitingApproval"
       /\ f.state \in {"Running", "Cancelled"}
       /\ f.owner = e.owner /\ f.run_id = e.run_id
    \/ /\ e.state = "Running"
       /\ \/ f.state \in {"Succeeded", "Failed", "Cancelled"} /\ f.owner # None
          \/ f.state \in {"Blocked", "Uncertain"} /\ f.owner = None
    \/ e.state \in {"Failed", "Blocked"} /\ f = PendingExecution

\* block_dependents on top of a move of node n is a move of every node that
\* keeps the run of every other node.
LEMMA BlockMoves ==
  ASSUME NEW N, NEW M, NodesType(N), NodesType(M), NEW n \in Node,
         \A m \in Node \ {n} : M[m] = N[m],
         NodeMove(N[n], M[n])
  PROVE  \A m \in Node :
            /\ NodeMove(N[m], block_dependents(M, n)[m])
            /\ block_dependents(M, n)[m].run_id = M[m].run_id
<1> DEFINE B == block_dependents(M, n)
<1> HIDE DEF B
<1>1. /\ B[n] = M[n]
      /\ \A m \in Node :
           \/ B[m] = M[m]
           \/ /\ M[m].state = "Pending"
              /\ B[m] = [M[m] EXCEPT !.state = "Blocked"]
  BY BlockEffect DEF B
<1>2. SUFFICES ASSUME NEW m \in Node
               PROVE  NodeMove(N[m], B[m]) /\ B[m].run_id = M[m].run_id
  BY DEF B
<1>3. M[m] \in GraphNodeExecution
  BY DEF NodesType
<1>4. CASE m = n
  BY <1>1, <1>4
<1>5. CASE m # n /\ B[m] = M[m]
  BY <1>5 DEF NodeMove
<1>6. CASE m # n /\ B[m] # M[m]
  <2>1. M[m].state = "Pending" /\ B[m] = [M[m] EXCEPT !.state = "Blocked"] /\ N[m] = M[m]
    BY <1>1, <1>6
  <2>2. B[m].state = "Blocked" /\ B[m].owner = M[m].owner /\ B[m].run_id = M[m].run_id
    BY <1>3, <2>1 DEF GraphNodeExecution
  <2>3. QED
    BY <2>1, <2>2 DEF NodeMove
<1>7. QED
  BY <1>4, <1>5, <1>6

\* The runs either stay, except that a node may lose its run, or one unused
\* run becomes the latest attempt and the run of one node.
RunsKept ==
    /\ attempts' = attempts
    /\ \A m \in Node : nodes'[m].run_id \in {nodes[m].run_id, None}

RunAdded(n, r) ==
    /\ r \notin UsedRuns
    /\ attempts' = [attempts EXCEPT ![n] = Append(@, r)]
    /\ nodes'[n].run_id = r
    /\ \A m \in Node \ {n} : nodes'[m].run_id = nodes[m].run_id
    /\ outputs' = outputs

\* The outputs stay, or one is added: the first of its node's latest attempt.
OutputsStep ==
    \/ outputs' = outputs
    \/ \E n \in Node :
         /\ nodes[n].run_id \in RunId
         /\ \A i \in DOMAIN outputs : outputs[i].run_id # nodes[n].run_id
         /\ outputs' = Append(outputs, [node |-> n, run_id |-> nodes[n].run_id])

StepShape ==
    /\ \A m \in Node : NodeMove(nodes[m], nodes'[m])
    /\ RunsKept \/ \E n \in Node, r \in RunId : RunAdded(n, r)
    /\ OutputsStep

\* Every operation has that shape.
LEMMA StepHasShape == GraphInv /\ [Next]_vars => StepShape
<1> SUFFICES ASSUME GraphInv, [Next]_vars PROVE StepShape
  OBVIOUS
<1>0. /\ NodesType(nodes) /\ nodes \in [Node -> GraphNodeExecution]
      /\ outputs \in Seq(Output) /\ attempts \in [Node -> Seq(RunId)]
  BY DEF GraphInv, TypeOK, NodesType
<1>a. NodesType(nodes)
  BY <1>0
<1>1. ASSUME NEW o \in Owner, NEW limit \in 1..Cardinality(Node), ClaimReady(o, limit)
      PROVE  StepShape
  <2>1. PICK C \in SUBSET ReadyNodes(nodes) : nodes' = claim_ready(nodes, C, o)
    BY <1>1 DEF ClaimReady, ClaimSets
  <2>2. ASSUME NEW m \in Node
        PROVE  NodeMove(nodes[m], nodes'[m]) /\ nodes'[m].run_id = nodes[m].run_id
    <3>1. CASE m \notin C
      BY <2>1, <3>1 DEF claim_ready, NodeMove
    <3>2. CASE m \in C
      <4>1. nodes[m].state = "Pending"
        BY <3>2 DEF ReadyNodes, Can_claim_node
      <4>2. /\ nodes'[m].state = "Running" /\ nodes'[m].owner = o
            /\ nodes'[m].run_id = nodes[m].run_id
        BY <1>0, <2>1, <3>2 DEF claim_ready, GraphNodeExecution
      <4>3. QED
        BY <4>1, <4>2, NoneAssumption DEF NodeMove
    <3>3. QED
      BY <3>1, <3>2
  <2>3. QED
    BY <1>1, <2>2 DEF ClaimReady, StepShape, RunsKept, OutputsStep
<1>2. ASSUME NEW n \in Node, NEW o \in Owner, NEW r \in RunId, BeginRun(n, o, r)
      PROVE  StepShape
  <2>1. /\ \A m \in Node \ {n} : nodes'[m] = nodes[m]
        /\ nodes'[n].state = "Running" /\ nodes'[n].owner = o /\ nodes'[n].run_id = r
        /\ nodes[n].state = "Pending"
    BY <1>0, <1>2 DEF BeginRun, claim_node, bind_run, Can_claim_node, GraphNodeExecution
  <2>2. \A m \in Node : NodeMove(nodes[m], nodes'[m])
    BY <2>1, NoneAssumption DEF NodeMove
  <2>3. RunAdded(n, r)
    BY <1>2, <2>1 DEF BeginRun, RunAdded
  <2>4. QED
    BY <2>2, <2>3 DEF StepShape, OutputsStep, RunAdded
<1>3. ASSUME NEW n \in Node, NEW o \in Owner, NEW r \in RunId, StageRun(n, o, r)
      PROVE  StepShape
  <2>1. /\ \A m \in Node \ {n} : nodes'[m] = nodes[m]
        /\ nodes'[n] = [state |-> "AwaitingApproval", owner |-> o,
                        run_id |-> r, failure |-> None]
        /\ nodes[n].state = "Pending"
    BY <1>0, <1>3 DEF StageRun, stage_node, Can_stage_node
  <2>2. \A m \in Node : NodeMove(nodes[m], nodes'[m])
    BY <2>1, NoneAssumption DEF NodeMove
  <2>3. RunAdded(n, r)
    BY <1>3, <2>1 DEF StageRun, RunAdded
  <2>4. QED
    BY <2>2, <2>3 DEF StepShape, OutputsStep, RunAdded
<1>4. ASSUME NEW n \in Node, NEW o \in Owner, NEW r \in RunId, ActivateStaged(n, o, r)
      PROVE  StepShape
  <2>1. /\ \A m \in Node \ {n} : nodes'[m] = nodes[m]
        /\ nodes[n].state = "AwaitingApproval" /\ nodes'[n].state = "Running"
        /\ nodes'[n].owner = nodes[n].owner /\ nodes'[n].run_id = nodes[n].run_id
    BY <1>0, <1>4 DEF ActivateStaged, activate_staged_node, IsStagedAs, GraphNodeExecution
  <2>2. \A m \in Node : NodeMove(nodes[m], nodes'[m])
    BY <2>1 DEF NodeMove
  <2>3. QED
    BY <1>4, <2>1, <2>2 DEF ActivateStaged, StepShape, RunsKept, OutputsStep
<1>5. ASSUME NEW n \in Node, NEW o \in Owner, NEW r \in RunId, CancelStaged(n, o, r)
      PROVE  StepShape
  <2> DEFINE M == [nodes EXCEPT ![n].state = "Cancelled", ![n].failure = None]
  <2>1. /\ NodesType(M)
        /\ \A m \in Node \ {n} : M[m] = nodes[m]
        /\ M[n].state = "Cancelled"
        /\ M[n].owner = nodes[n].owner /\ M[n].run_id = nodes[n].run_id
        /\ nodes[n].state = "AwaitingApproval"
        /\ nodes' = block_dependents(M, n)
    BY <1>0, <1>5 DEF CancelStaged, cancel_staged_node, IsStagedAs, NodesType,
                      GraphNodeExecution, GraphNodeState
  <2> HIDE DEF M
  <2>2. NodeMove(nodes[n], M[n])
    BY <2>1 DEF NodeMove
  <2>3. \A m \in Node : NodeMove(nodes[m], nodes'[m]) /\ nodes'[m].run_id = M[m].run_id
    <3>1. \A m \in Node : /\ NodeMove(nodes[m], block_dependents(M, n)[m])
                          /\ block_dependents(M, n)[m].run_id = M[m].run_id
      BY <1>a, <2>1, <2>2, BlockMoves
    <3>2. QED
      BY <2>1, <3>1
  <2>4. QED
    BY <1>5, <2>1, <2>3 DEF CancelStaged, StepShape, RunsKept, OutputsStep
<1>6. ASSUME NEW n \in Node, NEW o \in Owner, NEW b \in BOOLEAN, Complete(n, o, b)
      PROVE  StepShape
  <2> DEFINE M(s) == [nodes EXCEPT ![n].state = s, ![n].failure = None]
  <2>1. ASSUME NEW s \in {"Succeeded", "Failed"}
        PROVE  /\ NodesType(M(s)) /\ M(s)[n].state = s
               /\ M(s)[n].owner = nodes[n].owner
               /\ \A m \in Node : M(s)[m].run_id = nodes[m].run_id
               /\ \A m \in Node \ {n} : M(s)[m] = nodes[m]
    BY <1>0 DEF NodesType, GraphNodeExecution, GraphNodeState
  <2>2. nodes[n].state = "Running" /\ nodes[n].owner = o
    BY <1>6 DEF Complete, IsRunningFor
  <2>3. nodes' = IF b THEN M("Succeeded") ELSE block_dependents(M("Failed"), n)
    BY <1>6 DEF Complete, complete
  <2> HIDE DEF M
  <2>4. ASSUME NEW s \in {"Succeeded", "Failed"}, NEW m \in Node
        PROVE  NodeMove(nodes[m], M(s)[m])
    <3>1. CASE m = n
      BY <2>1, <2>2, <3>1, NoneAssumption DEF NodeMove
    <3>2. CASE m # n
      BY <2>1, <3>2 DEF NodeMove
    <3>3. QED
      BY <3>1, <3>2
  <2>5. \A m \in Node : NodeMove(nodes[m], nodes'[m]) /\ nodes'[m].run_id = nodes[m].run_id
    <3>1. CASE b
      BY <2>1, <2>3, <2>4, <3>1
    <3>2. CASE ~b
      <4>1. NodesType(M("Failed")) /\ NodeMove(nodes[n], M("Failed")[n])
        BY <2>1, <2>4
      <4>2. \A m \in Node \ {n} : M("Failed")[m] = nodes[m]
        BY <2>1
      <4>3. \A m \in Node : /\ NodeMove(nodes[m], nodes'[m])
                            /\ nodes'[m].run_id = M("Failed")[m].run_id
        <5> DEFINE B == block_dependents(M("Failed"), n)
        <5>1. \A m \in Node : /\ NodeMove(nodes[m], B[m])
                              /\ B[m].run_id = M("Failed")[m].run_id
          BY <1>a, <4>1, <4>2, BlockMoves
        <5>2. QED
          BY <2>3, <3>2, <5>1
      <4>4. QED
        BY <2>1, <4>3
    <3>3. QED
      BY <3>1, <3>2
  <2>6. QED
    BY <1>6, <2>5 DEF Complete, StepShape, RunsKept, OutputsStep
<1>7. ASSUME NEW n \in Node, NEW o \in Owner, NEW s \in TerminalState,
             NEW f \in Failure \cup {None}, NEW b \in BOOLEAN, FinishRun(n, o, s, f, b)
      PROVE  StepShape
  <2> DEFINE own == IF s \in {"Succeeded", "Failed", "Cancelled"} THEN o ELSE None
             M == [nodes EXCEPT ![n].state = s, ![n].owner = own, ![n].failure = f]
  <2>0. own \in Owner \cup {None} /\ s \in GraphNodeState
    BY DEF TerminalState, GraphNodeState
  <2>1. NodesType(M)
    <3> HIDE DEF own
    <3>1. QED
      BY <1>0, <2>0, NodeChanged
  <2>2. /\ \A m \in Node \ {n} : M[m] = nodes[m]
        /\ M[n].state = s /\ M[n].run_id = nodes[n].run_id /\ M[n].owner = own
    BY <1>0 DEF NodesType, GraphNodeExecution
  <2>3. nodes' = IF s \in DeadState THEN block_dependents(M, n) ELSE M
    BY <1>7 DEF FinishRun, finish_terminal
  <2>4. nodes[n].state = "Running" /\ nodes[n].run_id \in RunId
    BY <1>0, <1>7 DEF FinishRun, IsRunningFor
  <2>5. NodeMove(nodes[n], M[n])
    BY <2>2, <2>4, NoneAssumption DEF NodeMove, TerminalState
  <2> HIDE DEF M, own
  <2>6. \A m \in Node : NodeMove(nodes[m], nodes'[m]) /\ nodes'[m].run_id = nodes[m].run_id
    <3>1. CASE s \in DeadState
      <4>1. \A m \in Node : /\ NodeMove(nodes[m], nodes'[m])
                            /\ nodes'[m].run_id = M[m].run_id
        <5>1. \A m \in Node : /\ NodeMove(nodes[m], block_dependents(M, n)[m])
                              /\ block_dependents(M, n)[m].run_id = M[m].run_id
          BY <1>a, <2>1, <2>2, <2>5, BlockMoves
        <5>2. QED
          BY <2>3, <3>1, <5>1
      <4>2. QED
        BY <2>2, <4>1
    <3>2. CASE s \notin DeadState
      BY <2>2, <2>3, <2>5, <3>2 DEF NodeMove
    <3>3. QED
      BY <3>1, <3>2
  <2>7. OutputsStep
    BY <1>7, <2>4 DEF FinishRun, OutputsStep, Can_record_output
  <2>8. QED
    BY <1>7, <2>6, <2>7 DEF FinishRun, StepShape, RunsKept
<1>8. ASSUME NEW n \in Node, RetryFailed(n)
      PROVE  StepShape
  <2> DEFINE R == [nodes EXCEPT ![n] = PendingExecution]
  <2>1. /\ nodes[n].state = "Failed"
        /\ nodes' = [m \in Node |-> IF m \in Reopened(R) THEN PendingExecution ELSE R[m]]
        /\ UNCHANGED <<outputs, attempts>>
    BY <1>8 DEF RetryFailed, retry_failed
  <2>2. R[n] = PendingExecution /\ \A m \in Node \ {n} : R[m] = nodes[m]
    BY <1>0
  <2>3. \A m \in Reopened(R) : R[m].state = "Blocked"
    <3> HIDE DEF R
    <3>1. Reopened(R) = Unblocked(R, Reopened(R))
      BY ReopenedFixpoint
    <3>2. QED
      BY <3>1 DEF Unblocked
  <2> HIDE DEF R
  <2>4. PendingExecution.state = "Pending" /\ PendingExecution.run_id = None
    BY DEF PendingExecution
  <2>5. \A m \in Node :
          \/ nodes'[m] = nodes[m]
          \/ nodes[m].state \in {"Failed", "Blocked"} /\ nodes'[m] = PendingExecution
    BY <2>1, <2>2, <2>3, <2>4
  <2>6. QED
    BY <2>1, <2>4, <2>5 DEF StepShape, NodeMove, RunsKept, OutputsStep
<1>9. CASE Restart
  <2>1. \A m \in Node :
          \/ nodes'[m] = nodes[m]
          \/ /\ nodes[m].state = "Running"
             /\ nodes'[m].state = "Uncertain"
             /\ nodes'[m].owner = None /\ nodes'[m].run_id = None
    BY <1>9 DEF Restart, reconcile_after_restart
  <2>2. QED
    BY <1>9, <2>1 DEF Restart, StepShape, NodeMove, RunsKept, OutputsStep
<1>10. CASE UNCHANGED vars
  BY <1>10 DEF vars, StepShape, NodeMove, RunsKept, OutputsStep
<1>11. QED
  BY <1>1, <1>2, <1>3, <1>4, <1>5, <1>6, <1>7, <1>8, <1>9, <1>10 DEF Next

-----------------------------------------------------------------------------
(* Soundness of the stored execution.                                      *)

SoundInv == GraphInv /\ ExecutionSound

\* A move of a valid node execution ends in a valid one.
LEMMA MoveKeepsValid ==
  ASSUME NEW e \in GraphNodeExecution, NEW f \in GraphNodeExecution,
         execution_state_is_valid(e), NodeMove(e, f)
  PROVE  execution_state_is_valid(f)
  BY DEF NodeMove, execution_state_is_valid, PendingExecution, GraphNodeExecution

\* A fresh execution has no run, attempt or output that could disagree.
LEMMA InitIsSound == Init => SoundInv
<1> SUFFICES ASSUME Init PROVE ExecutionSound
  BY InitEstablishes DEF SoundInv
<1>1. \A n \in Node : nodes[n] = PendingExecution
  BY DEF Init, StartNodes
<1>2. \A n \in Node : execution_state_is_valid(nodes[n]) /\ nodes[n].run_id = None
  BY <1>1 DEF execution_state_is_valid, PendingExecution
<1>3. DOMAIN outputs = {} /\ \A n \in Node : DOMAIN attempts[n] = {}
  BY DEF Init
<1>4. QED
  BY <1>2, <1>3 DEF ExecutionSound, ExecutionValid, RunIdentity

\* Appending a value that does not occur keeps the elements of a sequence
\* distinct and its earlier elements in place.
LEMMA AppendAt ==
  ASSUME NEW S, NEW seq \in Seq(S), NEW x \in S
  PROVE  /\ DOMAIN Append(seq, x) = DOMAIN seq \cup {Len(seq) + 1}
         /\ Append(seq, x) # <<>>
         /\ Len(Append(seq, x)) = Len(seq) + 1
         /\ Len(seq) + 1 \notin DOMAIN seq
         /\ \A i \in DOMAIN seq : Append(seq, x)[i] = seq[i]
         /\ Append(seq, x)[Len(seq) + 1] = x
  BY AppendProperties

\* A run that becomes an attempt is a new one, so the attempts stay distinct.
LEMMA RunAddedKeeps ==
  ASSUME SoundInv, NEW n \in Node, NEW r \in RunId, RunAdded(n, r)
  PROVE  RunIdentity'
<1>0. /\ attempts \in [Node -> Seq(RunId)] /\ outputs \in Seq(Output) /\ RunIdentity
  BY DEF SoundInv, GraphInv, TypeOK, ExecutionSound
<1>1. attempts[n] \in Seq(RunId)
  BY <1>0
<1>2. /\ \A m \in Node \ {n} : attempts'[m] = attempts[m]
      /\ DOMAIN attempts'[n] = DOMAIN attempts[n] \cup {Len(attempts[n]) + 1}
      /\ attempts'[n] # <<>>
      /\ Len(attempts'[n]) = Len(attempts[n]) + 1
      /\ \A i \in DOMAIN attempts[n] : attempts'[n][i] = attempts[n][i]
      /\ attempts'[n][Len(attempts[n]) + 1] = r
  <2>1. /\ attempts'[n] = Append(attempts[n], r)
        /\ \A m \in Node \ {n} : attempts'[m] = attempts[m]
    BY <1>0 DEF RunAdded
  <2> DEFINE A == attempts'[n]
             a == attempts[n]
  <2>2. a \in Seq(RunId) /\ A = Append(a, r)
    BY <1>1, <2>1
  <2> HIDE DEF A, a
  <2>3. /\ DOMAIN A = DOMAIN a \cup {Len(a) + 1}
        /\ A # <<>>
        /\ Len(A) = Len(a) + 1
        /\ \A i \in DOMAIN a : A[i] = a[i]
        /\ A[Len(a) + 1] = r
    BY <2>2, AppendAt
  <2>4. QED
    BY <2>1, <2>3 DEF A, a
<1>3. \A m \in Node : \A i \in DOMAIN attempts[m] : attempts[m][i] # r
  BY DEF RunAdded, UsedRuns
<1>4. \A m \in Node : nodes'[m].run_id # None =>
         attempts'[m] # <<>> /\ nodes'[m].run_id = attempts'[m][Len(attempts'[m])]
  <2>1. \A m \in Node \ {n} : nodes'[m].run_id = nodes[m].run_id
    BY DEF RunAdded
  <2>2. nodes'[n].run_id = r
    BY DEF RunAdded
  <2>3. QED
    BY <1>0, <1>2, <2>1, <2>2 DEF RunIdentity
<1>5. \A m, k \in Node : \A i \in DOMAIN attempts'[m], j \in DOMAIN attempts'[k] :
         attempts'[m][i] = attempts'[k][j] => m = k /\ i = j
  <2>1. SUFFICES ASSUME NEW m \in Node, NEW k \in Node,
                        NEW i \in DOMAIN attempts'[m], NEW j \in DOMAIN attempts'[k],
                        attempts'[m][i] = attempts'[k][j]
                 PROVE  m = k /\ i = j
    OBVIOUS
  <2>2. \/ i \in DOMAIN attempts[m] /\ attempts'[m][i] = attempts[m][i]
        \/ m = n /\ i = Len(attempts[n]) + 1 /\ attempts'[m][i] = r
    BY <1>2
  <2>3. \/ j \in DOMAIN attempts[k] /\ attempts'[k][j] = attempts[k][j]
        \/ k = n /\ j = Len(attempts[n]) + 1 /\ attempts'[k][j] = r
    BY <1>2
  <2>4. QED
    BY <1>0, <1>3, <2>1, <2>2, <2>3 DEF RunIdentity
<1>6. \A i \in DOMAIN outputs' :
         \E j \in DOMAIN attempts'[outputs'[i].node] :
            attempts'[outputs'[i].node][j] = outputs'[i].run_id
  <2>1. SUFFICES ASSUME NEW i \in DOMAIN outputs
                 PROVE  \E j \in DOMAIN attempts'[outputs[i].node] :
                           attempts'[outputs[i].node][j] = outputs[i].run_id
    BY DEF RunAdded
  <2>2. outputs[i].node \in Node
    <3>1. outputs[i] \in Output
      BY <1>0, LenProperties
    <3>2. QED
      BY <3>1 DEF Output
  <2>3. PICK j \in DOMAIN attempts[outputs[i].node] :
                attempts[outputs[i].node][j] = outputs[i].run_id
    BY <1>0 DEF RunIdentity
  <2>4. QED
    BY <1>2, <2>2, <2>3
<1>7. QED
  BY <1>4, <1>5, <1>6 DEF RunIdentity

\* A step that adds no run keeps the attempts, and its output, if it has one,
\* is of the latest attempt of its node.
LEMMA RunsKeptKeeps ==
  ASSUME SoundInv, RunsKept, OutputsStep
  PROVE  RunIdentity'
<1>0. /\ attempts \in [Node -> Seq(RunId)] /\ outputs \in Seq(Output) /\ RunIdentity
      /\ attempts' = attempts
  BY DEF SoundInv, GraphInv, TypeOK, ExecutionSound, RunsKept
<1>1. \A m \in Node : nodes'[m].run_id # None =>
         attempts'[m] # <<>> /\ nodes'[m].run_id = attempts'[m][Len(attempts'[m])]
  BY <1>0 DEF RunIdentity, RunsKept
<1>2. \A i \in DOMAIN outputs' :
         \E j \in DOMAIN attempts'[outputs'[i].node] :
            attempts'[outputs'[i].node][j] = outputs'[i].run_id
  <2>1. CASE outputs' = outputs
    BY <1>0, <2>1 DEF RunIdentity
  <2>2. CASE outputs' # outputs
    <3>1. PICK n \in Node :
             /\ nodes[n].run_id \in RunId
             /\ outputs' = Append(outputs, [node |-> n, run_id |-> nodes[n].run_id])
      BY <2>2 DEF OutputsStep
    <3> DEFINE out == [node |-> n, run_id |-> nodes[n].run_id]
    <3>2. out \in Output /\ out.node = n /\ out.run_id = nodes[n].run_id
      BY <3>1 DEF Output
    <3> HIDE DEF out
    <3>3. /\ DOMAIN outputs' = DOMAIN outputs \cup {Len(outputs) + 1}
          /\ \A i \in DOMAIN outputs : outputs'[i] = outputs[i]
          /\ outputs'[Len(outputs) + 1] = out
      BY <1>0, <3>1, <3>2, AppendAt DEF out
    <3>4. attempts[n] # <<>> /\ nodes[n].run_id = attempts[n][Len(attempts[n])]
      BY <1>0, <3>1, NoneAssumption DEF RunIdentity
    <3>5. Len(attempts[n]) \in DOMAIN attempts[n]
      BY <1>0, <3>4, EmptySeq, LenProperties
    <3>6. SUFFICES ASSUME NEW i \in DOMAIN outputs'
                   PROVE  \E j \in DOMAIN attempts[outputs'[i].node] :
                             attempts[outputs'[i].node][j] = outputs'[i].run_id
      BY <1>0
    <3>7. CASE i \in DOMAIN outputs
      <4>1. outputs'[i] = outputs[i]
        BY <3>3, <3>7
      <4>2. QED
        BY <1>0, <3>7, <4>1 DEF RunIdentity
    <3>8. CASE i = Len(outputs) + 1
      BY <3>2, <3>3, <3>4, <3>5, <3>8
    <3>9. QED
      BY <3>3, <3>7, <3>8
  <2>3. QED
    BY <2>1, <2>2
<1>3. QED
  BY <1>0, <1>1, <1>2 DEF RunIdentity

\* No run gets a second output.
LEMMA OutputsStayUnique ==
  ASSUME SoundInv, OutputsStep
  PROVE  \A i, j \in DOMAIN outputs' : outputs'[i].run_id = outputs'[j].run_id => i = j
<1>0. /\ outputs \in Seq(Output)
      /\ \A i, j \in DOMAIN outputs : outputs[i].run_id = outputs[j].run_id => i = j
  BY DEF SoundInv, GraphInv, TypeOK, ExecutionSound, ExecutionValid
<1>1. CASE outputs' = outputs
  BY <1>0, <1>1
<1>2. CASE outputs' # outputs
  <2>1. PICK n \in Node :
           /\ nodes[n].run_id \in RunId
           /\ \A i \in DOMAIN outputs : outputs[i].run_id # nodes[n].run_id
           /\ outputs' = Append(outputs, [node |-> n, run_id |-> nodes[n].run_id])
    BY <1>2 DEF OutputsStep
  <2> DEFINE out == [node |-> n, run_id |-> nodes[n].run_id]
  <2>2. out \in Output /\ out.run_id = nodes[n].run_id
    BY <2>1 DEF Output
  <2> HIDE DEF out
  <2>3. /\ DOMAIN outputs' = DOMAIN outputs \cup {Len(outputs) + 1}
        /\ \A i \in DOMAIN outputs : outputs'[i] = outputs[i]
        /\ outputs'[Len(outputs) + 1] = out
    BY <1>0, <2>1, <2>2, AppendAt DEF out
  <2>4. QED
    BY <1>0, <2>1, <2>2, <2>3
<1>3. QED
  BY <1>1, <1>2

\* One operation keeps the execution sound, by the shape of its step.
LEMMA StepIsSound == SoundInv /\ [Next]_vars => SoundInv'
<1> SUFFICES ASSUME SoundInv, [Next]_vars PROVE SoundInv'
  OBVIOUS
<1>1. GraphInv /\ GraphInv' /\ StepShape
  BY StepPreserves, StepHasShape DEF SoundInv
<1>2. \A n \in Node : execution_state_is_valid(nodes'[n])
  <2>1. SUFFICES ASSUME NEW n \in Node
                 PROVE  execution_state_is_valid(nodes'[n])
    OBVIOUS
  <2>2. nodes[n] \in GraphNodeExecution /\ nodes'[n] \in GraphNodeExecution
    BY <1>1 DEF GraphInv, TypeOK
  <2>3. NodeMove(nodes[n], nodes'[n])
    BY <1>1 DEF StepShape
  <2>4. execution_state_is_valid(nodes[n])
    BY DEF SoundInv, ExecutionSound, ExecutionValid
  <2>5. QED
    BY <2>2, <2>3, <2>4, MoveKeepsValid
<1>3. \A i, j \in DOMAIN outputs' : outputs'[i].run_id = outputs'[j].run_id => i = j
  BY <1>1, OutputsStayUnique DEF StepShape
<1>4. RunIdentity'
  <2>1. CASE RunsKept
    BY <1>1, <2>1, RunsKeptKeeps DEF StepShape
  <2>2. ASSUME NEW n \in Node, NEW r \in RunId, RunAdded(n, r)
        PROVE  RunIdentity'
    BY <2>2, RunAddedKeeps
  <2>3. QED
    BY <1>1, <2>1, <2>2 DEF StepShape
<1>5. QED
  BY <1>1, <1>2, <1>3, <1>4 DEF SoundInv, ExecutionSound, ExecutionValid

\* Every operation leaves an execution that validates, whose runs are the
\* latest attempts of their nodes, and whose outputs belong to an attempt.
THEOREM StoredExecutionIsSound == Spec => []ExecutionSound
<1>1. Init => SoundInv
  BY InitIsSound
<1>2. SoundInv /\ [Next]_vars => SoundInv'
  BY StepIsSound
<1>3. SoundInv => ExecutionSound
  BY DEF SoundInv
<1>4. QED
  BY <1>1, <1>2, <1>3, PTL DEF Spec

-----------------------------------------------------------------------------
(* What no operation may undo.                                             *)

\* A step keeps final outcomes and the identity of staged nodes.
LEMMA MovesKeepSettled ==
  ASSUME StepShape, NEW n \in Node
  PROVE  /\ nodes[n].state \in {"Succeeded", "Cancelled", "Uncertain"} =>
              nodes'[n] = nodes[n]
         /\ nodes[n].state = "Failed" =>
              nodes'[n] = nodes[n] \/ nodes'[n] = PendingExecution
         /\ nodes[n].state = "AwaitingApproval" =>
              /\ nodes'[n].state \in {"AwaitingApproval", "Running", "Cancelled"}
              /\ nodes'[n].owner = nodes[n].owner
              /\ nodes'[n].run_id = nodes[n].run_id
  BY DEF StepShape, NodeMove

\* A step keeps the outputs and moves the revision when it changes anything.
LEMMA StepKeepsHistory ==
  ASSUME GraphInv, [Next]_vars, StepShape
  PROVE  /\ Len(outputs) <= Len(outputs')
         /\ \A i \in DOMAIN outputs : outputs'[i] = outputs[i]
         /\ <<nodes, outputs>>' # <<nodes, outputs>> => revision' > revision
<1>0. outputs \in Seq(Output) /\ revision \in Nat
  BY DEF GraphInv, TypeOK
<1>1. Len(outputs) \in Nat
  BY <1>0, LenProperties
<1>2. /\ Len(outputs) <= Len(outputs')
      /\ \A i \in DOMAIN outputs : outputs'[i] = outputs[i]
  <2>1. CASE outputs' = outputs
    BY <1>1, <2>1
  <2>2. CASE outputs' # outputs
    <3>1. PICK n \in Node :
             /\ nodes[n].run_id \in RunId
             /\ outputs' = Append(outputs, [node |-> n, run_id |-> nodes[n].run_id])
      BY <2>2 DEF StepShape, OutputsStep
    <3> DEFINE out == [node |-> n, run_id |-> nodes[n].run_id]
    <3>2. out \in Output
      BY <3>1 DEF Output
    <3> HIDE DEF out
    <3>3. /\ Len(outputs') = Len(outputs) + 1
          /\ \A i \in DOMAIN outputs : outputs'[i] = outputs[i]
      BY <1>0, <3>1, <3>2, AppendAt DEF out
    <3>4. QED
      BY <1>1, <3>3
  <2>3. QED
    BY <2>1, <2>2
<1>3. Bump \/ UNCHANGED vars
  <2>1. ASSUME NEW o \in Owner, NEW limit \in 1..Cardinality(Node), ClaimReady(o, limit) PROVE Bump
    BY <2>1 DEF ClaimReady
  <2>2. ASSUME NEW n \in Node, NEW o \in Owner, NEW r \in RunId,
               BeginRun(n, o, r) \/ StageRun(n, o, r) \/ ActivateStaged(n, o, r)
                 \/ CancelStaged(n, o, r)
        PROVE  Bump
    BY <2>2 DEF BeginRun, StageRun, ActivateStaged, CancelStaged
  <2>3. ASSUME NEW n \in Node, NEW o \in Owner, NEW b \in BOOLEAN, Complete(n, o, b) PROVE Bump
    BY <2>3 DEF Complete
  <2>4. ASSUME NEW n \in Node, NEW o \in Owner, NEW s \in TerminalState,
               NEW f \in Failure \cup {None}, NEW b \in BOOLEAN, FinishRun(n, o, s, f, b)
        PROVE  Bump
    BY <2>4 DEF FinishRun
  <2>5. CASE (\E n \in Node : RetryFailed(n)) \/ Restart
    BY <2>5 DEF RetryFailed, Restart
  <2>6. QED
    BY <2>1, <2>2, <2>3, <2>4, <2>5 DEF Next
<1>4. <<nodes, outputs>>' # <<nodes, outputs>> => revision' > revision
  BY <1>0, <1>3 DEF Bump, vars
<1>5. QED
  BY <1>2, <1>4

\* Outcomes are final, a staged node keeps its identity, and outputs are
\* history, under any interleaving of the operations with restarts.
THEOREM NothingSettledIsUndone == Spec => SettledIsKept
<1>1. GraphInv /\ [Next]_vars => StepShape
  BY StepHasShape
<1>2. GraphInv /\ [Next]_vars =>
        [\A n \in Node :
          /\ nodes[n].state \in {"Succeeded", "Cancelled", "Uncertain"} =>
               nodes'[n] = nodes[n]
          /\ nodes[n].state = "Failed" =>
               nodes'[n] = nodes[n] \/ nodes'[n] = PendingExecution]_vars
  BY <1>1, MovesKeepSettled
<1>3. GraphInv /\ [Next]_vars =>
        [\A n \in Node : nodes[n].state = "AwaitingApproval" =>
          /\ nodes'[n].state \in {"AwaitingApproval", "Running", "Cancelled"}
          /\ nodes'[n].owner = nodes[n].owner
          /\ nodes'[n].run_id = nodes[n].run_id]_vars
  BY <1>1, MovesKeepSettled
<1>4. GraphInv /\ [Next]_vars =>
        [/\ Len(outputs) <= Len(outputs')
         /\ \A i \in DOMAIN outputs : outputs'[i] = outputs[i]
         /\ <<nodes, outputs>>' # <<nodes, outputs>> => revision' > revision]_vars
  BY <1>1, StepKeepsHistory
<1>5. Spec => OutcomesAreFinal
  BY <1>2, GraphInvariant, PTL DEF Spec, OutcomesAreFinal
<1>6. Spec => StagedIdentityKept
  BY <1>3, GraphInvariant, PTL DEF Spec, StagedIdentityKept
<1>7. Spec => HistoryIsKept
  BY <1>4, GraphInvariant, PTL DEF Spec, HistoryIsKept
<1>8. QED
  BY <1>5, <1>6, <1>7 DEF SettledIsKept
=============================================================================
