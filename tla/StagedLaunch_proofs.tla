------------------------ MODULE StagedLaunch_proofs ------------------------
(***************************************************************************)
(* Proofs about StagedLaunch for every valid graph, any number of runs,    *)
(* owners, approval requests and restarts, and a clock that may be set     *)
(* back at any time.                                                       *)
(***************************************************************************)
EXTENDS StagedLaunch, SequenceTheorems, TLAPS

(* The inductive invariant, one predicate per run and one per request.     *)

\* What the rows of the staging ledger say about their request and grant.
StagedRowOK(r) ==
    LET q == staged[r].request
    IN  /\ requests[q] # None /\ requests[q].run = r
        /\ grants[q] # None => (grants[q].consumed # None <=> r \in claims)
        /\ (staged[r].state = "cancelled") <=> (staged[r].finished_at # None)
        /\ staged[r].finished_at # None => staged[r].finished_at >= staged[r].staged_at
        /\ staged[r].state = "cancelled" =>
              /\ runs[r] = [state |-> "Cancelled", started |-> FALSE, finished |-> TRUE]
              /\ r \notin unfinished \cup claims
              /\ ~Unspent(q)

\* What stands behind a claim.
ClaimOK(r) ==
    LET q == staged[r].request
    IN  /\ staged[r] # None /\ staged[r].state \in {"dispatching", "uncertain"}
        /\ requests[q].decision = "Approve"
        /\ grants[q] # None
        /\ grants[q].consumed \in grants[q].issued..(requests[q].expires - 1)
        /\ runs[r].started

RunOK(r) ==
    /\ runs[r].state = "Absent" => staged[r] = None
    /\ runs[r].state # "Absent" => plans[r] # None
    /\ Undispatched(r) <=> runs[r].state = "AwaitingApproval"
    /\ Undispatched(r) => validate_staged_run(r)
    /\ staged[r] # None => StagedRowOK(r)
    /\ staged[r] # None /\ staged[r].state \in {"dispatching", "uncertain"} => r \in claims
    /\ r \in claims => ClaimOK(r)
    /\ broker[r] # "idle" => r \in claims

\* What stands behind a grant, and the CHECK constraints of its table.
GrantOK(q) ==
    grants[q] # None =>
        /\ requests[q] # None /\ requests[q].decision = "Approve"
        /\ grants[q].consumed # None => grants[q].consumed >= grants[q].issued
        /\ grants[q].revoked # None => grants[q].revoked >= grants[q].issued
        /\ grants[q].consumed = None \/ grants[q].revoked = None

LaunchInv == TypeOK /\ (\A r \in RunId : RunOK(r)) /\ (\A q \in Request : GrantOK(q))

-----------------------------------------------------------------------------
(* Facts about the operators.                                              *)

NodesType(N) == N \in [Node -> GraphNodeExecution]

\* Claiming a node keeps the types and touches no other node.
LEMMA ClaimKeeps ==
  ASSUME NEW N, NodesType(N), NEW n \in Node, NEW o \in Owner
  PROVE  /\ NodesType(claim_node(N, n, o))
         /\ \A m \in Node \ {n} : claim_node(N, n, o)[m] = N[m]
<1> DEFINE new == [N[n] EXCEPT !.state = "Running", !.owner = o, !.failure = None]
<1>1. N[n] \in GraphNodeExecution /\ N \in [Node -> GraphNodeExecution]
  BY DEF NodesType
<1>2. new \in GraphNodeExecution
  BY <1>1 DEF GraphNodeExecution, GraphNodeState
<1>3. claim_node(N, n, o) = [N EXCEPT ![n] = new]
  BY <1>1 DEF claim_node
<1> HIDE DEF new
<1>4. QED
  BY <1>1, <1>2, <1>3 DEF NodesType

\* block_dependents changes Pending nodes only.
LEMMA BlockKeeps ==
  ASSUME NEW N, NodesType(N), NEW n \in Node
  PROVE  /\ NodesType(block_dependents(N, n))
         /\ \A m \in Node : N[m].state # "Pending" => block_dependents(N, n)[m] = N[m]
  BY DEF block_dependents, NodesType, GraphNodeExecution, GraphNodeState

\* finish_terminal changes the node it finishes and Pending nodes.
LEMMA FinishKeeps ==
  ASSUME NEW N, NodesType(N), NEW n \in Node, NEW o \in Owner, NEW s \in TerminalState
  PROVE  /\ NodesType(finish_terminal(N, n, o, s, None))
         /\ \A m \in Node \ {n} : N[m].state # "Pending" =>
               finish_terminal(N, n, o, s, None)[m] = N[m]
<1> DEFINE own == IF s \in {"Succeeded", "Failed", "Cancelled"} THEN o ELSE None
           F == [N EXCEPT ![n].state = s, ![n].owner = own, ![n].failure = None]
<1>1. own \in Owner \cup {None} /\ s \in GraphNodeState
  BY DEF TerminalState, GraphNodeState
<1>2. NodesType(F) /\ \A m \in Node \ {n} : F[m] = N[m]
  <2> HIDE DEF own
  <2>1. QED
    BY <1>1 DEF NodesType, GraphNodeExecution
<1>3. finish_terminal(N, n, o, s, None) = IF s \in DeadState THEN block_dependents(F, n) ELSE F
  BY DEF finish_terminal
<1> HIDE DEF F, own
<1>4. NodesType(block_dependents(F, n)) /\ \A m \in Node : F[m].state # "Pending" =>
         block_dependents(F, n)[m] = F[m]
  BY <1>2, BlockKeeps
<1>5. QED
  BY <1>2, <1>3, <1>4

\* retry_failed changes Failed and Blocked nodes only.
LEMMA RetryKeeps ==
  ASSUME NEW N, NodesType(N), NEW n \in Node, N[n].state = "Failed"
  PROVE  /\ NodesType(retry_failed(N, n))
         /\ \A m \in Node : N[m].state \notin {"Failed", "Blocked"} =>
               retry_failed(N, n)[m] = N[m]
<1> DEFINE R == [N EXCEPT ![n] = PendingExecution]
           S == {k \in Node : R[k].state = "Blocked"}
<1>1. /\ NodesType(R) /\ PendingExecution \in GraphNodeExecution
      /\ \A m \in Node \ {n} : R[m] = N[m]
  BY DEF NodesType, PendingExecution, GraphNodeExecution, GraphNodeState
<1>2. Reopened(R) \subseteq S
  <2> HIDE DEF R
  <2>1. S \in SUBSET Node /\ Unblocked(R, S) \subseteq S
    BY DEF Unblocked
  <2> HIDE DEF S
  <2>2. QED
    BY <2>1 DEF Reopened
<1>3. retry_failed(N, n) =
         [m \in Node |-> IF m \in Reopened(R) THEN PendingExecution ELSE R[m]]
  BY DEF retry_failed
<1>4. \A m \in Node : m \in Reopened(R) => R[m].state = "Blocked"
  BY <1>2
<1> HIDE DEF R, S
<1>5. QED
  BY <1>1, <1>3, <1>4 DEF NodesType

\* A restart changes Running nodes only.
LEMMA ReconcileKeeps ==
  ASSUME NEW N, NodesType(N)
  PROVE  /\ NodesType(reconcile_after_restart(N))
         /\ \A m \in Node : N[m].state # "Running" => reconcile_after_restart(N)[m] = N[m]
  BY DEF reconcile_after_restart, NodesType, GraphNodeExecution, GraphNodeState

\* Cancelling changes the nodes of the cancelled runs and Pending nodes.
LEMMA CancelKeeps ==
  ASSUME NEW N, NodesType(N), NEW R \in SUBSET RunId, \A r \in R : plans[r].node \in Node
  PROVE  /\ NodesType(CancelledNodes(N, R))
         /\ \A m \in Node : N[m].state # "Pending" /\ (\A r \in R : plans[r].node # m) =>
               CancelledNodes(N, R)[m] = N[m]
  BY DEF CancelledNodes, NodesType, GraphNodeExecution, GraphNodeState

-----------------------------------------------------------------------------
(* Runs that a step does not touch.                                        *)

\* Everything RunOK(r) reads is as before; a broker may only have gone idle.
RunSame(r) ==
    /\ runs'[r] = runs[r] /\ staged'[r] = staged[r] /\ plans'[r] = plans[r]
    /\ r \in claims' <=> r \in claims
    /\ r \in unfinished' <=> r \in unfinished
    /\ broker'[r] # "idle" => broker[r] # "idle"
    /\ Undispatched(r) =>
          /\ nodes'[plans[r].node] = nodes[plans[r].node]
          /\ attempts'[plans[r].node] = attempts[plans[r].node]
    /\ staged[r] # None =>
          /\ requests'[staged[r].request] = requests[staged[r].request]
          /\ grants'[staged[r].request] = grants[staged[r].request]

\* Such a run keeps its part of the invariant.
LEMMA RunFrame ==
  ASSUME NEW r \in RunId, RunOK(r), RunSame(r)
  PROVE  RunOK(r)'
<1>1. (runs[r].state = "Absent" => staged[r] = None)'
  BY DEF RunOK, RunSame
<1>2. (runs[r].state # "Absent" => plans[r] # None)'
  BY DEF RunOK, RunSame
<1>3. (Undispatched(r) <=> runs[r].state = "AwaitingApproval")'
  BY DEF RunOK, RunSame, Undispatched
<1>4. (Undispatched(r) => validate_staged_run(r))'
  BY DEF RunOK, RunSame, Undispatched, validate_staged_run, validate_staged_context,
         validate_decision_and_grant_state, IsStagedAs
<1>5. (staged[r] # None => StagedRowOK(r))'
  BY DEF RunOK, RunSame, StagedRowOK, Unspent
<1>6. (staged[r] # None /\ staged[r].state \in {"dispatching", "uncertain"} => r \in claims)'
  BY DEF RunOK, RunSame
<1>7. (r \in claims => ClaimOK(r))'
  BY DEF RunOK, RunSame, ClaimOK
<1>8. (broker[r] # "idle" => r \in claims)'
  BY DEF RunOK, RunSame
<1>9. QED
  BY <1>1, <1>2, <1>3, <1>4, <1>5, <1>6, <1>7, <1>8 DEF RunOK

\* A request whose grant is untouched and that is not undecided.
LEMMA GrantFrame ==
  ASSUME NEW q \in Request, GrantOK(q), grants'[q] = grants[q],
         grants[q] # None => requests'[q] = requests[q]
  PROVE  GrantOK(q)'
  BY DEF GrantOK

\* The invariant gives the rows their types.
LEMMA RowTypes ==
  ASSUME LaunchInv
  PROVE  /\ NodesType(nodes)
         /\ \A r \in RunId : runs[r].state # "Absent" => plans[r] \in Plan
         /\ \A r \in RunId : staged[r] # None => staged[r] \in Staged
         /\ \A q \in Request : requests[q] # None => requests[q] \in RequestRow
         /\ \A q \in Request : grants[q] # None => grants[q] \in Grant
         /\ clock \in Nat
  BY StagedLaunchAssumption DEF LaunchInv, TypeOK, RunOK, NodesType

\* Two staged launches never share a request.
LEMMA RequestsDiffer ==
  ASSUME LaunchInv, NEW r \in RunId, NEW s \in RunId, staged[r] # None, staged[s] # None,
         staged[r].request = staged[s].request
  PROVE  r = s
  BY DEF LaunchInv, RunOK, StagedRowOK

\* The catalog row of a run cancelled before it started.
LEMMA CancelledRecord ==
  ASSUME NEW e \in Run, e.started = FALSE
  PROVE  [e EXCEPT !.state = "Cancelled", !.finished = TRUE] =
            [state |-> "Cancelled", started |-> FALSE, finished |-> TRUE]
<1> DEFINE d == [e EXCEPT !.state = "Cancelled", !.finished = TRUE]
<1>1. d \in Run /\ d.state = "Cancelled" /\ d.started = FALSE /\ d.finished = TRUE
  BY DEF Run, RunState, TerminalState
<1> HIDE DEF d
<1>2. d = [state |-> "Cancelled", started |-> FALSE, finished |-> TRUE]
  BY <1>1 DEF Run
<1>3. QED
  BY <1>2 DEF d

\* A launch that waits is staged at its own node, which no other run has.
LEMMA WaitingFacts ==
  ASSUME LaunchInv, NEW r \in RunId, Undispatched(r)
  PROVE  /\ staged[r] \in Staged /\ plans[r] \in Plan
         /\ staged[r].request \in Request /\ requests[staged[r].request] \in RequestRow
         /\ nodes[plans[r].node].state = "AwaitingApproval"
         /\ nodes[plans[r].node].run_id = r
         /\ runs[r] = [state |-> "AwaitingApproval", started |-> FALSE, finished |-> FALSE]
         /\ r \notin claims
         /\ broker[r] = "idle"
<1>1. validate_staged_run(r) /\ runs[r].state = "AwaitingApproval" /\ staged[r] # None
  BY DEF LaunchInv, RunOK, Undispatched
<1>2. staged[r] \in Staged /\ plans[r] \in Plan
  BY <1>1, RowTypes
<1>3. staged[r].request \in Request /\ requests[staged[r].request] # None
  BY <1>1, <1>2 DEF Staged, validate_staged_run, validate_staged_context
<1>4. requests[staged[r].request] \in RequestRow
  BY <1>3, RowTypes
<1>5. r \notin claims
  BY DEF LaunchInv, RunOK, ClaimOK, Undispatched
<1>6. broker[r] = "idle"
  BY <1>5 DEF LaunchInv, RunOK
<1>7. QED
  BY <1>1, <1>2, <1>3, <1>4, <1>5, <1>6
  DEF validate_staged_run, validate_staged_context, IsStagedAs

-----------------------------------------------------------------------------
(* Cancelling undispatched launches.                                       *)

\* A cancelled launch is closed in every table.
LEMMA CancelledRunOK ==
  ASSUME LaunchInv, NEW r \in RunId, Undispatched(r),
         runs'[r] = [state |-> "Cancelled", started |-> FALSE, finished |-> TRUE],
         staged'[r] = [staged[r] EXCEPT !.state = "cancelled", !.finished_at = CancelTime(r)],
         plans'[r] = plans[r], claims' = claims, r \notin unfinished',
         broker'[r] # "idle" => broker[r] # "idle",
         requests'[staged[r].request] # None, requests'[staged[r].request].run = r,
         grants'[staged[r].request] # None =>
            /\ grants'[staged[r].request].consumed = None
            /\ grants'[staged[r].request].revoked # None
  PROVE  RunOK(r)'
<1>1. /\ staged[r] \in Staged /\ plans[r] \in Plan /\ r \notin claims /\ broker[r] = "idle"
      /\ clock \in Nat
  BY WaitingFacts, RowTypes
<1>2. CancelTime(r) \in Nat /\ CancelTime(r) >= staged[r].staged_at
  BY <1>1 DEF CancelTime, Later, Staged
<1>3. /\ staged'[r].request = staged[r].request /\ staged'[r].state = "cancelled"
      /\ staged'[r].finished_at = CancelTime(r) /\ staged'[r].staged_at = staged[r].staged_at
      /\ staged'[r] \in Staged
  BY <1>1, <1>2 DEF Staged
<1>4. CancelTime(r) # None /\ staged'[r] # None /\ plans[r] # None
  BY <1>1, <1>2, <1>3, StagedLaunchAssumption, NoneIsNoRow
<1>5. StagedRowOK(r)'
  BY <1>1, <1>2, <1>3, <1>4 DEF StagedRowOK, Unspent
<1>6. ~Undispatched(r)'
  BY <1>3 DEF Undispatched
<1>7. QED
  BY <1>1, <1>3, <1>4, <1>5, <1>6 DEF RunOK

\* A waiting launch that is not cancelled keeps its node.
LEMMA OthersKeepNode ==
  ASSUME LaunchInv, NEW R \in SUBSET RunId, \A r \in R : Undispatched(r),
         NEW N, NodesType(N),
         \A m \in Node : nodes[m].state = "AwaitingApproval" => N[m] = nodes[m],
         NEW s \in RunId \ R, Undispatched(s)
  PROVE  CancelledNodes(N, R)[plans[s].node] = nodes[plans[s].node]
<1>1. /\ plans[s] \in Plan /\ nodes[plans[s].node].state = "AwaitingApproval"
      /\ nodes[plans[s].node].run_id = s
  BY WaitingFacts
<1>2. \A r \in R : plans[r] \in Plan /\ nodes[plans[r].node].run_id = r
  BY WaitingFacts
<1>3. /\ plans[s].node \in Node
      /\ \A r \in R : plans[r].node \in Node /\ plans[r].node # plans[s].node
  BY <1>1, <1>2 DEF Plan
<1>4. N[plans[s].node].state # "Pending" /\ N[plans[s].node] = nodes[plans[s].node]
  BY <1>1, <1>3
<1>5. QED
  BY <1>3, <1>4, CancelKeeps

\* The grants of the cancelled launches, and no others, are revoked.
LEMMA RevokeEffect ==
  ASSUME LaunchInv, NEW R \in SUBSET RunId, \A r \in R : Undispatched(r)
  PROVE  /\ RevokedGrants(R) \in [Request -> Grant \cup {None}]
         /\ \A q \in Request :
              \/ /\ RevokedGrants(R)[q] = grants[q]
                 /\ \A r \in R : staged[r].request = q => ~Unspent(q)
              \/ /\ Unspent(q) /\ \E r \in R : staged[r].request = q
                 /\ RevokedGrants(R)[q].issued = grants[q].issued
                 /\ RevokedGrants(R)[q].consumed = None
                 /\ RevokedGrants(R)[q].revoked \in Nat
                 /\ RevokedGrants(R)[q].revoked >= grants[q].issued
<1> DEFINE hit(q) == Unspent(q) /\ \E r \in R : staged[r].request = q
           t(q) == RevokeTime(q, CHOOSE r \in R : staged[r].request = q)
<1>1. grants \in [Request -> Grant \cup {None}]
  BY DEF LaunchInv, TypeOK
<1>2. ASSUME NEW q \in Request, hit(q)
      PROVE  t(q) \in Nat /\ t(q) >= grants[q].issued /\ grants[q] \in Grant
  <2>1. grants[q] \in Grant
    BY <1>2, RowTypes DEF Unspent
  <2>2. PICK x \in R : x = CHOOSE r \in R : staged[r].request = q
    BY <1>2
  <2>3. staged[x] \in Staged /\ clock \in Nat
    BY WaitingFacts, RowTypes
  <2>4. RevokeTime(q, x) \in Nat /\ RevokeTime(q, x) >= grants[q].issued
    BY <2>1, <2>3 DEF RevokeTime, CancelTime, Later, Staged, Grant
  <2>5. QED
    BY <2>1, <2>2, <2>4
<1>3. RevokedGrants(R) = [q \in Request |-> IF hit(q) THEN [grants[q] EXCEPT !.revoked = t(q)]
                                                      ELSE grants[q]]
  BY DEF RevokedGrants, Unspent
<1> HIDE DEF t
<1>4. ASSUME NEW q \in Request, hit(q)
      PROVE  /\ [grants[q] EXCEPT !.revoked = t(q)] \in Grant
             /\ [grants[q] EXCEPT !.revoked = t(q)].issued = grants[q].issued
             /\ [grants[q] EXCEPT !.revoked = t(q)].consumed = None
             /\ [grants[q] EXCEPT !.revoked = t(q)].revoked = t(q)
  BY <1>2, <1>4 DEF Grant, Unspent
<1>5. \A q \in Request : RevokedGrants(R)[q] =
         IF hit(q) THEN [grants[q] EXCEPT !.revoked = t(q)] ELSE grants[q]
  BY <1>3
<1>6. RevokedGrants(R) \in [Request -> Grant \cup {None}]
  BY <1>1, <1>3, <1>4
<1>7. ASSUME NEW q \in Request
      PROVE  \/ /\ RevokedGrants(R)[q] = grants[q]
                /\ \A r \in R : staged[r].request = q => ~Unspent(q)
             \/ /\ Unspent(q) /\ \E r \in R : staged[r].request = q
                /\ RevokedGrants(R)[q].issued = grants[q].issued
                /\ RevokedGrants(R)[q].consumed = None
                /\ RevokedGrants(R)[q].revoked \in Nat
                /\ RevokedGrants(R)[q].revoked >= grants[q].issued
  <2>1. CASE hit(q)
    <3>1. RevokedGrants(R)[q] = [grants[q] EXCEPT !.revoked = t(q)]
      BY <1>5, <2>1
    <3>2. t(q) \in Nat /\ t(q) >= grants[q].issued
      BY <1>2, <2>1
    <3>3. /\ RevokedGrants(R)[q].issued = grants[q].issued
          /\ RevokedGrants(R)[q].consumed = None
          /\ RevokedGrants(R)[q].revoked = t(q)
      BY <1>4, <2>1, <3>1
    <3>4. QED
      BY <2>1, <3>2, <3>3
  <2>2. CASE ~hit(q)
    BY <1>5, <2>2
  <2>3. QED
    BY <2>1, <2>2
<1>8. QED
  BY <1>6, <1>7

\* What a sweep, a cancel or a recovery that cancels the launches in R does
\* to them and to the tables; N and C are the nodes and runs it starts from.
CancelTables(R, N, C) ==
    /\ nodes' = CancelledNodes(N, R)
    /\ runs' = CancelledRuns(C, R)
    /\ unfinished' = unfinished \ R
    /\ grants' = RevokedGrants(R)
    /\ \A r \in R : staged'[r] = CancelledStaged(R)[r]
    /\ UNCHANGED <<attempts, plans, requests, claims>>
    /\ \A r \in RunId : broker'[r] # "idle" => broker[r] # "idle"

\* They are closed, nobody else is touched, and their grants are spent.
LEMMA CancelAll ==
  ASSUME LaunchInv, NEW R \in SUBSET RunId, \A r \in R : Undispatched(r),
         NEW N, NodesType(N),
         \A m \in Node : nodes[m].state = "AwaitingApproval" => N[m] = nodes[m],
         NEW C \in [RunId -> Run], \A r \in R : C[r] = runs[r],
         CancelTables(R, N, C)
  PROVE  /\ NodesType(nodes') /\ runs' \in [RunId -> Run]
         /\ grants' \in [Request -> Grant \cup {None}]
         /\ \A r \in R : RunOK(r)' /\ staged'[r] \in Staged
         /\ \A s \in RunId \ R : runs'[s] = C[s]
         /\ \A s \in RunId \ R : C[s] = runs[s] /\ staged'[s] = staged[s] => RunOK(s)'
         /\ \A q \in Request : GrantOK(q)'
         /\ \A q \in Request : grants[q] # None /\ ~Unspent(q) => grants'[q] = grants[q]
         /\ \A r \in R : runs[r].state \notin TerminalState
<1>1. \A r \in R : plans[r] \in Plan /\ plans[r].node \in Node
  BY WaitingFacts DEF Plan
<1>2. NodesType(nodes')
  BY <1>1, CancelKeeps DEF CancelTables
<1>3. \A r \in R :
         /\ runs[r] = [state |-> "AwaitingApproval", started |-> FALSE, finished |-> FALSE]
         /\ staged[r] \in Staged /\ staged[r] # None /\ staged[r].request \in Request
         /\ requests[staged[r].request] # None /\ requests[staged[r].request].run = r
  BY WaitingFacts DEF LaunchInv, RunOK, StagedRowOK, Undispatched
<1>4. /\ \A r \in R : runs'[r] = [state |-> "Cancelled", started |-> FALSE, finished |-> TRUE]
      /\ \A s \in RunId \ R : runs'[s] = C[s]
      /\ runs' \in [RunId -> Run]
  <2> DEFINE done == [state |-> "Cancelled", started |-> FALSE, finished |-> TRUE]
  <2>1. done \in Run
    BY DEF Run, RunState, TerminalState
  <2>2. \A r \in R : [C[r] EXCEPT !.state = "Cancelled", !.finished = TRUE] = done
    <3>1. SUFFICES ASSUME NEW r \in R
                   PROVE  [C[r] EXCEPT !.state = "Cancelled", !.finished = TRUE] = done
      OBVIOUS
    <3>2. C[r] \in Run /\ C[r].started = FALSE
      BY <1>3
    <3>3. QED
      BY <3>2, CancelledRecord
  <2>3. runs' = [r \in RunId |->
                  IF r \in R THEN [C[r] EXCEPT !.state = "Cancelled", !.finished = TRUE]
                            ELSE C[r]]
    BY DEF CancelTables, CancelledRuns
  <2> HIDE DEF done
  <2>4. runs' = [r \in RunId |-> IF r \in R THEN done ELSE C[r]]
    BY <2>2, <2>3
  <2>5. QED
    BY <2>1, <2>4 DEF done
<1>5. \A r \in R : staged'[r] = [staged[r] EXCEPT !.state = "cancelled",
                                                   !.finished_at = CancelTime(r)]
  BY DEF CancelTables, CancelledStaged
<1>6. \A r \in R : staged'[r] \in Staged
  <2>1. \A r \in R : CancelTime(r) \in Nat
    BY <1>3, RowTypes DEF CancelTime, Later, Staged
  <2>2. SUFFICES ASSUME NEW r \in R PROVE staged'[r] \in Staged
    OBVIOUS
  <2>3. staged[r] \in Staged /\ CancelTime(r) \in Nat
    BY <1>3, <2>1
  <2>4. QED
    BY <1>5, <2>3 DEF Staged
<1>7. /\ grants' \in [Request -> Grant \cup {None}]
      /\ \A q \in Request :
           \/ /\ grants'[q] = grants[q]
              /\ \A r \in R : staged[r].request = q => ~Unspent(q)
           \/ /\ Unspent(q) /\ \E r \in R : staged[r].request = q
              /\ grants'[q].issued = grants[q].issued
              /\ grants'[q].consumed = None
              /\ grants'[q].revoked \in Nat
              /\ grants'[q].revoked >= grants[q].issued
  BY RevokeEffect DEF CancelTables
<1>8. ASSUME NEW r \in R PROVE RunOK(r)'
  <2> DEFINE q == staged[r].request
  <2>1. q \in Request /\ requests'[q] # None /\ requests'[q].run = r
    BY <1>3 DEF CancelTables
  <2>2. grants[q] # None => grants[q].consumed = None
    <3>1. validate_decision_and_grant_state(r)
      BY DEF LaunchInv, RunOK, validate_staged_run
    <3>2. QED
      BY <3>1 DEF validate_decision_and_grant_state
  <2>3. grants'[q] # None => grants'[q].consumed = None /\ grants'[q].revoked # None
    BY <1>7, <2>1, <2>2, StagedLaunchAssumption DEF Unspent
  <2>4. /\ plans'[r] = plans[r] /\ claims' = claims /\ r \notin unfinished'
        /\ broker'[r] # "idle" => broker[r] # "idle"
    BY DEF CancelTables
  <2> HIDE DEF q
  <2>5. QED
    BY <1>4, <1>5, <2>1, <2>3, <2>4, CancelledRunOK DEF q
<1>9. ASSUME NEW s \in RunId \ R, C[s] = runs[s], staged'[s] = staged[s]
      PROVE  RunOK(s)'
  <2>1. runs'[s] = runs[s]
    BY <1>4, <1>9
  <2>2. Undispatched(s) => nodes'[plans[s].node] = nodes[plans[s].node]
    BY OthersKeepNode DEF CancelTables
  <2>3. staged[s] # None => grants'[staged[s].request] = grants[staged[s].request]
    <3>1. SUFFICES ASSUME staged[s] # None
                   PROVE  grants'[staged[s].request] = grants[staged[s].request]
      OBVIOUS
    <3>2. staged[s].request \in Request
      BY <3>1, RowTypes DEF Staged
    <3>3. \A r \in R : staged[r].request # staged[s].request
      BY <1>3, <3>1, RequestsDiffer
    <3>4. QED
      BY <1>7, <3>2, <3>3
  <2>4. RunSame(s)
    BY <1>9, <2>1, <2>2, <2>3 DEF RunSame, CancelTables
  <2>5. QED
    BY <2>4, RunFrame DEF LaunchInv
<1>10. ASSUME NEW q \in Request PROVE GrantOK(q)'
  <2>1. GrantOK(q) /\ requests'[q] = requests[q]
    BY DEF LaunchInv, CancelTables
  <2>2. QED
    BY <1>7, <2>1 DEF GrantOK, Unspent
<1>11. \A r \in R : runs[r].state \notin TerminalState
  BY <1>3 DEF TerminalState
<1>12. \A q \in Request : grants[q] # None /\ ~Unspent(q) => grants'[q] = grants[q]
  BY <1>7
<1>13. QED
  BY <1>2, <1>4, <1>6, <1>7, <1>8, <1>9, <1>10, <1>11, <1>12

-----------------------------------------------------------------------------
(* One lemma per operation.                                                *)

\* What is settled stays settled in one step.
SettledStep ==
    /\ \A r \in RunId : runs[r].state \in TerminalState => runs'[r] = runs[r]
    /\ \A q \in Request : requests[q] # None /\ requests[q].decision # None =>
          requests'[q] = requests[q]
    /\ \A q \in Request : grants[q] # None /\ ~Unspent(q) => grants'[q] = grants[q]
    /\ claims \subseteq claims'

\* Steps that write none of the tables.
LEMMA QuietStep ==
  ASSUME LaunchInv, UNCHANGED ledgers, TypeOK',
         \A r \in RunId : broker'[r] # "idle" => broker[r] # "idle"
  PROVE  LaunchInv' /\ SettledStep
<1>1. \A r \in RunId : RunSame(r)
  BY DEF RunSame, ledgers
<1>2. \A r \in RunId : RunOK(r)'
  BY <1>1, RunFrame DEF LaunchInv
<1>3. \A q \in Request : GrantOK(q)'
  BY GrantFrame DEF LaunchInv, ledgers
<1>4. SettledStep
  BY DEF SettledStep, ledgers
<1>5. QED
  BY <1>2, <1>3, <1>4 DEF LaunchInv

\* Suspend, resume, shutdown, catalog edits, time and the credential reader.
LEMMA QuietActions ==
  ASSUME LaunchInv,
         \/ Suspend \/ Resume \/ Shutdown \/ EditM3State \/ Tick
         \/ \E r \in RunId : EditCatalog(r) \/ ReadCredential(r)
         \/ \E t \in 0..MaxClock : SetClockBack(t)
         \/ UNCHANGED vars
  PROVE  LaunchInv' /\ SettledStep
<1>0. TypeOK
  BY DEF LaunchInv
<1>1. CASE Suspend \/ Resume \/ Shutdown \/ EditM3State \/ UNCHANGED vars
  <2>1. TypeOK'
    BY <1>0, <1>1
    DEF Suspend, Resume, Shutdown, EditM3State, vars, TypeOK, ledgers, bounds
  <2>2. QED
    BY <1>1, <2>1, QuietStep DEF Suspend, Resume, Shutdown, EditM3State, vars
<1>2. CASE Tick
  <2>1. TypeOK'
    BY <1>0, <1>2, StagedLaunchAssumption DEF Tick, TypeOK, ledgers, bounds
  <2>2. QED
    BY <1>2, <2>1, QuietStep DEF Tick
<1>3. ASSUME NEW t \in 0..MaxClock, SetClockBack(t)
      PROVE  LaunchInv' /\ SettledStep
  <2>1. TypeOK'
    BY <1>0, <1>3, StagedLaunchAssumption DEF SetClockBack, TypeOK, ledgers, bounds
  <2>2. QED
    BY <1>3, <2>1, QuietStep DEF SetClockBack
<1>4. ASSUME NEW r \in RunId, EditCatalog(r)
      PROVE  LaunchInv' /\ SettledStep
  <2>1. TypeOK'
    BY <1>0, <1>4 DEF EditCatalog, TypeOK, ledgers, bounds
  <2>2. QED
    BY <1>4, <2>1, QuietStep DEF EditCatalog
<1>5. ASSUME NEW r \in RunId, ReadCredential(r)
      PROVE  LaunchInv' /\ SettledStep
  <2>1. TypeOK'
    BY <1>0, <1>5 DEF ReadCredential, TypeOK, ledgers, bounds
  <2>2. \A s \in RunId : broker'[s] # "idle" => broker[s] # "idle"
    BY <1>0, <1>5 DEF ReadCredential, TypeOK
  <2>3. QED
    BY <1>5, <2>1, <2>2, QuietStep DEF ReadCredential
<1>6. QED
  BY <1>1, <1>2, <1>3, <1>4, <1>5

\* A launch that waits keeps its node and attempts while another, Pending
\* node starts.
LEMMA PendingIsOther ==
  ASSUME LaunchInv, NEW n \in Node, nodes[n].state = "Pending",
         NEW s \in RunId, Undispatched(s)
  PROVE  plans[s].node \in Node /\ plans[s].node # n
  BY WaitingFacts DEF Plan

\* begin_graph_node_run_inner of a run that starts at once.
LEMMA BeginDirectStep ==
  ASSUME LaunchInv, NEW n \in Node, NEW o \in Owner, NEW r \in RunId, BeginDirect(n, o, r)
  PROVE  LaunchInv' /\ SettledStep
<1>0. TypeOK /\ NodesType(nodes) /\ RunOK(r)
  BY RowTypes DEF LaunchInv
<1>1. /\ nodes[n].state = "Pending"
      /\ nodes' = bind_run(claim_node(nodes, n, o), n, r)
      /\ runs[r].state = "Absent"
      /\ runs' = [runs EXCEPT ![r] = [state |-> "Starting", started |-> TRUE, finished |-> FALSE]]
      /\ attempts' = [attempts EXCEPT ![n] = Append(@, r)]
      /\ unfinished' = unfinished \cup {r}
      /\ plans' = [plans EXCEPT ![r] = [node |-> n, owner |-> o]]
      /\ current' = current \cup {r} /\ coherent' = coherent
      /\ UNCHANGED <<staged, requests, grants, claims, lifecycle, broker, clock, bounds>>
  BY DEF BeginDirect, NewAttempt, Can_claim_node
<1>2. NodesType(nodes') /\ \A m \in Node \ {n} : nodes'[m] = nodes[m]
  <2> DEFINE C == claim_node(nodes, n, o)
  <2>1. NodesType(C) /\ \A m \in Node \ {n} : C[m] = nodes[m]
    BY <1>0, ClaimKeeps
  <2>2. nodes' = [C EXCEPT ![n].run_id = r]
    BY <1>1 DEF bind_run
  <2> HIDE DEF C
  <2>3. QED
    BY <2>1, <2>2 DEF NodesType, GraphNodeExecution
<1>3. [node |-> n, owner |-> o] \in Plan /\ [node |-> n, owner |-> o] # None
  BY NoneIsNoRow DEF Plan
<1>4. [state |-> "Starting", started |-> TRUE, finished |-> FALSE] \in Run
  BY DEF Run, RunState, LiveRunState
<1>5. Append(attempts[n], r) \in Seq(RunId)
  BY <1>0, AppendProperties DEF TypeOK
<1>6. TypeOK'
  BY <1>0, <1>1, <1>2, <1>3, <1>4, <1>5 DEF TypeOK, NodesType, bounds
<1>7. RunOK(r)'
  <2>1. staged[r] = None /\ r \notin claims /\ broker[r] = "idle"
    BY <1>0, <1>1 DEF RunOK, ClaimOK
  <2>2. runs'[r].state = "Starting" /\ plans'[r] # None
    BY <1>0, <1>1, <1>3 DEF TypeOK
  <2>3. QED
    BY <1>1, <2>1, <2>2 DEF RunOK, Undispatched
<1>8. ASSUME NEW s \in RunId \ {r} PROVE RunOK(s)'
  <2>1. Undispatched(s) => plans[s].node \in Node \ {n}
    BY <1>1, PendingIsOther
  <2>2. RunSame(s)
    BY <1>0, <1>1, <1>2, <2>1 DEF RunSame, TypeOK
  <2>3. QED
    BY <2>2, RunFrame DEF LaunchInv
<1>9. \A q \in Request : GrantOK(q)'
  BY <1>1, GrantFrame DEF LaunchInv
<1>10. SettledStep
  BY <1>0, <1>1 DEF SettledStep, TypeOK, TerminalState
<1>11. QED
  BY <1>6, <1>7, <1>8, <1>9, <1>10 DEF LaunchInv

\* begin_graph_node_run_inner of a run that waits for an approval.
LEMMA BeginStagedStep ==
  ASSUME LaunchInv, NEW n \in Node, NEW o \in Owner, NEW r \in RunId, NEW q \in Request,
         BeginStaged(n, o, r, q)
  PROVE  LaunchInv' /\ SettledStep
<1> DEFINE run == [state |-> "AwaitingApproval", started |-> FALSE, finished |-> FALSE]
           plan == [node |-> n, owner |-> o]
           row == [request |-> q, state |-> "awaiting_approval",
                   staged_at |-> clock, finished_at |-> None]
           req == [run |-> r, created |-> clock, expires |-> clock + TTL,
                   decision |-> None, decided_at |-> None]
           node == [state |-> "AwaitingApproval", owner |-> o, run_id |-> r, failure |-> None]
<1>0. TypeOK /\ NodesType(nodes) /\ RunOK(r) /\ GrantOK(q) /\ clock \in Nat
  BY RowTypes DEF LaunchInv
<1>1. /\ nodes[n].state = "Pending" /\ runs[r].state = "Absent" /\ requests[q] = None
      /\ nodes' = [nodes EXCEPT ![n] = node]
      /\ runs' = [runs EXCEPT ![r] = run]
      /\ attempts' = [attempts EXCEPT ![n] = Append(@, r)]
      /\ unfinished' = unfinished \cup {r}
      /\ plans' = [plans EXCEPT ![r] = plan]
      /\ current' = current \cup {r} /\ coherent' = coherent
      /\ requests' = [requests EXCEPT ![q] = req]
      /\ staged' = [staged EXCEPT ![r] = row]
      /\ UNCHANGED <<grants, claims, lifecycle, broker, clock, bounds>>
  BY DEF BeginStaged, NewAttempt, Can_stage_node, stage_node
<1>2. plan \in Plan /\ plan # None /\ plan.node = n /\ plan.owner = o
  BY NoneIsNoRow DEF Plan
<1>3. run \in Run /\ run.state = "AwaitingApproval"
  BY DEF Run, RunState, LiveRunState
<1>4. row \in Staged /\ row # None /\ row.request = q /\ row.state = "awaiting_approval"
      /\ row.finished_at = None
  BY <1>0, NoneIsNoRow DEF Staged
<1>5. req \in RequestRow /\ req # None /\ req.run = r /\ req.decision = None
  BY <1>0, NoneIsNoRow, StagedLaunchAssumption DEF RequestRow
<1>6. node \in GraphNodeExecution /\ node.state = "AwaitingApproval" /\ node.owner = o
      /\ node.run_id = r
  BY DEF GraphNodeExecution, GraphNodeState
<1>7. /\ Append(attempts[n], r) \in Seq(RunId) /\ Append(attempts[n], r) # <<>>
      /\ Append(attempts[n], r)[Len(Append(attempts[n], r))] = r
  <2>1. attempts[n] \in Seq(RunId)
    BY <1>0 DEF TypeOK
  <2>2. QED
    BY <2>1, AppendProperties
<1> HIDE DEF plan, row, req, node
<1>8. TypeOK'
  <2> HIDE DEF run
  <2>1. QED
    BY <1>0, <1>1, <1>2, <1>3, <1>4, <1>5, <1>6, <1>7 DEF TypeOK, NodesType, bounds
<1>9. grants[q] = None
  BY <1>0, <1>1 DEF GrantOK
<1>10. RunOK(r)'
  <2>1. staged[r] = None /\ r \notin claims /\ broker[r] = "idle"
    BY <1>0, <1>1 DEF RunOK, ClaimOK
  <2>2. /\ runs'[r] = run /\ plans'[r] = plan /\ staged'[r] = row /\ requests'[q] = req
        /\ nodes'[n] = node /\ attempts'[n] = Append(attempts[n], r) /\ r \in unfinished'
        /\ grants'[q] = None /\ r \notin claims' /\ broker'[r] = "idle"
    BY <1>0, <1>1, <1>9, <2>1 DEF TypeOK, NodesType
  <2>3. Undispatched(r)'
    BY <1>4, <2>2 DEF Undispatched
  <2>4. validate_staged_context(r)'
    BY <1>2, <1>4, <1>5, <1>6, <1>7, <2>2, <2>3 DEF validate_staged_context, IsStagedAs
  <2>5. validate_decision_and_grant_state(r)'
    BY <1>4, <1>5, <2>2 DEF validate_decision_and_grant_state
  <2>6. StagedRowOK(r)'
    BY <1>4, <1>5, <2>2 DEF StagedRowOK
  <2>7. QED
    BY <1>2, <1>3, <1>4, <2>2, <2>3, <2>4, <2>5, <2>6 DEF RunOK, validate_staged_run
<1>11. ASSUME NEW s \in RunId \ {r} PROVE RunOK(s)'
  <2>1. Undispatched(s) => plans[s].node \in Node \ {n}
    BY <1>1, PendingIsOther
  <2>2. staged[s] # None => staged[s].request \in Request \ {q}
    <3>1. staged[s] # None => staged[s].request \in Request
      BY RowTypes DEF Staged
    <3>2. staged[s] # None => requests[staged[s].request] # None
      BY DEF LaunchInv, RunOK, StagedRowOK
    <3>3. QED
      BY <1>1, <3>1, <3>2
  <2>3. RunSame(s)
    BY <1>0, <1>1, <2>1, <2>2 DEF RunSame, TypeOK, NodesType
  <2>4. QED
    BY <2>3, RunFrame DEF LaunchInv
<1>12. ASSUME NEW p \in Request PROVE GrantOK(p)'
  <2>1. grants[p] # None => p # q
    BY <1>9
  <2>2. grants'[p] = grants[p] /\ (grants[p] # None => requests'[p] = requests[p])
    BY <1>0, <1>1, <2>1 DEF TypeOK
  <2>3. QED
    BY <2>2, GrantFrame DEF LaunchInv
<1>13. SettledStep
  BY <1>0, <1>1 DEF SettledStep, TypeOK, TerminalState
<1>14. QED
  BY <1>8, <1>10, <1>11, <1>12, <1>13 DEF LaunchInv

\* A transaction that does nothing but cancel the launches in R.
LEMMA SweepStep ==
  ASSUME LaunchInv, NEW R \in SUBSET RunId, \A r \in R : Undispatched(r),
         cancel_for_request(R), grants' = RevokedGrants(R),
         UNCHANGED <<attempts, plans, requests, claims, current, coherent, broker, clock, bounds>>,
         lifecycle' \in {"starting", "recovering", "ready", "suspended", "stopping"}
  PROVE  LaunchInv' /\ SettledStep
<1>1. TypeOK /\ NodesType(nodes)
  BY RowTypes DEF LaunchInv
<1>2. CancelTables(R, nodes, runs) /\ staged' = CancelledStaged(R)
  BY DEF CancelTables, cancel_for_request
<1>3. runs \in [RunId -> Run]
  BY <1>1 DEF TypeOK
<1>4. NodesType(nodes)
  BY <1>1
<1>5. /\ NodesType(nodes') /\ runs' \in [RunId -> Run]
      /\ grants' \in [Request -> Grant \cup {None}]
      /\ \A r \in R : RunOK(r)' /\ staged'[r] \in Staged
      /\ \A s \in RunId \ R : runs'[s] = runs[s]
      /\ \A s \in RunId \ R : runs[s] = runs[s] /\ staged'[s] = staged[s] => RunOK(s)'
      /\ \A q \in Request : GrantOK(q)'
      /\ \A q \in Request : grants[q] # None /\ ~Unspent(q) => grants'[q] = grants[q]
      /\ \A r \in R : runs[r].state \notin TerminalState
  BY <1>2, <1>3, <1>4, CancelAll
<1>6. \A s \in RunId \ R : staged'[s] = staged[s]
  BY <1>2 DEF CancelledStaged
<1>7. staged' = [r \in RunId |-> staged'[r]]
  BY <1>2 DEF CancelledStaged
<1>8. staged' \in [RunId -> Staged \cup {None}]
  <2>1. \A r \in RunId : staged'[r] \in Staged \cup {None}
    BY <1>1, <1>5, <1>6 DEF TypeOK
  <2>2. QED
    BY <1>7, <2>1
<1>9. TypeOK'
  BY <1>1, <1>5, <1>8 DEF TypeOK, NodesType, cancel_for_request, bounds
<1>10. SettledStep
  BY <1>5 DEF SettledStep
<1>11. QED
  BY <1>5, <1>6, <1>9, <1>10 DEF LaunchInv

\* cancel_staged_run, expire_staged_launches and mark_ready.
LEMMA CancelActions ==
  ASSUME LaunchInv, ExpireSweep \/ MarkReady \/ \E r \in RunId : CancelStagedRun(r)
  PROVE  LaunchInv' /\ SettledStep
<1>0. lifecycle \in {"starting", "recovering", "ready", "suspended", "stopping"}
  BY DEF LaunchInv, TypeOK
<1>1. Expired \in SUBSET RunId /\ \A r \in Expired : Undispatched(r)
  BY DEF Expired, Undispatched
<1>2. CASE ExpireSweep
  BY <1>0, <1>1, <1>2, SweepStep DEF ExpireSweep
<1>3. CASE MarkReady
  BY <1>0, <1>1, <1>3, SweepStep DEF MarkReady
<1>4. ASSUME NEW r \in RunId, CancelStagedRun(r)
      PROVE  LaunchInv' /\ SettledStep
  <2>1. {r} \in SUBSET RunId /\ \A s \in {r} : Undispatched(s)
    BY <1>4 DEF CancelStagedRun
  <2>2. QED
    BY <1>0, <1>4, <2>1, SweepStep DEF CancelStagedRun
<1>5. QED
  BY <1>2, <1>3, <1>4

\* A request that no staged launch has, or only the launch it names.
LEMMA RequestOfRun ==
  ASSUME LaunchInv, NEW q \in Request, requests[q] # None
  PROVE  /\ requests[q] \in RequestRow /\ requests[q].run \in RunId
         /\ \A s \in RunId : staged[s] # None /\ staged[s].request = q =>
               s = requests[q].run /\ IsStagedRequest(q)
<1>1. requests[q] \in RequestRow
  BY RowTypes
<1>2. \A s \in RunId : staged[s] # None => requests[staged[s].request].run = s
  BY DEF LaunchInv, RunOK, StagedRowOK
<1>3. QED
  BY <1>1, <1>2 DEF RequestRow, IsStagedRequest

\* An undecided request has no grant.
LEMMA UndecidedHasNoGrant ==
  ASSUME LaunchInv, NEW q \in Request, requests[q] = None \/ requests[q].decision = None
  PROVE  grants[q] = None
  BY StagedLaunchAssumption DEF LaunchInv, GrantOK

\* create_approval
LEMMA CreateApprovalStep ==
  ASSUME LaunchInv, NEW q \in Request, NEW r \in RunId, CreateApproval(q, r)
  PROVE  LaunchInv' /\ SettledStep
<1> DEFINE req == [run |-> r, created |-> clock, expires |-> clock + TTL,
                   decision |-> None, decided_at |-> None]
<1>0. TypeOK /\ clock \in Nat
  BY RowTypes DEF LaunchInv
<1>1. /\ requests[q] = None /\ requests' = [requests EXCEPT ![q] = req]
      /\ UNCHANGED <<nodes, attempts, unfinished, runs, plans, staged, grants, claims,
                     current, coherent, lifecycle, broker, clock, bounds>>
  BY DEF CreateApproval
<1>2. req \in RequestRow
  BY <1>0, StagedLaunchAssumption DEF RequestRow
<1> HIDE DEF req
<1>3. TypeOK'
  BY <1>0, <1>1, <1>2 DEF TypeOK, bounds
<1>4. grants[q] = None
  BY <1>1, UndecidedHasNoGrant
<1>5. ASSUME NEW s \in RunId PROVE RunOK(s)'
  <2>1. staged[s] # None => staged[s].request \in Request \ {q}
    <3>1. staged[s] # None => staged[s].request \in Request
      BY RowTypes DEF Staged
    <3>2. staged[s] # None => requests[staged[s].request] # None
      BY DEF LaunchInv, RunOK, StagedRowOK
    <3>3. QED
      BY <1>1, <3>1, <3>2
  <2>2. RunSame(s)
    BY <1>0, <1>1, <2>1 DEF RunSame, TypeOK
  <2>3. QED
    BY <2>2, RunFrame DEF LaunchInv
<1>6. ASSUME NEW p \in Request PROVE GrantOK(p)'
  <2>1. grants'[p] = grants[p] /\ (grants[p] # None => requests'[p] = requests[p])
    BY <1>0, <1>1, <1>4 DEF TypeOK
  <2>2. QED
    BY <2>1, GrantFrame DEF LaunchInv
<1>7. SettledStep
  BY <1>0, <1>1 DEF SettledStep, TypeOK
<1>8. QED
  BY <1>3, <1>5, <1>6, <1>7 DEF LaunchInv

\* consume_credential_grant never takes the grant of a staged launch.
LEMMA ConsumeGrantStep ==
  ASSUME LaunchInv, NEW q \in Request, ConsumeGrant(q)
  PROVE  LaunchInv' /\ SettledStep
<1>0. TypeOK /\ clock \in Nat /\ GrantOK(q)
  BY RowTypes DEF LaunchInv
<1>1. /\ Unspent(q) /\ ~IsStagedRequest(q) /\ clock >= grants[q].issued
      /\ grants' = [grants EXCEPT ![q].consumed = clock]
      /\ UNCHANGED <<nodes, attempts, unfinished, runs, plans, staged, requests, claims,
                     current, coherent, lifecycle, broker, clock, bounds>>
  BY DEF ConsumeGrant
<1>2. grants[q] \in Grant /\ requests[q] # None
  BY <1>0, <1>1, RowTypes DEF Unspent, GrantOK
<1>3. /\ [grants[q] EXCEPT !.consumed = clock] \in Grant
      /\ grants'[q] = [grants[q] EXCEPT !.consumed = clock]
      /\ \A p \in Request \ {q} : grants'[p] = grants[p]
  BY <1>0, <1>1, <1>2 DEF Grant, TypeOK
<1>4. TypeOK'
  <2>1. grants' = [grants EXCEPT ![q] = [grants[q] EXCEPT !.consumed = clock]]
    BY <1>1
  <2>2. QED
    BY <1>0, <1>1, <1>3, <2>1 DEF TypeOK, bounds
<1>5. ASSUME NEW s \in RunId PROVE RunOK(s)'
  <2>1. staged[s] # None => staged[s].request \in Request \ {q}
    BY <1>1, <1>2, RequestOfRun, RowTypes DEF Staged
  <2>2. RunSame(s)
    BY <1>1, <1>3, <2>1 DEF RunSame
  <2>3. QED
    BY <2>2, RunFrame DEF LaunchInv
<1>6. GrantOK(q)'
  <2>1. grants'[q].issued = grants[q].issued /\ grants'[q].consumed = clock
        /\ grants'[q].revoked = None
    BY <1>1, <1>2, <1>3 DEF Grant, Unspent
  <2>2. QED
    BY <1>0, <1>1, <2>1, StagedLaunchAssumption DEF GrantOK, Unspent
<1>7. \A p \in Request \ {q} : GrantOK(p)'
  BY <1>1, <1>3, GrantFrame DEF LaunchInv
<1>8. SettledStep
  BY <1>1, <1>3 DEF SettledStep
<1>9. QED
  BY <1>4, <1>5, <1>6, <1>7, <1>8 DEF LaunchInv

\* decide_approval with Approve.
LEMMA ApproveStep ==
  ASSUME LaunchInv, NEW q \in Request, Approve(q)
  PROVE  LaunchInv' /\ SettledStep
<1> DEFINE req == [requests[q] EXCEPT !.decision = "Approve", !.decided_at = clock]
           grant == [issued |-> clock, consumed |-> None, revoked |-> None]
<1>0. TypeOK /\ clock \in Nat
  BY RowTypes DEF LaunchInv
<1>1. /\ requests[q] # None /\ requests[q].decision = None
      /\ requests' = [requests EXCEPT ![q] = req]
      /\ grants' = [grants EXCEPT ![q] = grant]
      /\ UNCHANGED <<nodes, attempts, unfinished, runs, plans, claims, current, coherent, lifecycle,
                     broker, clock, bounds>>
  BY DEF Approve, Decidable
<1>2. PICK r \in RunId :
         /\ requests[q] \in RequestRow /\ requests[q].run = r
         /\ \A s \in RunId : staged[s] # None /\ staged[s].request = q =>
               s = r /\ IsStagedRequest(q)
  BY <1>1, RequestOfRun
<1>3. req \in RequestRow /\ req.run = r /\ req.decision = "Approve" /\ req.decided_at = clock
  BY <1>0, <1>2 DEF RequestRow
<1>4. grant \in Grant /\ grant.issued = clock /\ grant.consumed = None /\ grant.revoked = None
  BY <1>0 DEF Grant
<1>5. grants[q] = None
  BY <1>1, UndecidedHasNoGrant
<1>6. req # None /\ grant # None
  BY <1>3, <1>4, NoneIsNoRow
<1>7. /\ requests'[q] = req /\ grants'[q] = grant
      /\ \A p \in Request \ {q} : requests'[p] = requests[p] /\ grants'[p] = grants[p]
  BY <1>0, <1>1 DEF TypeOK
<1> HIDE DEF req
<1>8. /\ requests' \in [Request -> RequestRow \cup {None}]
      /\ grants' \in [Request -> Grant \cup {None}]
  <2> HIDE DEF grant
  <2>1. QED
    BY <1>0, <1>1, <1>3, <1>4 DEF TypeOK
<1>9. ASSUME NEW p \in Request PROVE GrantOK(p)'
  <2>1. CASE p = q
    BY <1>3, <1>4, <1>6, <1>7, <2>1 DEF GrantOK
  <2>2. CASE p # q
    BY <1>7, <2>2, GrantFrame DEF LaunchInv
  <2>3. QED
    BY <2>1, <2>2
<1>10. SettledStep
  BY <1>1, <1>5, <1>7 DEF SettledStep
<1>11. ASSUME NEW s \in RunId, staged[s] # None => staged[s].request # q, staged'[s] = staged[s]
       PROVE  RunOK(s)'
  <2>1. staged[s] # None => staged[s].request \in Request \ {q}
    BY <1>11, RowTypes DEF Staged
  <2>2. RunSame(s)
    BY <1>1, <1>7, <1>11, <2>1 DEF RunSame
  <2>3. QED
    BY <2>2, RunFrame DEF LaunchInv
<1>12. CASE ~IsStagedRequest(q)
  <2>1. UNCHANGED staged
    BY <1>12 DEF Approve
  <2>2. \A s \in RunId : RunOK(s)'
    BY <1>2, <1>11, <1>12, <2>1
  <2>3. TypeOK'
    BY <1>0, <1>1, <1>8, <2>1 DEF TypeOK, bounds
  <2>4. QED
    BY <1>9, <1>10, <2>2, <2>3 DEF LaunchInv
<1>13. CASE IsStagedRequest(q)
  <2> DEFINE row == [staged[r] EXCEPT !.state = "ready"]
  <2>1. /\ staged[r].state = "awaiting_approval" /\ staged[r] # None /\ staged[r].request = q
        /\ validate_staged_context(r) /\ staged' = [staged EXCEPT ![r] = row]
    BY <1>2, <1>13 DEF Approve, IsStagedRequest
  <2>2. Undispatched(r)
    BY <2>1 DEF Undispatched
  <2>3. staged[r] \in Staged /\ r \notin claims /\ broker[r] = "idle"
    BY <1>2, <2>2, WaitingFacts
  <2>4. /\ row \in Staged /\ row.state = "ready" /\ row.request = q
        /\ row.finished_at = staged[r].finished_at /\ row.staged_at = staged[r].staged_at
    BY <2>1, <2>3 DEF Staged
  <2>5. row # None
    BY <2>4, NoneIsNoRow
  <2>6. staged'[r] = row /\ \A s \in RunId \ {r} : staged'[s] = staged[s]
    BY <1>0, <1>2, <2>1 DEF TypeOK
  <2> HIDE DEF row
  <2>7. TypeOK'
    <3>1. staged' \in [RunId -> Staged \cup {None}]
      BY <1>0, <2>1, <2>4 DEF TypeOK
    <3>2. QED
      BY <1>0, <1>1, <1>8, <3>1 DEF TypeOK, bounds
  <2>8. RunOK(r)'
    <3>1. RunOK(r)
      BY <1>2 DEF LaunchInv
    <3>2. Undispatched(r)'
      BY <2>4, <2>5, <2>6 DEF Undispatched
    <3>3. validate_staged_context(r)'
      BY <1>1, <1>3, <1>6, <1>7, <2>1, <2>4, <2>6, <3>2 DEF validate_staged_context, IsStagedAs
    <3>4. validate_decision_and_grant_state(r)'
      BY <1>3, <1>7, <2>4, <2>6 DEF validate_decision_and_grant_state
    <3>5. staged[r].finished_at = None
      BY <2>1 DEF validate_staged_context
    <3>6. StagedRowOK(r)'
      BY <1>1, <1>3, <1>4, <1>6, <1>7, <2>3, <2>4, <2>6, <3>5 DEF StagedRowOK
    <3>7. QED
      BY <1>1, <2>2, <2>3, <2>4, <2>6, <3>1, <3>2, <3>3, <3>4, <3>6
      DEF RunOK, validate_staged_run
  <2>9. \A s \in RunId \ {r} : RunOK(s)'
    BY <1>2, <1>11, <2>6
  <2>10. QED
    BY <1>9, <1>10, <2>7, <2>8, <2>9 DEF LaunchInv
<1>14. QED
  BY <1>12, <1>13

\* One launch is closed by a decision or a revocation of its own request.
LEMMA CloseOne ==
  ASSUME LaunchInv, NEW r \in RunId, Undispatched(r), cancel_for_request({r}),
         UNCHANGED <<attempts, plans, claims, broker>>,
         \A p \in Request \ {staged[r].request} :
            requests'[p] = requests[p] /\ grants'[p] = grants[p],
         requests'[staged[r].request] # None, requests'[staged[r].request].run = r,
         grants'[staged[r].request] # None =>
            /\ grants'[staged[r].request].consumed = None
            /\ grants'[staged[r].request].revoked # None
  PROVE  /\ NodesType(nodes') /\ runs' \in [RunId -> Run] /\ unfinished' \subseteq RunId
         /\ staged' \in [RunId -> Staged \cup {None}]
         /\ \A s \in RunId : RunOK(s)'
         /\ \A s \in RunId : runs[s].state \in TerminalState => runs'[s] = runs[s]
<1>0. TypeOK /\ NodesType(nodes) /\ clock \in Nat
  BY RowTypes DEF LaunchInv
<1>1. /\ plans[r] \in Plan /\ staged[r] \in Staged /\ staged[r].request \in Request
      /\ runs[r] = [state |-> "AwaitingApproval", started |-> FALSE, finished |-> FALSE]
  BY WaitingFacts
<1>2. /\ nodes' = CancelledNodes(nodes, {r}) /\ runs' = CancelledRuns(runs, {r})
      /\ unfinished' = unfinished \ {r} /\ staged' = CancelledStaged({r})
  BY DEF cancel_for_request
<1>3. NodesType(nodes')
  <2>1. NodesType(nodes) /\ {r} \in SUBSET RunId /\ \A s \in {r} : plans[s].node \in Node
    BY <1>0, <1>1 DEF Plan
  <2>2. QED
    BY <1>2, <2>1, CancelKeeps
<1> DEFINE done == [state |-> "Cancelled", started |-> FALSE, finished |-> TRUE]
           row == [staged[r] EXCEPT !.state = "cancelled", !.finished_at = CancelTime(r)]
<1>4. done \in Run /\ row \in Staged
  BY <1>0, <1>1 DEF Run, RunState, TerminalState, Staged, CancelTime, Later
<1>5. [runs[r] EXCEPT !.state = "Cancelled", !.finished = TRUE] = done
  <2>1. runs[r] \in Run /\ runs[r].started = FALSE
    <3>1. runs[r] \in Run
      BY <1>0 DEF TypeOK
    <3>2. QED
      BY <1>1, <3>1
  <2>2. QED
    BY <2>1, CancelledRecord
<1>6. runs' = [s \in RunId |-> IF s = r THEN done ELSE runs[s]]
  BY <1>2, <1>5 DEF CancelledRuns
<1>7. staged' = [s \in RunId |-> IF s = r THEN row ELSE staged[s]]
  BY <1>2 DEF CancelledStaged
<1> HIDE DEF row
<1>8. /\ runs' \in [RunId -> Run] /\ staged' \in [RunId -> Staged \cup {None}]
      /\ runs'[r] = done /\ staged'[r] = row
      /\ \A s \in RunId \ {r} : runs'[s] = runs[s] /\ staged'[s] = staged[s]
  <2> HIDE DEF done
  <2>1. QED
    BY <1>0, <1>4, <1>6, <1>7 DEF TypeOK
<1>9. RunOK(r)'
  BY <1>2, <1>8, CancelledRunOK DEF row
<1>10. ASSUME NEW s \in RunId \ {r} PROVE RunOK(s)'
  <2>1. Undispatched(s) => nodes'[plans[s].node] = nodes[plans[s].node]
    <3>1. NodesType(nodes) /\ {r} \in SUBSET RunId /\ s \in RunId \ {r}
      BY <1>0
    <3>2. \A p \in {r} : Undispatched(p)
      OBVIOUS
    <3>3. QED
      BY <1>2, <3>1, <3>2, OthersKeepNode
  <2>2. staged[s] # None => staged[s].request \in Request \ {staged[r].request}
    BY RequestsDiffer, RowTypes DEF Staged, Undispatched
  <2>3. RunSame(s)
    BY <1>2, <1>8, <2>1, <2>2 DEF RunSame
  <2>4. QED
    BY <2>3, RunFrame DEF LaunchInv
<1>11. \A s \in RunId : runs[s].state \in TerminalState => runs'[s] = runs[s]
  BY <1>1, <1>8 DEF TerminalState
<1>12. unfinished' \subseteq RunId
  BY <1>0, <1>2 DEF TypeOK
<1>13. QED
  BY <1>3, <1>8, <1>9, <1>10, <1>11, <1>12

\* decide_approval with Deny.
LEMMA DenyStep ==
  ASSUME LaunchInv, NEW q \in Request, Deny(q)
  PROVE  LaunchInv' /\ SettledStep
<1> DEFINE req == [requests[q] EXCEPT !.decision = "Deny", !.decided_at = clock]
<1>0. TypeOK /\ clock \in Nat
  BY RowTypes DEF LaunchInv
<1>1. /\ requests[q] # None /\ requests[q].decision = None
      /\ requests' = [requests EXCEPT ![q] = req]
      /\ UNCHANGED <<attempts, plans, grants, claims, current, coherent, lifecycle, broker, clock, bounds>>
  BY DEF Deny, Decidable
<1>2. PICK r \in RunId :
         /\ requests[q] \in RequestRow /\ requests[q].run = r
         /\ \A s \in RunId : staged[s] # None /\ staged[s].request = q =>
               s = r /\ IsStagedRequest(q)
  BY <1>1, RequestOfRun
<1>3. req \in RequestRow /\ req.run = r
  BY <1>0, <1>2 DEF RequestRow
<1>4. req # None /\ grants[q] = None
  BY <1>1, <1>3, UndecidedHasNoGrant, NoneIsNoRow
<1>5. requests'[q] = req /\ \A p \in Request \ {q} : requests'[p] = requests[p]
  BY <1>0, <1>1 DEF TypeOK
<1> HIDE DEF req
<1>6. requests' \in [Request -> RequestRow \cup {None}]
  BY <1>0, <1>1, <1>3 DEF TypeOK
<1>7. ASSUME NEW p \in Request PROVE GrantOK(p)'
  <2>1. grants'[p] = grants[p] /\ (grants[p] # None => requests'[p] = requests[p])
    BY <1>1, <1>4, <1>5
  <2>2. QED
    BY <2>1, GrantFrame DEF LaunchInv
<1>8. /\ \A p \in Request : requests[p] # None /\ requests[p].decision # None =>
            requests'[p] = requests[p]
      /\ \A p \in Request : grants'[p] = grants[p]
      /\ claims' = claims
  BY <1>1, <1>5
<1>9. CASE ~IsStagedRequest(q)
  <2>1. UNCHANGED <<nodes, runs, unfinished, staged>>
    BY <1>9 DEF Deny
  <2>2. ASSUME NEW s \in RunId PROVE RunOK(s)'
    <3>1. staged[s] # None => staged[s].request \in Request \ {q}
      BY <1>2, <1>9, RowTypes DEF Staged
    <3>2. RunSame(s)
      BY <1>1, <1>5, <2>1, <3>1 DEF RunSame
    <3>3. QED
      BY <3>2, RunFrame DEF LaunchInv
  <2>3. TypeOK'
    BY <1>0, <1>1, <1>6, <2>1 DEF TypeOK, bounds
  <2>4. QED
    BY <1>7, <1>8, <2>1, <2>2, <2>3 DEF LaunchInv, SettledStep
<1>10. CASE IsStagedRequest(q)
  <2>1. /\ staged[r] # None /\ staged[r].request = q /\ staged[r].state = "awaiting_approval"
        /\ cancel_for_request({r})
    BY <1>2, <1>10 DEF Deny, IsStagedRequest
  <2>2. Undispatched(r)
    BY <2>1 DEF Undispatched
  <2>3. /\ NodesType(nodes') /\ runs' \in [RunId -> Run] /\ unfinished' \subseteq RunId
        /\ staged' \in [RunId -> Staged \cup {None}]
        /\ \A s \in RunId : RunOK(s)'
        /\ \A s \in RunId : runs[s].state \in TerminalState => runs'[s] = runs[s]
    BY <1>1, <1>3, <1>4, <1>5, <2>1, <2>2, CloseOne
  <2>4. TypeOK'
    BY <1>0, <1>1, <1>6, <2>3 DEF TypeOK, NodesType, bounds
  <2>5. QED
    BY <1>7, <1>8, <2>3, <2>4 DEF LaunchInv, SettledStep
<1>11. QED
  BY <1>9, <1>10

\* revoke_credential_grant
LEMMA RevokeGrantStep ==
  ASSUME LaunchInv, NEW q \in Request, RevokeGrant(q)
  PROVE  LaunchInv' /\ SettledStep
<1> DEFINE grant == [grants[q] EXCEPT !.revoked = clock]
<1>0. TypeOK /\ clock \in Nat /\ GrantOK(q)
  BY RowTypes DEF LaunchInv
<1>1. /\ Unspent(q) /\ clock >= grants[q].issued
      /\ grants' = [grants EXCEPT ![q] = grant]
      /\ UNCHANGED <<attempts, plans, requests, claims, current, coherent, lifecycle, broker, clock, bounds>>
  BY DEF RevokeGrant
<1>2. grants[q] \in Grant /\ requests[q] # None
  BY <1>0, <1>1, RowTypes DEF Unspent, GrantOK
<1>3. PICK r \in RunId :
         /\ requests[q].run = r
         /\ \A s \in RunId : staged[s] # None /\ staged[s].request = q =>
               s = r /\ IsStagedRequest(q)
  BY <1>2, RequestOfRun
<1>4. /\ grant \in Grant /\ grant.issued = grants[q].issued
      /\ grant.consumed = None /\ grant.revoked = clock
  BY <1>0, <1>1, <1>2 DEF Grant, Unspent
<1>5. grants'[q] = grant /\ \A p \in Request \ {q} : grants'[p] = grants[p]
  BY <1>0, <1>1 DEF TypeOK
<1> HIDE DEF grant
<1>6. grants' \in [Request -> Grant \cup {None}] /\ clock # None
  BY <1>0, <1>1, <1>4, StagedLaunchAssumption DEF TypeOK
<1>7. ASSUME NEW p \in Request PROVE GrantOK(p)'
  <2>1. CASE p = q
    BY <1>0, <1>1, <1>2, <1>4, <1>5, <2>1 DEF GrantOK, Unspent
  <2>2. CASE p # q
    BY <1>1, <1>5, <2>2, GrantFrame DEF LaunchInv
  <2>3. QED
    BY <2>1, <2>2
<1>8. /\ \A p \in Request : grants[p] # None /\ ~Unspent(p) => grants'[p] = grants[p]
      /\ requests' = requests /\ claims' = claims
  BY <1>1, <1>5
<1>9. CASE ~IsStagedRequest(q)
  <2>1. UNCHANGED <<nodes, runs, unfinished, staged>>
    BY <1>9 DEF RevokeGrant
  <2>2. ASSUME NEW s \in RunId PROVE RunOK(s)'
    <3>1. staged[s] # None => staged[s].request \in Request \ {q}
      BY <1>3, <1>9, RowTypes DEF Staged
    <3>2. RunSame(s)
      BY <1>1, <1>5, <2>1, <3>1 DEF RunSame
    <3>3. QED
      BY <3>2, RunFrame DEF LaunchInv
  <2>3. TypeOK'
    BY <1>0, <1>1, <1>6, <2>1 DEF TypeOK, bounds
  <2>4. QED
    BY <1>7, <1>8, <2>1, <2>2, <2>3 DEF LaunchInv, SettledStep
<1>10. CASE IsStagedRequest(q)
  <2>1. staged[r] # None /\ staged[r].request = q
    BY <1>3, <1>10 DEF IsStagedRequest
  <2>2. staged[r].state # "cancelled"
    BY <1>1, <2>1 DEF LaunchInv, RunOK, StagedRowOK
  <2>3. cancel_for_request({r})
    BY <1>3, <1>10, <2>2 DEF RevokeGrant
  <2>4. Undispatched(r)
    BY <2>3 DEF cancel_for_request, Can_cancel, validate_staged_context
  <2>5. requests'[q] # None /\ requests'[q].run = r
    BY <1>1, <1>2, <1>3
  <2>6. /\ NodesType(nodes') /\ runs' \in [RunId -> Run] /\ unfinished' \subseteq RunId
        /\ staged' \in [RunId -> Staged \cup {None}]
        /\ \A s \in RunId : RunOK(s)'
        /\ \A s \in RunId : runs[s].state \in TerminalState => runs'[s] = runs[s]
    BY <1>1, <1>4, <1>5, <1>6, <2>1, <2>3, <2>4, <2>5, CloseOne
  <2>7. TypeOK'
    BY <1>0, <1>1, <1>6, <2>6 DEF TypeOK, NodesType, bounds
  <2>8. QED
    BY <1>7, <1>8, <2>6, <2>7 DEF LaunchInv, SettledStep
<1>11. QED
  BY <1>9, <1>10

-----------------------------------------------------------------------------
(* From the claim on.                                                      *)

\* claim_staged_dispatch
LEMMA ClaimDispatchStep ==
  ASSUME LaunchInv, NEW r \in RunId, ClaimDispatch(r)
  PROVE  LaunchInv' /\ SettledStep
<1>0. TypeOK /\ NodesType(nodes) /\ clock \in Nat /\ RunOK(r)
  BY RowTypes DEF LaunchInv
<1>1. Undispatched(r) /\ validate_decision_and_grant_state(r) /\ staged[r].state = "ready"
  BY DEF ClaimDispatch, validate_staged_run, validate_staged_context
<1>2. /\ staged[r] \in Staged /\ plans[r] \in Plan /\ staged[r].request \in Request
      /\ runs[r] = [state |-> "AwaitingApproval", started |-> FALSE, finished |-> FALSE]
      /\ nodes[plans[r].node].run_id = r /\ r \notin claims
  BY <1>1, WaitingFacts
<1>3. PICK q \in Request : staged[r].request = q
  BY <1>2
<1>4. PICK n \in Node : plans[r].node = n
  BY <1>2 DEF Plan
<1> DEFINE node == [nodes[n] EXCEPT !.state = "Running"]
           run == [runs[r] EXCEPT !.state = "Starting", !.started = TRUE]
           row == [staged[r] EXCEPT !.state = "dispatching"]
           grant == [grants[q] EXCEPT !.consumed = clock]
<1>5. /\ nodes' = [nodes EXCEPT ![n] = node]
      /\ runs' = [runs EXCEPT ![r] = run]
      /\ grants' = [grants EXCEPT ![q] = grant]
      /\ staged' = [staged EXCEPT ![r] = row]
      /\ claims' = claims \cup {r}
      /\ broker' = [broker EXCEPT ![r] = "reading"]
      /\ Unspent(q) /\ validate_time(q) /\ grants[q].issued <= clock
      /\ UNCHANGED <<attempts, unfinished, plans, requests, current, coherent, lifecycle, clock, bounds>>
  BY <1>3, <1>4 DEF ClaimDispatch, activate_staged_node
<1>6. /\ grants[q] \in Grant /\ GrantOK(q)
      /\ requests[q] # None /\ requests[q].run = r /\ requests[q] \in RequestRow
  BY <1>0, <1>1, <1>3, <1>5, RowTypes DEF LaunchInv, Unspent, RunOK, StagedRowOK, Undispatched
<1>7. node \in GraphNodeExecution
  BY <1>0 DEF NodesType, GraphNodeExecution, GraphNodeState
<1>8. run \in Run /\ run.state = "Starting" /\ run.started = TRUE
  <2>1. runs[r] \in Run
    BY <1>0 DEF TypeOK
  <2>2. QED
    BY <2>1 DEF Run, RunState, LiveRunState
<1>9. /\ row \in Staged /\ row.state = "dispatching" /\ row.request = q
      /\ row.finished_at = staged[r].finished_at
  BY <1>2, <1>3 DEF Staged
<1>10. /\ grant \in Grant /\ grant.issued = grants[q].issued
       /\ grant.consumed = clock /\ grant.revoked = None
  BY <1>0, <1>5, <1>6 DEF Grant, Unspent
<1>11. row # None /\ grant # None /\ clock # None /\ plans[r] # None
  BY <1>0, <1>2, <1>9, <1>10, NoneIsNoRow, StagedLaunchAssumption
<1> HIDE DEF node, run, row, grant
<1>12. TypeOK'
  BY <1>0, <1>5, <1>7, <1>8, <1>9, <1>10 DEF TypeOK, NodesType, bounds
<1>13. /\ runs'[r] = run /\ staged'[r] = row /\ grants'[q] = grant
       /\ \A s \in RunId \ {r} : /\ runs'[s] = runs[s] /\ staged'[s] = staged[s]
                                 /\ broker'[s] = broker[s]
       /\ \A p \in Request \ {q} : grants'[p] = grants[p]
       /\ \A m \in Node \ {n} : nodes'[m] = nodes[m]
  BY <1>0, <1>5 DEF TypeOK
<1>14. RunOK(r)'
  <2>1. requests[q].decision = "Approve"
    BY <1>1, <1>3 DEF validate_decision_and_grant_state
  <2>2. ClaimOK(r)'
    <3>1. clock \in grants[q].issued..(requests[q].expires - 1)
      BY <1>0, <1>5, <1>6 DEF validate_time, Grant, RequestRow
    <3>2. QED
      BY <1>5, <1>8, <1>9, <1>10, <1>11, <1>13, <2>1, <3>1 DEF ClaimOK
  <2>3. staged[r].finished_at = None
    BY <1>0, <1>1 DEF RunOK, StagedRowOK, Undispatched
  <2>4. StagedRowOK(r)'
    BY <1>5, <1>6, <1>9, <1>10, <1>11, <1>13, <2>3 DEF StagedRowOK
  <2>5. ~Undispatched(r)' /\ r \in claims' /\ runs'[r].state = "Starting" /\ plans'[r] # None
    BY <1>5, <1>8, <1>9, <1>11, <1>13 DEF Undispatched
  <2>6. QED
    BY <2>2, <2>4, <2>5 DEF RunOK
<1>15. ASSUME NEW s \in RunId \ {r} PROVE RunOK(s)'
  <2>1. Undispatched(s) => plans[s].node \in Node \ {n}
    BY <1>2, <1>4, WaitingFacts DEF Plan
  <2>2. staged[s] # None => staged[s].request \in Request \ {q}
    BY <1>1, <1>3, RequestsDiffer, RowTypes DEF Staged, Undispatched
  <2>3. RunSame(s)
    BY <1>5, <1>13, <2>1, <2>2 DEF RunSame
  <2>4. QED
    BY <2>3, RunFrame DEF LaunchInv
<1>16. ASSUME NEW p \in Request PROVE GrantOK(p)'
  <2>1. CASE p = q
    BY <1>5, <1>6, <1>10, <1>13, <2>1 DEF GrantOK, Unspent
  <2>2. CASE p # q
    BY <1>5, <1>13, <2>2, GrantFrame DEF LaunchInv
  <2>3. QED
    BY <2>1, <2>2
<1>17. SettledStep
  BY <1>2, <1>5, <1>13 DEF SettledStep, TerminalState
<1>18. QED
  BY <1>12, <1>14, <1>15, <1>16, <1>17 DEF LaunchInv

\* A run that no longer waits may end, its claim may become uncertain and its
\* broker may stop: nothing the invariant says of it is lost.
LEMMA MovedOn ==
  ASSUME LaunchInv, NEW r \in RunId, ~Undispatched(r),
         \/ runs'[r] = runs[r]
         \/ /\ runs[r].state \in LiveRunState /\ runs'[r].state \in TerminalState
            /\ runs'[r].started = runs[r].started,
         \/ staged'[r] = staged[r]
         \/ /\ staged[r] # None /\ staged[r].state = "dispatching"
            /\ staged'[r] = [staged[r] EXCEPT !.state = "uncertain"],
         plans'[r] = plans[r], claims' = claims, r \in unfinished' => r \in unfinished,
         broker'[r] # "idle" => broker[r] # "idle",
         UNCHANGED requests,
         staged[r] # None => grants'[staged[r].request] = grants[staged[r].request]
  PROVE  RunOK(r)'
<1>1. RunOK(r)
  BY DEF LaunchInv
<1>2. runs'[r].state # "AwaitingApproval" /\ (runs'[r].state = "Absent" <=> runs[r].state = "Absent")
  BY <1>1 DEF RunOK, LiveRunState, TerminalState
<1>3. /\ staged'[r] # None <=> staged[r] # None
      /\ staged[r] # None =>
           /\ staged'[r].request = staged[r].request
           /\ staged'[r].finished_at = staged[r].finished_at
           /\ staged'[r].staged_at = staged[r].staged_at
           /\ \/ staged'[r].state = staged[r].state
              \/ staged[r].state = "dispatching" /\ staged'[r].state = "uncertain"
  <2>1. CASE staged'[r] = staged[r]
    BY <2>1
  <2>2. CASE /\ staged[r] # None /\ staged[r].state = "dispatching"
             /\ staged'[r] = [staged[r] EXCEPT !.state = "uncertain"]
    <3>1. staged[r] \in Staged
      BY <2>2, RowTypes
    <3>2. staged'[r] \in Staged
      BY <2>2, <3>1 DEF Staged
    <3>3. QED
      BY <2>2, <3>1, <3>2, NoneIsNoRow DEF Staged
  <2>3. QED
    BY <2>1, <2>2
<1>4. ~Undispatched(r)'
  BY <1>3 DEF Undispatched
<1>5. staged[r] # None /\ staged[r].state = "cancelled" => runs'[r] = runs[r]
  BY <1>1 DEF RunOK, StagedRowOK, LiveRunState
<1>6. (staged[r] # None => StagedRowOK(r))'
  BY <1>1, <1>3, <1>5 DEF RunOK, StagedRowOK, Unspent
<1>7. (r \in claims => ClaimOK(r))'
  BY <1>1, <1>3 DEF RunOK, ClaimOK
<1>8. QED
  BY <1>1, <1>2, <1>3, <1>4, <1>6, <1>7 DEF RunOK

\* A waiting launch is not at the node where a run is being finished.
LEMMA RunningIsOther ==
  ASSUME LaunchInv, NEW n \in Node, nodes[n].state # "AwaitingApproval",
         NEW N, \A m \in Node \ {n} : nodes[m].state # "Pending" => N[m] = nodes[m],
         NEW s \in RunId, Undispatched(s)
  PROVE  N[plans[s].node] = nodes[plans[s].node]
<1>1. plans[s] \in Plan /\ nodes[plans[s].node].state = "AwaitingApproval"
  BY WaitingFacts
<1>2. plans[s].node \in Node \ {n}
  BY <1>1 DEF Plan
<1>3. QED
  BY <1>1, <1>2

\* fail_dispatch_claim, also when somebody else ended the run first.
LEMMA FailDispatchStep ==
  ASSUME LaunchInv, NEW r \in RunId, FailDispatchClaim(r)
  PROVE  LaunchInv' /\ SettledStep
<1>0. TypeOK /\ NodesType(nodes) /\ RunOK(r)
  BY RowTypes DEF LaunchInv
<1>1. /\ broker' = [broker EXCEPT ![r] = "idle"]
      /\ UNCHANGED <<attempts, unfinished, plans, requests, grants, claims, current, coherent,
                     lifecycle, clock, bounds>>
  BY DEF FailDispatchClaim
<1>2. \A s \in RunId : broker'[s] # "idle" => broker[s] # "idle"
  BY <1>0, <1>1 DEF TypeOK
<1>3. r \in claims /\ ClaimOK(r) /\ ~Undispatched(r)
  BY <1>0 DEF FailDispatchClaim, RunOK, ClaimOK, Undispatched
<1>4. \A q \in Request : GrantOK(q)'
  BY <1>1, GrantFrame DEF LaunchInv
<1>5. CASE ~Can_fail_dispatch_claim(r)
  <2>1. UNCHANGED <<nodes, runs, staged>>
    BY <1>5 DEF FailDispatchClaim
  <2>2. TypeOK'
    BY <1>0, <1>1, <2>1 DEF TypeOK, bounds
  <2>3. \A s \in RunId : RunSame(s)
    BY <1>1, <1>2, <2>1 DEF RunSame
  <2>4. \A s \in RunId : RunOK(s)'
    BY <2>3, RunFrame DEF LaunchInv
  <2>5. QED
    BY <1>1, <1>4, <2>1, <2>2, <2>4 DEF LaunchInv, SettledStep
<1>6. CASE Can_fail_dispatch_claim(r)
  <2>1. plans[r] \in Plan
    BY <1>6, RowTypes DEF Can_fail_dispatch_claim
  <2>2. PICK n \in Node, o \in Owner : plans[r].node = n /\ plans[r].owner = o
    BY <2>1 DEF Plan
  <2> DEFINE run == [runs[r] EXCEPT !.state = "Uncertain"]
             row == [staged[r] EXCEPT !.state = "uncertain"]
  <2>3. /\ nodes' = finish_terminal(nodes, n, o, "Uncertain", None)
        /\ runs' = [runs EXCEPT ![r] = run]
        /\ staged' = [staged EXCEPT ![r] = row]
        /\ runs[r].state = "Starting" /\ staged[r].state = "dispatching"
        /\ nodes[n].state = "Running"
    BY <1>6, <2>2 DEF FailDispatchClaim, Can_fail_dispatch_claim, IsRunningFor
  <2>4. /\ NodesType(nodes')
        /\ \A m \in Node \ {n} : nodes[m].state # "Pending" => nodes'[m] = nodes[m]
    <3>1. NodesType(nodes) /\ "Uncertain" \in TerminalState
      BY <1>0 DEF TerminalState
    <3>2. QED
      BY <2>3, <3>1, FinishKeeps
  <2>5. run \in Run /\ run.state = "Uncertain" /\ run.started = runs[r].started
    <3>1. runs[r] \in Run
      BY <1>0 DEF TypeOK
    <3>2. QED
      BY <3>1 DEF Run, RunState, TerminalState
  <2>6. staged[r] # None /\ staged[r] \in Staged /\ row \in Staged
    <3>1. staged[r] # None /\ staged[r] \in Staged
      BY <1>3, RowTypes DEF ClaimOK
    <3>2. QED
      BY <3>1 DEF Staged
  <2> HIDE DEF run
  <2>7. TypeOK'
    <3> HIDE DEF row
    <3>1. broker' \in [RunId -> {"idle", "reading", "prepared"}]
      BY <1>0, <1>1 DEF TypeOK
    <3>2. QED
      BY <1>0, <1>1, <2>3, <2>4, <2>5, <2>6, <3>1 DEF TypeOK, NodesType, bounds
  <2>8. /\ runs'[r] = run /\ staged'[r] = row
        /\ \A s \in RunId \ {r} : runs'[s] = runs[s] /\ staged'[s] = staged[s]
    BY <1>0, <2>3 DEF TypeOK
  <2>9. RunOK(r)'
    <3>1. runs[r].state \in LiveRunState /\ runs'[r].state \in TerminalState
      BY <2>3, <2>5, <2>8 DEF LiveRunState, TerminalState
    <3>2. QED
      BY <1>1, <1>2, <1>3, <2>3, <2>5, <2>6, <2>8, <3>1, MovedOn
  <2>10. ASSUME NEW s \in RunId \ {r} PROVE RunOK(s)'
    <3>1. Undispatched(s) => nodes'[plans[s].node] = nodes[plans[s].node]
      BY <2>3, <2>4, RunningIsOther
    <3>2. RunSame(s)
      BY <1>1, <1>2, <2>8, <3>1 DEF RunSame
    <3>3. QED
      BY <3>2, RunFrame DEF LaunchInv
  <2>11. SettledStep
    BY <1>1, <2>3, <2>8 DEF SettledStep, TerminalState
  <2>12. QED
    BY <1>4, <2>7, <2>9, <2>10, <2>11 DEF LaunchInv
<1>7. QED
  BY <1>5, <1>6

\* finish_graph_node_run
LEMMA FinishRunStep ==
  ASSUME LaunchInv, NEW r \in RunId, NEW t \in TerminalState, FinishRun(r, t)
  PROVE  LaunchInv' /\ SettledStep
<1>0. TypeOK /\ NodesType(nodes) /\ RunOK(r)
  BY RowTypes DEF LaunchInv
<1>1. runs[r].state \in LiveRunState
  BY DEF FinishRun
<1>2. plans[r] \in Plan
  BY <1>1, RowTypes DEF LiveRunState
<1>3. PICK n \in Node, o \in Owner : plans[r].node = n /\ plans[r].owner = o
  BY <1>2 DEF Plan
<1> DEFINE run == [runs[r] EXCEPT !.state = t, !.finished = TRUE]
<1>4. /\ nodes' = finish_terminal(nodes, n, o, t, None) /\ nodes[n].state = "Running"
      /\ runs' = [runs EXCEPT ![r] = run]
      /\ unfinished' = unfinished \ {r}
      /\ UNCHANGED <<attempts, plans, staged, requests, grants, claims, current, coherent, lifecycle,
                     broker, clock, bounds>>
  BY <1>3 DEF FinishRun, IsRunningFor
<1>5. /\ NodesType(nodes')
      /\ \A m \in Node \ {n} : nodes[m].state # "Pending" => nodes'[m] = nodes[m]
  <2>1. NodesType(nodes)
    BY <1>0
  <2>2. QED
    BY <1>4, <2>1, FinishKeeps
<1>6. run \in Run /\ run.state = t /\ run.started = runs[r].started
  <2>1. runs[r] \in Run /\ t \in RunState
    BY <1>0 DEF TypeOK, RunState
  <2>2. QED
    BY <2>1 DEF Run
<1> HIDE DEF run
<1>7. TypeOK'
  BY <1>0, <1>4, <1>5, <1>6 DEF TypeOK, NodesType, bounds
<1>8. runs'[r] = run /\ \A s \in RunId \ {r} : runs'[s] = runs[s]
  BY <1>0, <1>4 DEF TypeOK
<1>9. RunOK(r)'
  <2>1. ~Undispatched(r)
    BY <1>0, <1>1 DEF RunOK, LiveRunState
  <2>2. QED
    BY <1>1, <1>4, <1>6, <1>8, <2>1, MovedOn
<1>10. ASSUME NEW s \in RunId \ {r} PROVE RunOK(s)'
  <2>1. Undispatched(s) => nodes'[plans[s].node] = nodes[plans[s].node]
    BY <1>4, <1>5, RunningIsOther
  <2>2. RunSame(s)
    BY <1>4, <1>8, <2>1 DEF RunSame
  <2>3. QED
    BY <2>2, RunFrame DEF LaunchInv
<1>11. \A q \in Request : GrantOK(q)'
  BY <1>4, GrantFrame DEF LaunchInv
<1>12. SettledStep
  BY <1>1, <1>4, <1>8 DEF SettledStep, TerminalState, LiveRunState
<1>13. QED
  BY <1>7, <1>9, <1>10, <1>11, <1>12 DEF LaunchInv

\* retry_failed_graph_node
LEMMA RetryStep ==
  ASSUME LaunchInv, NEW n \in Node, RetryFailed(n)
  PROVE  LaunchInv' /\ SettledStep
<1>0. TypeOK /\ NodesType(nodes)
  BY RowTypes DEF LaunchInv
<1>1. /\ nodes' = retry_failed(nodes, n) /\ nodes[n].state = "Failed"
      /\ UNCHANGED <<attempts, unfinished, runs, plans, staged, requests, grants, claims,
                     current, coherent, lifecycle, broker, clock, bounds>>
  BY DEF RetryFailed
<1>2. /\ NodesType(nodes')
      /\ \A m \in Node : nodes[m].state \notin {"Failed", "Blocked"} => nodes'[m] = nodes[m]
  <2>1. NodesType(nodes)
    BY <1>0
  <2>2. QED
    BY <1>1, <2>1, RetryKeeps
<1>3. TypeOK'
  BY <1>0, <1>1, <1>2 DEF TypeOK, NodesType, bounds
<1>4. ASSUME NEW s \in RunId PROVE RunOK(s)'
  <2>1. Undispatched(s) => nodes'[plans[s].node] = nodes[plans[s].node]
    BY <1>2, WaitingFacts DEF Plan
  <2>2. RunSame(s)
    BY <1>1, <2>1 DEF RunSame
  <2>3. QED
    BY <2>2, RunFrame DEF LaunchInv
<1>5. \A q \in Request : GrantOK(q)'
  BY <1>1, GrantFrame DEF LaunchInv
<1>6. SettledStep
  BY <1>1 DEF SettledStep
<1>7. QED
  BY <1>3, <1>4, <1>5, <1>6 DEF LaunchInv

\* The process dies and Store::open recovers the database.
LEMMA ReopenStep ==
  ASSUME LaunchInv, Reopen
  PROVE  LaunchInv' /\ SettledStep
<1> DEFINE N == reconcile_after_restart(nodes)
           C == [r \in RunId |-> IF Interrupted(r) THEN [runs[r] EXCEPT !.state = "Uncertain"]
                                                   ELSE runs[r]]
<1>0. TypeOK /\ NodesType(nodes) /\ clock \in Nat
  BY RowTypes DEF LaunchInv
<1>1. /\ restarts < MaxRestarts /\ restarts' = restarts + 1
      /\ broker' = [r \in RunId |-> "idle"] /\ lifecycle' = "recovering"
      /\ nodes' = CancelledNodes(N, Expired) /\ runs' = CancelledRuns(C, Expired)
      /\ staged' = [r \in RunId |->
                      IF staged[r] # None /\ staged[r].state = "dispatching"
                      THEN [staged[r] EXCEPT !.state = "uncertain"]
                      ELSE CancelledStaged(Expired)[r]]
      /\ unfinished' = unfinished \ Expired /\ grants' = RevokedGrants(Expired)
      /\ UNCHANGED <<attempts, plans, requests, claims, current, coherent, clock, rollbacks>>
  BY DEF Reopen
<1>2. Expired \in SUBSET RunId /\ \A r \in Expired : Undispatched(r)
  BY DEF Expired, Undispatched
<1>3. NodesType(N) /\ \A m \in Node : nodes[m].state = "AwaitingApproval" => N[m] = nodes[m]
  <2>1. NodesType(nodes)
    BY <1>0
  <2>2. QED
    BY <2>1, ReconcileKeeps
<1>4. /\ \A r \in RunId : C[r] \in Run
      /\ \A r \in RunId : ~Interrupted(r) => C[r] = runs[r]
      /\ \A r \in RunId : Interrupted(r) => C[r].state = "Uncertain"
                                            /\ C[r].started = runs[r].started
  <2>1. SUFFICES ASSUME NEW r \in RunId
                 PROVE  /\ C[r] \in Run
                        /\ ~Interrupted(r) => C[r] = runs[r]
                        /\ Interrupted(r) => C[r].state = "Uncertain"
                                             /\ C[r].started = runs[r].started
    OBVIOUS
  <2>2. runs[r] \in Run
    BY <1>0 DEF TypeOK
  <2> DEFINE run == [runs[r] EXCEPT !.state = "Uncertain"]
  <2>3. run \in Run /\ run.state = "Uncertain" /\ run.started = runs[r].started
    BY <2>2 DEF Run, RunState, TerminalState
  <2>4. C[r] = IF Interrupted(r) THEN run ELSE runs[r]
    OBVIOUS
  <2> HIDE DEF run, C
  <2>5. QED
    BY <2>2, <2>3, <2>4
<1>5. C \in [RunId -> Run]
  <2>1. \A r \in RunId : (IF Interrupted(r) THEN [runs[r] EXCEPT !.state = "Uncertain"]
                                            ELSE runs[r]) \in Run
    BY <1>4
  <2>2. QED
    BY <2>1
<1>6. \A r \in Expired : C[r] = runs[r]
  <2>1. \A r \in Expired : ~Interrupted(r)
    BY <1>2, WaitingFacts DEF Interrupted, LiveRunState
  <2>2. QED
    BY <1>2, <1>4, <2>1
<1> HIDE DEF N, C
<1>7. \A r \in RunId :
        staged'[r] = IF staged[r] # None /\ staged[r].state = "dispatching"
                     THEN [staged[r] EXCEPT !.state = "uncertain"]
                     ELSE CancelledStaged(Expired)[r]
  BY <1>1
<1>8. /\ \A r \in Expired : staged'[r] = CancelledStaged(Expired)[r]
      /\ \A r \in RunId \ Expired :
           staged'[r] = IF staged[r] # None /\ staged[r].state = "dispatching"
                        THEN [staged[r] EXCEPT !.state = "uncertain"] ELSE staged[r]
  BY <1>2, <1>7 DEF CancelledStaged, Undispatched
<1>9. CancelTables(Expired, N, C)
  BY <1>1, <1>8 DEF CancelTables
<1>10. /\ NodesType(nodes') /\ runs' \in [RunId -> Run]
       /\ grants' \in [Request -> Grant \cup {None}]
       /\ \A r \in Expired : RunOK(r)' /\ staged'[r] \in Staged
       /\ \A s \in RunId \ Expired : runs'[s] = C[s]
       /\ \A s \in RunId \ Expired : C[s] = runs[s] /\ staged'[s] = staged[s] => RunOK(s)'
       /\ \A q \in Request : GrantOK(q)'
       /\ \A q \in Request : grants[q] # None /\ ~Unspent(q) => grants'[q] = grants[q]
       /\ \A r \in Expired : runs[r].state \notin TerminalState
  BY <1>2, <1>3, <1>5, <1>6, <1>9, CancelAll
<1>11. TypeOK'
  <2>1. ASSUME NEW r \in RunId PROVE staged'[r] \in Staged \cup {None}
    <3>1. CASE r \in Expired
      BY <1>10, <3>1
    <3>2. CASE r \notin Expired /\ staged[r] # None /\ staged[r].state = "dispatching"
      <4>1. staged[r] \in Staged /\ staged'[r] = [staged[r] EXCEPT !.state = "uncertain"]
        BY <1>8, <3>2, RowTypes
      <4>2. QED
        BY <4>1 DEF Staged
    <3>3. CASE r \notin Expired /\ ~(staged[r] # None /\ staged[r].state = "dispatching")
      BY <1>0, <1>8, <3>3 DEF TypeOK
    <3>4. QED
      BY <3>1, <3>2, <3>3
  <2>2. staged' = [r \in RunId |-> staged'[r]]
    BY <1>1
  <2>3. staged' \in [RunId -> Staged \cup {None}]
    BY <2>1, <2>2
  <2>4. broker' \in [RunId -> {"idle", "reading", "prepared"}] /\ restarts' \in 0..MaxRestarts
    BY <1>0, <1>1, StagedLaunchAssumption DEF TypeOK
  <2>5. QED
    BY <1>0, <1>1, <1>10, <2>3, <2>4 DEF TypeOK, NodesType
<1>12. ASSUME NEW s \in RunId \ Expired PROVE RunOK(s)'
  <2>1. CASE Undispatched(s)
    <3>0. ~Interrupted(s)
      BY <2>1, WaitingFacts DEF Interrupted, LiveRunState
    <3>1. C[s] = runs[s] /\ staged'[s] = staged[s]
      BY <1>4, <1>8, <2>1, <3>0 DEF Undispatched
    <3>2. QED
      BY <1>10, <3>1
  <2>2. CASE ~Undispatched(s)
    <3>1. \/ runs'[s] = runs[s]
          \/ /\ runs[s].state \in LiveRunState /\ runs'[s].state \in TerminalState
             /\ runs'[s].started = runs[s].started
      BY <1>4, <1>10 DEF Interrupted, TerminalState
    <3>2. \/ staged'[s] = staged[s]
          \/ /\ staged[s] # None /\ staged[s].state = "dispatching"
             /\ staged'[s] = [staged[s] EXCEPT !.state = "uncertain"]
      BY <1>8
    <3>3. staged[s] # None => grants'[staged[s].request] = grants[staged[s].request]
      <4>1. SUFFICES ASSUME staged[s] # None
                     PROVE  grants'[staged[s].request] = grants[staged[s].request]
        OBVIOUS
      <4>2. staged[s].request \in Request
        BY <4>1, RowTypes DEF Staged
      <4>3. \A r \in Expired : staged[r].request # staged[s].request
        BY <1>2, <4>1, RequestsDiffer DEF Undispatched
      <4>4. QED
        BY <1>1, <1>2, <4>2, <4>3, RevokeEffect
    <3>4. /\ plans'[s] = plans[s] /\ claims' = claims /\ broker'[s] = "idle"
          /\ UNCHANGED requests /\ (s \in unfinished' => s \in unfinished)
      BY <1>1
    <3>5. QED
      BY <2>2, <3>1, <3>2, <3>3, <3>4, MovedOn
  <2>3. QED
    BY <2>1, <2>2
<1>13. SettledStep
  <2>1. ASSUME NEW r \in RunId, runs[r].state \in TerminalState PROVE runs'[r] = runs[r]
    <3>1. r \notin Expired /\ ~Interrupted(r)
      BY <1>10, <2>1 DEF Interrupted, LiveRunState, TerminalState
    <3>2. QED
      BY <1>4, <1>10, <3>1
  <2>2. QED
    BY <1>1, <1>10, <2>1 DEF SettledStep
<1>14. QED
  BY <1>10, <1>11, <1>12, <1>13 DEF LaunchInv

-----------------------------------------------------------------------------
(* The theorems.                                                           *)

\* The empty tables of a new database satisfy the invariant.
LEMMA InitStep == Init => LaunchInv
<1> SUFFICES ASSUME Init PROVE LaunchInv
  OBVIOUS
<1> DEFINE run == [state |-> "Absent", started |-> FALSE, finished |-> FALSE]
<1>1. run \in Run /\ run.state = "Absent"
  BY DEF Run, RunState
<1>2. StartNodes \in [Node -> GraphNodeExecution]
  BY DEF StartNodes, PendingExecution, GraphNodeExecution, GraphNodeState
<1>3. <<>> \in Seq(RunId)
  OBVIOUS
<1>4. runs = [r \in RunId |-> run]
  BY DEF Init
<1> HIDE DEF run
<1>5. TypeOK
  <2>1. /\ runs \in [RunId -> Run] /\ attempts \in [Node -> Seq(RunId)]
        /\ plans \in [RunId -> Plan \cup {None}] /\ staged \in [RunId -> Staged \cup {None}]
        /\ requests \in [Request -> RequestRow \cup {None}]
        /\ grants \in [Request -> Grant \cup {None}]
    BY <1>1, <1>3, <1>4 DEF Init
  <2>2. clock \in 0..MaxClock /\ restarts \in 0..MaxRestarts /\ rollbacks \in 0..MaxRollbacks
    BY StagedLaunchAssumption DEF Init
  <2>3. QED
    BY <1>2, <2>1, <2>2 DEF Init, TypeOK
<1>6. \A r \in RunId : RunOK(r)
  BY <1>1, <1>4 DEF Init, RunOK, Undispatched
<1>7. \A q \in Request : GrantOK(q)
  BY DEF Init, GrantOK
<1>8. QED
  BY <1>5, <1>6, <1>7 DEF LaunchInv

\* Every step keeps the invariant and undoes nothing that is settled.
LEMMA NextStep == LaunchInv /\ [Next]_vars => LaunchInv' /\ SettledStep
<1> SUFFICES ASSUME LaunchInv, [Next]_vars PROVE LaunchInv' /\ SettledStep
  OBVIOUS
<1>1. ASSUME NEW n \in Node, NEW o \in Owner, NEW r \in RunId,
             BeginDirect(n, o, r) \/ \E q \in Request : BeginStaged(n, o, r, q)
      PROVE  LaunchInv' /\ SettledStep
  BY <1>1, BeginDirectStep, BeginStagedStep
<1>2. ASSUME NEW q \in Request,
             \/ \E r \in RunId : CreateApproval(q, r)
             \/ Approve(q) \/ Deny(q) \/ RevokeGrant(q) \/ ConsumeGrant(q)
      PROVE  LaunchInv' /\ SettledStep
  BY <1>2, CreateApprovalStep, ApproveStep, DenyStep, RevokeGrantStep, ConsumeGrantStep
<1>3. ASSUME NEW r \in RunId,
             \/ CancelStagedRun(r) \/ ClaimDispatch(r) \/ ReadCredential(r)
             \/ FailDispatchClaim(r) \/ (\E t \in TerminalState : FinishRun(r, t))
             \/ EditCatalog(r)
      PROVE  LaunchInv' /\ SettledStep
  BY <1>3, CancelActions, ClaimDispatchStep, QuietActions, FailDispatchStep, FinishRunStep
<1>4. ASSUME NEW n \in Node, RetryFailed(n)
      PROVE  LaunchInv' /\ SettledStep
  BY <1>4, RetryStep
<1>5. CASE ExpireSweep \/ MarkReady \/ Reopen
  BY <1>5, CancelActions, ReopenStep
<1>6. CASE \/ Suspend \/ Resume \/ Shutdown \/ EditM3State \/ Tick
           \/ (\E t \in 0..MaxClock : SetClockBack(t))
           \/ UNCHANGED vars
  BY <1>6, QuietActions
<1>7. QED
  BY <1>1, <1>2, <1>3, <1>4, <1>5, <1>6 DEF Next

\* The inductive invariant holds in every reachable state.
THEOREM LaunchInvariant == Spec => []LaunchInv
<1>1. QED
  BY InitStep, NextStep, PTL DEF Spec

\* The ledgers of staged_launches.rs, credential_grants.rs and
\* credential_dispatch.rs agree with each other, and every CHECK constraint
\* holds, in every reachable state.
THEOREM LedgersAlwaysAgree == Spec => []LedgersAgree
<1>1. LaunchInv => LedgersAgree
  <2> SUFFICES ASSUME LaunchInv PROVE LedgersAgree
    OBVIOUS
  <2>1. RowsAgree
    BY DEF LaunchInv, RunOK, StagedRowOK, ClaimOK, RowsAgree, Undispatched
  <2>2. TableChecksHold
    BY DEF LaunchInv, RunOK, StagedRowOK, GrantOK, TableChecksHold
  <2>3. QED
    BY <2>1, <2>2 DEF LaunchInv, LedgersAgree
<1>2. QED
  BY <1>1, LaunchInvariant, PTL

\* Store::open refuses the database only for an M3 state that a client made
\* invalid while a launch expired, and cancel_for_request is never stopped by
\* anything else: neither by its own validation of the launch nor by a CHECK
\* constraint, whatever the clock.
THEOREM NobodyIsLockedOut == Spec => []NeverLockedOut
<1>1. LaunchInv => NeverLockedOut
  <2> SUFFICES ASSUME LaunchInv PROVE NeverLockedOut
    OBVIOUS
  <2>1. ASSUME NEW r \in RunId, Undispatched(r)
        PROVE  validate_staged_context(r) /\ CancelChecks(r)
    <3>1. validate_staged_context(r)
      BY <2>1 DEF LaunchInv, RunOK, validate_staged_run
    <3>2. PICK q \in Request : staged[r].request = q
      BY <2>1, WaitingFacts
    <3>3. staged[r] \in Staged /\ clock \in Nat
      BY <2>1, WaitingFacts, RowTypes
    <3>4. CancelTime(r) \in Nat /\ CancelTime(r) >= staged[r].staged_at
      BY <3>3 DEF CancelTime, Later, Staged
    <3>5. grants[q] # None => RevokeTime(q, r) >= grants[q].issued
      BY <3>4, RowTypes DEF RevokeTime, Later, Grant
    <3>6. QED
      BY <3>1, <3>2, <3>4, <3>5 DEF CancelChecks
  <2>2. RecoveryNeverRefused
    <3>1. \A r \in RunId : runs[r].state = "AwaitingApproval" => validate_staged_run(r)
      BY DEF LaunchInv, RunOK
    <3>2. \A r \in Expired : r \in RunId /\ Undispatched(r)
      BY DEF Expired, Undispatched
    <3>3. \A r \in Expired : CancelChecks(r)
      BY <2>1, <3>2
    <3>4. coherent \in BOOLEAN
      BY DEF LaunchInv, TypeOK
    <3>5. QED
      BY <3>1, <3>3, <3>4 DEF RecoveryNeverRefused, Can_recover
  <2>3. CancelAlwaysPossible
    <3>1. coherent \in BOOLEAN
      BY DEF LaunchInv, TypeOK
    <3>2. QED
      BY <2>1, <3>1 DEF CancelAlwaysPossible, Can_cancel
  <2>4. QED
    BY <2>2, <2>3 DEF NeverLockedOut
<1>2. QED
  BY <1>1, LaunchInvariant, PTL

\* The broker reads a secret only for a launch whose own request was approved,
\* with its grant consumed in time, and no two claims share a grant.
THEOREM ConsentSpentOnce == Spec => []ConsentIsSpentOnce
<1>1. LaunchInv => ConsentIsSpentOnce
  <2> SUFFICES ASSUME LaunchInv PROVE ConsentIsSpentOnce
    OBVIOUS
  <2>1. \A r \in claims : r \in RunId /\ ClaimOK(r) /\ StagedRowOK(r)
    BY DEF LaunchInv, TypeOK, RunOK, ClaimOK
  <2>2. SecretOnlyAfterConsent
    <3>1. \A r \in RunId : broker[r] # "idle" => r \in claims
      BY DEF LaunchInv, RunOK
    <3>2. QED
      BY <2>1, <3>1 DEF SecretOnlyAfterConsent, ClaimOK, StagedRowOK
  <2>3. \A r \in claims : grants[staged[r].request].consumed # None
    BY <2>1 DEF ClaimOK, StagedRowOK
  <2>4. \A r, s \in claims : staged[r].request = staged[s].request => r = s
    BY <2>1, RequestsDiffer DEF ClaimOK
  <2>5. \A r \in RunId : staged[r] # None /\ grants[staged[r].request] # None =>
           (grants[staged[r].request].consumed # None <=> r \in claims)
    BY DEF LaunchInv, RunOK, StagedRowOK
  <2>6. QED
    BY <2>2, <2>3, <2>4, <2>5 DEF ConsentIsSpentOnce, ClaimsSpendGrants
<1>2. QED
  BY <1>1, LaunchInvariant, PTL

\* No operation and no restart changes a terminal run, a decision, a spent
\* grant or takes back a claim.
THEOREM SettledForGood == Spec => SettledStaysSettled
<1>1. LaunchInv /\ [Next]_vars =>
        [/\ \A r \in RunId : runs[r].state \in TerminalState => runs'[r] = runs[r]
         /\ \A q \in Request : requests[q] # None /\ requests[q].decision # None =>
              requests'[q] = requests[q]
         /\ \A q \in Request : grants[q] # None /\ ~Unspent(q) => grants'[q] = grants[q]
         /\ claims \subseteq claims']_vars
  BY NextStep DEF SettledStep
<1>2. QED
  BY <1>1, LaunchInvariant, PTL DEF Spec, SettledStaysSettled
=============================================================================
