------------------------------ MODULE M3Ledger ------------------------------
(***************************************************************************)
(* The path from a prepared project to delivered knowledge, as the Store   *)
(* of crates/bastet-daemon/src/lib.rs keeps it: a meeting, its accepted    *)
(* DecisionBaseline, the graph executions that work on it, their document, *)
(* its deliveries and the costs.                                           *)
(*                                                                         *)
(* Two tables must agree although they are revisioned apart: m3_catalog    *)
(* (everything but the executions) and graph_executions.  A client reads   *)
(* the m3 catalog and later sends a command with the revision it read; in  *)
(* between anybody may have written.  Each Store operation is one          *)
(* IMMEDIATE transaction, hence one action, and a refused one writes       *)
(* nothing.                                                                *)
(*                                                                         *)
(* Abstractions.  The two research nodes of an execution are one phase,    *)
(* "research"; failures and retries of nodes are GraphExecution's.  Texts, *)
(* hashes and identity records are left out: a document's text is never    *)
(* written twice, so the hash a client accepts is the stored one.  A       *)
(* pristine identity catalog is a flag; its own revision is left out.      *)
(***************************************************************************)
EXTENDS Naturals, FiniteSets

CONSTANTS
    Client,          \* desktop commands that may be in flight at once
    Baseline,        \* identities of DecisionBaselines
    Execution,       \* identities of graph executions
    Document,        \* identities of documents (each has one version)
    Delivery,        \* identities of knowledge deliveries
    CarefulClients,  \* do clients submit only what the desktop submits?
    MaxRevision,     \* bound on the m3 catalog's revision
    MaxCosts,        \* bound on the costs clients record
    None

ASSUME M3LedgerAssumption ==
    /\ CarefulClients \in BOOLEAN
    /\ MaxRevision \in Nat /\ MaxCosts \in Nat
    /\ None \notin Baseline \cup Execution \cup Document \cup Delivery
    /\ None \notin {"AwaitingDecision", "Accepted"}

VARIABLES
    catalog,     \* m3_catalog
    configured,  \* identity_catalog is not the default one
    executions,  \* graph_executions
    snapshot,    \* the m3 catalog each client read, None when it is idle
    restarts     \* executions restart_missing_output_graph restarted (history)

vars == <<catalog, configured, executions, snapshot, restarts>>

Phase == {"research", "join"}

\* A cost is known by the node's run it prices and by who recorded it.
CostRecord == [execution : Execution, node : Phase, source : {"run", "client"}]

DocumentRow == [execution : Execution, accepted : BOOLEAN]
DeliveryRow == [document : Document, state : {"Prepared", "Delivered"}]

Catalog ==
    [revision : 0..MaxRevision,
     pet : BOOLEAN, assigned : BOOLEAN,
     meeting : {None, "AwaitingDecision", "Accepted"},
     baselines : SUBSET Baseline,
     documents : [Document -> DocumentRow \cup {None}],
     deliveries : [Delivery -> DeliveryRow \cup {None}],
     costs : SUBSET CostRecord]

\* A node has not succeeded yet, has succeeded without recorded output, or
\* has succeeded with it.
NodeState == {"open", "bare", "output"}

ExecutionRow ==
    [baseline : Baseline, nodes : [Phase -> NodeState], restarted_from : Execution \cup {None}]

Restart == [original : Execution, restart : Execution]

ASSUME NoneIsNoRow == None \notin ExecutionRow \cup DocumentRow \cup DeliveryRow

TypeOK ==
    /\ catalog \in Catalog
    /\ configured \in BOOLEAN
    /\ executions \in [Execution -> ExecutionRow \cup {None}]
    /\ snapshot \in [Client -> Catalog \cup {None}]
    /\ restarts \subseteq Restart

-----------------------------------------------------------------------------
(* What the code validates                                                 *)

Stored(table) == {id \in DOMAIN table : table[id] # None}

EmptyCatalog ==
    [revision |-> 0, pet |-> FALSE, assigned |-> FALSE, meeting |-> None, baselines |-> {},
     documents |-> [d \in Document |-> None], deliveries |-> [k \in Delivery |-> None],
     costs |-> {}]

m3_is_unconfigured(cat) ==
    [cat EXCEPT !.revision = 0] \in {EmptyCatalog, [EmptyCatalog EXCEPT !.pet = TRUE]}

OfficeValid(cat) == cat.assigned => cat.pet

MeetingsValid(cat) ==
    /\ cat.baselines # {} => cat.meeting \in {"AwaitingDecision", "Accepted"}
    /\ Cardinality(cat.baselines) <= 1

DeliverablesValid(cat) ==
    \A k \in Stored(cat.deliveries) :
        /\ cat.deliveries[k].document \in Stored(cat.documents)
        /\ cat.documents[cat.deliveries[k].document].accepted

\* The checks of the m3 catalog by itself.
validate_m3_catalog(cat) == OfficeValid(cat) /\ MeetingsValid(cat) /\ DeliverablesValid(cat)

Completed(e) == \A n \in Phase : executions[e].nodes[n] # "open"

\* GraphExecution::output finds what the node's current run recorded.
HasOutput(exs, e, n) == exs[e].nodes[n] = "output"

\* M3State::validate: the catalog and the executions together.
StateValid(cat, exs) ==
    /\ validate_m3_catalog(cat)
    /\ \A e \in Stored(exs) : exs[e].baseline \in cat.baselines
    /\ \A d \in Stored(cat.documents) :
          /\ cat.documents[d].execution \in Stored(exs)
          /\ \A n \in Phase : HasOutput(exs, cat.documents[d].execution, n)
    /\ \A cost \in cat.costs : cost.execution \in Stored(exs)

Start(b, from) ==
    [baseline |-> b, nodes |-> [n \in Phase |-> "open"], restarted_from |-> from]

(* The rows the commands write: DocumentVersion::create with its join      *)
(* receipt, DocumentVersion::accept, KnowledgeDelivery::prepare and        *)
(* KnowledgeDelivery::record_delivered.                                    *)
document_create(e) == [execution |-> e, accepted |-> FALSE]
document_accept(row) == [row EXCEPT !.accepted = TRUE]
delivery_prepare(d) == [document |-> d, state |-> "Prepared"]
record_delivered(row) == [row EXCEPT !.state = "Delivered"]

-----------------------------------------------------------------------------
(* Commands: a client reads the catalog and writes at the revision it read *)

Read(c) ==
    /\ snapshot[c] = None
    /\ snapshot' = [snapshot EXCEPT ![c] = catalog]
    /\ UNCHANGED <<catalog, configured, executions, restarts>>

\* The command is refused (a conflict, a failed check) or the client goes
\* away: nothing is written.
Refused(c) ==
    /\ snapshot[c] # None
    /\ snapshot' = [snapshot EXCEPT ![c] = None]
    /\ UNCHANGED <<catalog, configured, executions, restarts>>

ExpectedRevision_Older(c) ==
    /\ snapshot[c] # None
    /\ snapshot[c].revision <= catalog.revision

\* The compare-and-set every command starts with.
ExpectedRevision(c) ==
    /\ snapshot[c] # None
    /\ snapshot[c].revision = catalog.revision

\* Client c's command stores cat under the next revision.
Write(c, cat) ==
    /\ catalog.revision < MaxRevision
    /\ catalog' = [cat EXCEPT !.revision = catalog.revision + 1]
    /\ snapshot' = [snapshot EXCEPT ![c] = None]

\* MvpDraft::prepare: an office with the built-in pet assigned to three
\* roles, and a meeting that waits for its decision.
mvp_prepare(cat) ==
    [cat EXCEPT !.pet = TRUE, !.assigned = TRUE, !.meeting = "AwaitingDecision"]

\* Only a pristine pair of catalogs is initialised; a pet applied before is
\* kept, otherwise the draft brings the built-in one.
PrepareMvp(c) ==
    /\ ExpectedRevision(c)
    /\ ~configured
    /\ m3_is_unconfigured(catalog)
    /\ Write(c, mvp_prepare(catalog))
    /\ configured' = TRUE
    /\ UNCHANGED <<executions, restarts>>

\* A human accepts the decision: baseline and compiled graph in one step.
AcceptDecision(c, b, e) ==
    /\ ExpectedRevision(c)
    /\ catalog.meeting = "AwaitingDecision"
    /\ b \notin catalog.baselines
    /\ executions[e] = None
    /\ LET cat == [catalog EXCEPT !.meeting = "Accepted", !.baselines = @ \cup {b}]
           exs == [executions EXCEPT ![e] = Start(b, None)]
       IN /\ StateValid(cat, exs)
          /\ Write(c, cat)
          /\ executions' = exs
    /\ UNCHANGED <<configured, restarts>>

CreateDocument(c, e, d) ==
    /\ ExpectedRevision(c)
    /\ executions[e] # None
    /\ Completed(e)
    /\ \A n \in Phase : HasOutput(executions, e, n)
    /\ executions[e].baseline \in catalog.baselines
    /\ catalog.documents[d] = None
    /\ LET cat == [catalog EXCEPT !.documents[d] = document_create(e)]
       IN StateValid(cat, executions) /\ Write(c, cat)
    /\ UNCHANGED <<configured, executions, restarts>>

AcceptDocument(c, d) ==
    /\ ExpectedRevision(c)
    /\ catalog.documents[d] # None
    /\ ~catalog.documents[d].accepted
    /\ LET cat == [catalog EXCEPT !.documents[d] = document_accept(@)]
       IN StateValid(cat, executions) /\ Write(c, cat)
    /\ UNCHANGED <<configured, executions, restarts>>

\* Nothing forbids a second delivery of the same version.
PrepareDelivery(c, d, k) ==
    /\ ExpectedRevision(c)
    /\ catalog.documents[d] # None
    /\ catalog.documents[d].accepted
    /\ catalog.deliveries[k] = None
    /\ LET cat == [catalog EXCEPT !.deliveries[k] = delivery_prepare(d)]
       IN StateValid(cat, executions) /\ Write(c, cat)
    /\ UNCHANGED <<configured, executions, restarts>>

CompleteDelivery(c, k) ==
    /\ ExpectedRevision(c)
    /\ catalog.deliveries[k] # None
    /\ catalog.deliveries[k].state = "Prepared"
    /\ LET cat == [catalog EXCEPT !.deliveries[k] = record_delivered(@)]
       IN StateValid(cat, executions) /\ Write(c, cat)
    /\ UNCHANGED <<configured, executions, restarts>>

\* A cost names a node of a stored execution and a run of the catalog,
\* whatever has become of them.
RecordCost(c, e, n) ==
    LET cost == [execution |-> e, node |-> n, source |-> "client"]
        cat == [catalog EXCEPT !.costs = @ \cup {cost}]
    IN /\ ExpectedRevision(c)
       /\ executions[e] # None
       /\ cost \notin catalog.costs
       /\ Cardinality({old \in catalog.costs : old.source = "client"}) < MaxCosts
       /\ StateValid(cat, executions)
       /\ Write(c, cat)
       /\ UNCHANGED <<configured, executions, restarts>>

\* The desktop sends back what it read, with the built-in pet applied, or
\* rolled back unless it is assigned.
apply_builtin_pet(cat) == [cat EXCEPT !.pet = TRUE]
rollback_builtin_pet(cat) == IF cat.assigned THEN cat ELSE [cat EXCEPT !.pet = FALSE]

\* The catalogs a client may send: the desktop's, or any client's edit that
\* drops what was decided.
Edits(cat) ==
    {apply_builtin_pet(cat), rollback_builtin_pet(cat)}
        \cup (IF CarefulClients THEN {} ELSE {[cat EXCEPT !.baselines = {}]})

ReplaceCatalog_Blind(c) ==
    /\ snapshot[c] # None
    /\ \E cat \in Edits(snapshot[c]) \ {snapshot[c]} :
          validate_m3_catalog(cat) /\ Write(c, cat)
    /\ UNCHANGED <<configured, executions, restarts>>

\* replace_m3_catalog: the catalog is checked by itself, not against the
\* executions.
ReplaceCatalog(c) ==
    /\ ExpectedRevision(c)
    /\ \E cat \in Edits(snapshot[c]) \ {snapshot[c]} :
          validate_m3_catalog(cat) /\ Write(c, cat)
    /\ UNCHANGED <<configured, executions, restarts>>

-----------------------------------------------------------------------------
(* Executions                                                              *)

\* The executions a client may send: a fresh one of an accepted baseline, or
\* any row: GraphExecution::validate looks at each node by itself, whatever the
\* execution claims to have done or to restart.
Submitted ==
    {row \in ExecutionRow : CarefulClients =>
        row.baseline \in catalog.baselines /\ row = Start(row.baseline, None)}

\* create_graph_execution: an unused identity is all that is asked for besides;
\* neither the baseline nor the predecessor it names is looked up.
CreateGraphExecution(e) ==
    /\ executions[e] = None
    /\ \E row \in Submitted : executions' = [executions EXCEPT ![e] = row]
    /\ UNCHANGED <<catalog, configured, snapshot, restarts>>

Ready(e, n) ==
    /\ executions[e] # None
    /\ executions[e].nodes[n] = "open"
    /\ n = "join" => executions[e].nodes["research"] # "open"

FinishRun_Priceless(e, n) ==
    LET exs == [executions EXCEPT ![e].nodes[n] = "output"]
    IN /\ Ready(e, n)
       /\ StateValid(catalog, exs)
       /\ executions' = exs
       /\ UNCHANGED <<catalog, configured, snapshot, restarts>>

\* finish_graph_node_run: a provider run succeeds; its output, and its cost
\* in the m3 catalog, are stored together.  The daemon repeats the command
\* with fresh revisions until it is current.
FinishRun(e, n) ==
    LET cat == [catalog EXCEPT
            !.revision = @ + 1,
            !.costs = @ \cup {[execution |-> e, node |-> n, source |-> "run"]}]
        exs == [executions EXCEPT ![e].nodes[n] = "output"]
    IN /\ Ready(e, n)
       /\ catalog.revision < MaxRevision
       /\ StateValid(cat, exs)
       /\ catalog' = cat
       /\ executions' = exs
       /\ UNCHANGED <<configured, snapshot, restarts>>

\* complete_graph_node: a worker outside the daemon reports success; no
\* output is recorded.
CompleteNode(e, n) ==
    /\ Ready(e, n)
    /\ executions' = [executions EXCEPT ![e].nodes[n] = "bare"]
    /\ UNCHANGED <<catalog, configured, snapshot, restarts>>

restart_as(e) ==
    /\ Completed(e)
    /\ \E n \in Phase : ~HasOutput(executions, e, n)

RestartMissingOutput_Again(e, e2) ==
    /\ executions[e] # None /\ executions[e2] = None
    /\ executions[e].baseline \in catalog.baselines
    /\ restart_as(e)
    /\ executions' = [executions EXCEPT ![e2] = Start(executions[e].baseline, e)]
    /\ restarts' = restarts \cup {[original |-> e, restart |-> e2]}
    /\ UNCHANGED <<catalog, configured, snapshot>>

\* A completed execution that lacks an output is started again as e2, once:
\* a repeated command is answered with the restart that exists.
RestartMissingOutput(e, e2) ==
    /\ executions[e] # None /\ executions[e2] = None
    /\ \A other \in Stored(executions) : executions[other].restarted_from # e
    /\ executions[e].baseline \in catalog.baselines
    /\ restart_as(e)
    /\ executions' = [executions EXCEPT ![e2] = Start(executions[e].baseline, e)]
    /\ restarts' = restarts \cup {[original |-> e, restart |-> e2]}
    /\ UNCHANGED <<catalog, configured, snapshot>>

-----------------------------------------------------------------------------
Init ==
    /\ catalog = EmptyCatalog
    /\ configured = FALSE
    /\ executions = [e \in Execution |-> None]
    /\ snapshot = [c \in Client |-> None]
    /\ restarts = {}

\* The desktop's commands from the meeting to the document ...
MeetingStep(c) ==
    \/ PrepareMvp(c)
    \/ \E b \in Baseline, e \in Execution : AcceptDecision(c, b, e)
    \/ \E e \in Execution, d \in Document : CreateDocument(c, e, d)

\* ... and from the document to its delivery, each with the revision it read.
DocumentStep(c) ==
    \/ \E d \in Document : AcceptDocument(c, d)
    \/ \E d \in Document, k \in Delivery : PrepareDelivery(c, d, k)
    \/ \E k \in Delivery : CompleteDelivery(c, k)

ClientStep(c) ==
    \/ Read(c)
    \/ Refused(c)
    \/ MeetingStep(c)
    \/ DocumentStep(c)
    \/ \E e \in Execution, n \in Phase : RecordCost(c, e, n)
    \/ ReplaceCatalog(c)

\* retry_missing_graph_outputs: the desktop looks for what the Store looks for.
RetryMissingOutputs == \E e, e2 \in Execution : RestartMissingOutput(e, e2)

Next ==
    \/ \E c \in Client : ClientStep(c)
    \/ \E e \in Execution : CreateGraphExecution(e)
    \/ \E e \in Execution, n \in Phase : FinishRun(e, n) \/ CompleteNode(e, n)
    \/ RetryMissingOutputs

Spec == Init /\ [][Next]_vars

-----------------------------------------------------------------------------
(* Properties                                                              *)

\* Whatever is stored passes M3State::validate.  It matters beyond
\* tidiness: accept_mvp_decision, create_mvp_document, the delivery
\* commands, record_cost and finish_graph_node_run all validate the whole
\* state, so one bad row refuses every later command, and no provider run
\* can record its result any more.
LedgerValid == StateValid(catalog, executions)

\* The output of a provider run and its cost live in different tables; no
\* command of a client that read the catalog before the run finished takes
\* the cost away (finish_graph_node_run, replace_m3_catalog).
EveryOutputIsPriced ==
    \A e \in Stored(executions), n \in Phase :
        HasOutput(executions, e, n) =>
            [execution |-> e, node |-> n, source |-> "run"] \in catalog.costs

\* The Store restarts a completed execution with missing outputs at most once,
\* whoever asks and however often, and the restart stays linked to it
\* (restart_missing_output_graph).  It says nothing of executions of which a
\* client merely claims that they are restarts.
RestartedOnce ==
    /\ \A r1, r2 \in restarts : r1.original = r2.original => r1 = r2
    /\ \A r \in restarts :
          r.restart \in Stored(executions)
              /\ executions[r.restart].restarted_from = r.original

\* What a human decided or accepted, what was delivered and what was paid
\* is never taken back by another command, not even by one that sends a
\* whole catalog back (replace_m3_catalog of the desktop's pet commands).
NothingIsLost ==
    [][/\ catalog.baselines \subseteq catalog'.baselines
       /\ catalog.costs \subseteq catalog'.costs
       /\ catalog.meeting = "Accepted" => catalog'.meeting = "Accepted"
       /\ catalog.assigned => catalog'.assigned
       /\ \A d \in Stored(catalog.documents) :
             /\ catalog'.documents[d] # None
             /\ catalog'.documents[d].execution = catalog.documents[d].execution
             /\ catalog.documents[d].accepted => catalog'.documents[d].accepted
       /\ \A k \in Stored(catalog.deliveries) :
             /\ catalog'.deliveries[k] # None
             /\ catalog.deliveries[k].state = "Delivered" =>
                    catalog'.deliveries[k] = catalog.deliveries[k]]_vars
=============================================================================
