--------------------------- MODULE M3Ledger_proofs ---------------------------
(***************************************************************************)
(* Proofs about M3Ledger for any number of clients, executions, documents  *)
(* and deliveries.                                                         *)
(***************************************************************************)
EXTENDS M3Ledger, FiniteSetTheorems, TLAPS

\* The compare-and-set is sound: a snapshot whose revision still is the
\* stored one is the stored catalog.
SnapshotsCurrent ==
    \A c \in Client :
        snapshot[c] # None =>
            /\ snapshot[c] \in Catalog
            /\ snapshot[c].revision <= catalog.revision
            /\ snapshot[c].revision = catalog.revision => snapshot[c] = catalog

\* The inductive invariant, for clients that submit what the desktop does.
IInv == CarefulClients /\ TypeOK /\ SnapshotsCurrent /\ LedgerValid /\ EveryOutputIsPriced

\* The next revision number makes no catalog valid or invalid.
LEMMA RevisionIsNotValidated ==
    ASSUME NEW cat \in Catalog, NEW r, NEW exs
    PROVE StateValid([cat EXCEPT !.revision = r], exs) <=> StateValid(cat, exs)
  BY DEF StateValid, validate_m3_catalog, OfficeValid, MeetingsValid, DeliverablesValid, Stored, Catalog

\* The catalog of a new installation is well typed and valid.
LEMMA EmptyCatalogOK == EmptyCatalog \in Catalog /\ validate_m3_catalog(EmptyCatalog)
  BY FS_EmptySet, M3LedgerAssumption
  DEF EmptyCatalog, Catalog, validate_m3_catalog, OfficeValid, MeetingsValid, DeliverablesValid, Stored

\* A new installation satisfies the invariant.
LEMMA InitEstablishes == CarefulClients /\ Init => IInv
<1> SUFFICES ASSUME CarefulClients, Init PROVE IInv
    OBVIOUS
<1>1. TypeOK /\ SnapshotsCurrent
  BY EmptyCatalogOK DEF Init, TypeOK, SnapshotsCurrent
<1>2. LedgerValid
  BY EmptyCatalogOK DEF Init, LedgerValid, StateValid, Stored, EmptyCatalog
<1>3. EveryOutputIsPriced
  BY DEF Init, EveryOutputIsPriced, Stored
<1> QED
  BY <1>1, <1>2, <1>3 DEF IInv

\* What a client's write of a well-formed catalog does to types and snapshots.
LEMMA WriteStep ==
    ASSUME IInv, NEW c \in Client, NEW cat \in Catalog, Write(c, cat)
    PROVE /\ catalog' \in Catalog
          /\ snapshot' \in [Client -> Catalog \cup {None}]
          /\ SnapshotsCurrent'
  BY M3LedgerAssumption DEF IInv, TypeOK, Catalog, Write, SnapshotsCurrent

\* The outputs recorded after the step were recorded before it.
NoNewOutput ==
    \A e \in Stored(executions)', n \in Phase :
        executions'[e].nodes[n] = "output" =>
            e \in Stored(executions) /\ executions[e].nodes[n] = "output"

\* A command that stores a valid catalog keeps the invariant.
LEMMA CommandStep ==
    ASSUME IInv, NEW c \in Client, NEW cat \in Catalog, Write(c, cat),
           executions' \in [Execution -> ExecutionRow \cup {None}],
           configured' \in BOOLEAN, UNCHANGED restarts,
           StateValid(cat, executions'), catalog.costs \subseteq cat.costs, NoNewOutput
    PROVE IInv'
<1>1. TypeOK' /\ SnapshotsCurrent'
  BY WriteStep DEF IInv, TypeOK
<1>2. LedgerValid'
  <2>1. catalog' = [cat EXCEPT !.revision = catalog.revision + 1]
    BY DEF Write
  <2> QED
    BY <2>1, RevisionIsNotValidated DEF LedgerValid
<1>3. EveryOutputIsPriced'
  <2>1. catalog'.costs = cat.costs
    BY DEF Write, Catalog
  <2> QED
    BY <2>1 DEF EveryOutputIsPriced, HasOutput, NoNewOutput, IInv
<1> QED
  BY <1>1, <1>2, <1>3 DEF IInv

\* A step that leaves the catalog and the clients alone.
LEMMA ExecutionStep ==
    ASSUME IInv, UNCHANGED <<catalog, configured, snapshot>>, restarts' \subseteq Restart,
           executions' \in [Execution -> ExecutionRow \cup {None}],
           StateValid(catalog, executions'), NoNewOutput
    PROVE IInv'
<1>1. TypeOK' /\ SnapshotsCurrent'
  BY DEF IInv, TypeOK, SnapshotsCurrent
<1>2. LedgerValid'
  BY DEF LedgerValid
<1>3. EveryOutputIsPriced'
  BY DEF IInv, EveryOutputIsPriced, HasOutput, NoNewOutput
<1> QED
  BY <1>1, <1>2, <1>3 DEF IInv

\* What the catalog held is still in it.
Keeps(old, new) ==
    /\ old.baselines \subseteq new.baselines
    /\ old.costs \subseteq new.costs
    /\ old.meeting = "Accepted" => new.meeting = "Accepted"
    /\ old.assigned => new.assigned
    /\ \A d \in Stored(old.documents) :
          /\ new.documents[d] # None
          /\ new.documents[d].execution = old.documents[d].execution
          /\ old.documents[d].accepted => new.documents[d].accepted
    /\ \A k \in Stored(old.deliveries) :
          /\ new.deliveries[k] # None
          /\ old.deliveries[k].state = "Delivered" => new.deliveries[k] = old.deliveries[k]

\* What a client command stores keeps whatever the catalog it is built from keeps.
LEMMA WriteKeeps ==
    ASSUME NEW c \in Client, NEW cat \in Catalog, Write(c, cat), Keeps(catalog, cat)
    PROVE Keeps(catalog, catalog')
  BY DEF Write, Keeps, Catalog, Stored

\* Reading, and a refused command, change nothing but the client.
LEMMA ReadStep == ASSUME IInv, NEW c \in Client, Read(c) \/ Refused(c) PROVE IInv' /\ Keeps(catalog, catalog')
<1>1. TypeOK' /\ SnapshotsCurrent'
  BY M3LedgerAssumption DEF IInv, TypeOK, SnapshotsCurrent, Read, Refused, Catalog
<1>2. LedgerValid' /\ EveryOutputIsPriced'
  BY DEF IInv, LedgerValid, EveryOutputIsPriced, Read, Refused
<1>3. Keeps(catalog, catalog')
  BY DEF Keeps, Stored, Read, Refused
<1> QED
  BY <1>1, <1>2, <1>3 DEF IInv

\* prepare_mvp starts from a catalog in which nothing could be lost.
LEMMA PrepareStep == ASSUME IInv, NEW c \in Client, PrepareMvp(c) PROVE IInv' /\ Keeps(catalog, catalog')
<1> DEFINE cat == [catalog EXCEPT !.pet = TRUE, !.assigned = TRUE, !.meeting = "AwaitingDecision"]
<1>1. cat \in Catalog
  BY DEF IInv, TypeOK, Catalog
<1>2. Write(c, cat) /\ configured' = TRUE /\ UNCHANGED <<executions, restarts>>
  BY DEF PrepareMvp, mvp_prepare
<1>3. /\ catalog.baselines = {} /\ catalog.meeting = None /\ catalog.costs = {}
      /\ Stored(catalog.documents) = {} /\ Stored(catalog.deliveries) = {}
  BY DEF PrepareMvp, m3_is_unconfigured, EmptyCatalog, IInv, TypeOK, Catalog, Stored
<1>4. StateValid(cat, executions')
  BY <1>2, <1>3 DEF IInv, TypeOK, Catalog, LedgerValid, StateValid, validate_m3_catalog, OfficeValid,
      MeetingsValid, DeliverablesValid, Stored
<1>5. Keeps(catalog, cat)
  BY <1>3, M3LedgerAssumption DEF Keeps, IInv, TypeOK, Catalog
<1>6. executions' \in [Execution -> ExecutionRow \cup {None}] /\ NoNewOutput
  BY <1>2 DEF IInv, TypeOK, NoNewOutput, Stored
<1>7. catalog.costs \subseteq cat.costs
  BY <1>3
<1> HIDE DEF cat
<1> QED
  BY <1>1, <1>2, <1>4, <1>5, <1>6, <1>7, CommandStep, WriteKeeps

\* accept_mvp_decision adds one baseline and the execution that names it.
LEMMA DecisionStep ==
    ASSUME IInv, NEW c \in Client, NEW b \in Baseline, NEW e \in Execution, AcceptDecision(c, b, e)
    PROVE IInv' /\ Keeps(catalog, catalog')
<1> DEFINE cat == [catalog EXCEPT !.meeting = "Accepted", !.baselines = @ \cup {b}]
<1>1. cat \in Catalog
  BY DEF IInv, TypeOK, Catalog
<1>2. /\ Write(c, cat) /\ UNCHANGED <<configured, restarts>> /\ executions[e] = None
      /\ executions' = [executions EXCEPT ![e] = Start(b, None)]
      /\ StateValid(cat, executions')
  BY DEF AcceptDecision
<1>3. Keeps(catalog, cat)
  BY DEF Keeps, IInv, TypeOK, Catalog, Stored
<1>4. executions' \in [Execution -> ExecutionRow \cup {None}] /\ NoNewOutput
  BY <1>2 DEF IInv, TypeOK, NoNewOutput, Stored, Start, ExecutionRow, NodeState, Phase
<1>5. catalog.costs \subseteq cat.costs /\ configured' \in BOOLEAN
  BY <1>2 DEF IInv, TypeOK, Catalog
<1> HIDE DEF cat
<1> QED
  BY <1>1, <1>2, <1>3, <1>4, <1>5, CommandStep, WriteKeeps

\* create_mvp_document adds a row and validates the whole state.
LEMMA CreateDocumentStep ==
    ASSUME IInv, NEW c \in Client, NEW e \in Execution, NEW d \in Document, CreateDocument(c, e, d)
    PROVE IInv' /\ Keeps(catalog, catalog')
<1> DEFINE cat == [catalog EXCEPT !.documents[d] = document_create(e)]
<1>1. cat \in Catalog
  BY NoneIsNoRow DEF IInv, TypeOK, Catalog, DocumentRow, document_create
<1>2. Write(c, cat) /\ StateValid(cat, executions') /\ UNCHANGED <<configured, executions, restarts>>
  BY DEF CreateDocument
<1>3. Keeps(catalog, cat)
  BY NoneIsNoRow DEF CreateDocument, Keeps, IInv, TypeOK, Catalog, Stored, DocumentRow, document_create
<1>4. executions' \in [Execution -> ExecutionRow \cup {None}] /\ NoNewOutput
  BY <1>2 DEF IInv, TypeOK, NoNewOutput, Stored
<1>5. catalog.costs \subseteq cat.costs /\ configured' \in BOOLEAN
  BY <1>2 DEF IInv, TypeOK, Catalog
<1> HIDE DEF cat
<1> QED
  BY <1>1, <1>2, <1>3, <1>4, <1>5, CommandStep, WriteKeeps

\* accept_mvp_document only sets the acceptance of a row.
LEMMA AcceptDocumentStep ==
    ASSUME IInv, NEW c \in Client, NEW d \in Document, AcceptDocument(c, d)
    PROVE IInv' /\ Keeps(catalog, catalog')
<1> DEFINE cat == [catalog EXCEPT !.documents[d] = document_accept(@)]
<1>1. cat \in Catalog
  <2>1. catalog \in Catalog /\ catalog.documents[d] \in DocumentRow
    BY NoneIsNoRow DEF AcceptDocument, IInv, TypeOK, Catalog
  <2>2. document_accept(catalog.documents[d]) \in DocumentRow
    BY <2>1 DEF document_accept, DocumentRow
  <2>3. [catalog.documents EXCEPT ![d] = document_accept(@)]
            \in [Document -> DocumentRow \cup {None}]
    BY <2>1, <2>2 DEF Catalog
  <2> QED
    BY <2>1, <2>3 DEF Catalog
<1>2. Write(c, cat) /\ StateValid(cat, executions') /\ UNCHANGED <<configured, executions, restarts>>
  BY DEF AcceptDocument
<1>3. Keeps(catalog, cat)
  BY NoneIsNoRow DEF AcceptDocument, Keeps, IInv, TypeOK, Catalog, Stored, DocumentRow, document_accept
<1>4. executions' \in [Execution -> ExecutionRow \cup {None}] /\ NoNewOutput
  BY <1>2 DEF IInv, TypeOK, NoNewOutput, Stored
<1>5. catalog.costs \subseteq cat.costs /\ configured' \in BOOLEAN
  BY <1>2 DEF IInv, TypeOK, Catalog
<1> HIDE DEF cat
<1> QED
  BY <1>1, <1>2, <1>3, <1>4, <1>5, CommandStep, WriteKeeps

\* prepare_knowledge_delivery adds a row for an accepted version.
LEMMA PrepareDeliveryStep ==
    ASSUME IInv, NEW c \in Client, NEW d \in Document, NEW k \in Delivery, PrepareDelivery(c, d, k)
    PROVE IInv' /\ Keeps(catalog, catalog')
<1> DEFINE cat == [catalog EXCEPT !.deliveries[k] = delivery_prepare(d)]
<1>1. cat \in Catalog
  BY NoneIsNoRow DEF IInv, TypeOK, Catalog, DeliveryRow, delivery_prepare
<1>2. Write(c, cat) /\ StateValid(cat, executions') /\ UNCHANGED <<configured, executions, restarts>>
  BY DEF PrepareDelivery
<1>3. Keeps(catalog, cat)
  BY NoneIsNoRow DEF PrepareDelivery, Keeps, IInv, TypeOK, Catalog, Stored, DeliveryRow, delivery_prepare
<1>4. executions' \in [Execution -> ExecutionRow \cup {None}] /\ NoNewOutput
  BY <1>2 DEF IInv, TypeOK, NoNewOutput, Stored
<1>5. catalog.costs \subseteq cat.costs /\ configured' \in BOOLEAN
  BY <1>2 DEF IInv, TypeOK, Catalog
<1> HIDE DEF cat
<1> QED
  BY <1>1, <1>2, <1>3, <1>4, <1>5, CommandStep, WriteKeeps

\* complete_knowledge_delivery only moves Prepared to Delivered.
LEMMA CompleteDeliveryStep ==
    ASSUME IInv, NEW c \in Client, NEW k \in Delivery, CompleteDelivery(c, k)
    PROVE IInv' /\ Keeps(catalog, catalog')
<1> DEFINE cat == [catalog EXCEPT !.deliveries[k] = record_delivered(@)]
<1>1. cat \in Catalog
  <2>1. catalog \in Catalog /\ catalog.deliveries[k] \in DeliveryRow
    BY NoneIsNoRow DEF CompleteDelivery, IInv, TypeOK, Catalog
  <2>2. record_delivered(catalog.deliveries[k]) \in DeliveryRow
    BY <2>1 DEF record_delivered, DeliveryRow
  <2>3. [catalog.deliveries EXCEPT ![k] = record_delivered(@)]
            \in [Delivery -> DeliveryRow \cup {None}]
    BY <2>1, <2>2 DEF Catalog
  <2> QED
    BY <2>1, <2>3 DEF Catalog
<1>2. Write(c, cat) /\ StateValid(cat, executions') /\ UNCHANGED <<configured, executions, restarts>>
  BY DEF CompleteDelivery
<1>3. Keeps(catalog, cat)
  BY NoneIsNoRow DEF CompleteDelivery, Keeps, IInv, TypeOK, Catalog, Stored, DeliveryRow,
      record_delivered
<1>4. executions' \in [Execution -> ExecutionRow \cup {None}] /\ NoNewOutput
  BY <1>2 DEF IInv, TypeOK, NoNewOutput, Stored
<1>5. catalog.costs \subseteq cat.costs /\ configured' \in BOOLEAN
  BY <1>2 DEF IInv, TypeOK, Catalog
<1> HIDE DEF cat
<1> QED
  BY <1>1, <1>2, <1>3, <1>4, <1>5, CommandStep, WriteKeeps

\* record_cost adds one cost of a node that exists.
LEMMA RecordCostStep ==
    ASSUME IInv, NEW c \in Client, NEW e \in Execution, NEW n \in Phase, RecordCost(c, e, n)
    PROVE IInv' /\ Keeps(catalog, catalog')
<1> DEFINE cat == [catalog EXCEPT !.costs = @ \cup {[execution |-> e, node |-> n, source |-> "client"]}]
<1>1. cat \in Catalog
  BY NoneIsNoRow DEF IInv, TypeOK, Catalog, CostRecord
<1>2. Write(c, cat) /\ StateValid(cat, executions') /\ UNCHANGED <<configured, executions, restarts>>
  BY DEF RecordCost
<1>3. Keeps(catalog, cat)
  BY NoneIsNoRow DEF RecordCost, Keeps, IInv, TypeOK, Catalog, Stored, CostRecord
<1>4. executions' \in [Execution -> ExecutionRow \cup {None}] /\ NoNewOutput
  BY <1>2 DEF IInv, TypeOK, NoNewOutput, Stored
<1>5. catalog.costs \subseteq cat.costs /\ configured' \in BOOLEAN
  BY <1>2 DEF IInv, TypeOK, Catalog
<1> HIDE DEF cat
<1> QED
  BY <1>1, <1>2, <1>3, <1>4, <1>5, CommandStep, WriteKeeps

\* The pet commands send back the snapshot; because its revision is the
\* stored one, it is the stored catalog but for the pet.
LEMMA ReplaceStep ==
    ASSUME IInv, NEW c \in Client, ReplaceCatalog(c)
    PROVE IInv' /\ Keeps(catalog, catalog')
<1>1. snapshot[c] = catalog
  BY DEF IInv, SnapshotsCurrent, ReplaceCatalog, ExpectedRevision
<1>2. PICK cat \in Edits(catalog) : validate_m3_catalog(cat) /\ Write(c, cat)
  BY <1>1 DEF ReplaceCatalog
<1>3. \E p \in BOOLEAN : cat = [catalog EXCEPT !.pet = p]
  <2>1. cat \in {apply_builtin_pet(catalog), rollback_builtin_pet(catalog)}
    BY <1>2 DEF Edits, IInv
  <2>2. catalog = [catalog EXCEPT !.pet = catalog.pet] /\ catalog.pet \in BOOLEAN
    BY DEF IInv, TypeOK, Catalog
  <2> QED
    BY <2>1, <2>2 DEF apply_builtin_pet, rollback_builtin_pet
<1>4. cat \in Catalog
  BY <1>3 DEF IInv, TypeOK, Catalog
<1>5. /\ cat.baselines = catalog.baselines /\ cat.costs = catalog.costs
      /\ cat.documents = catalog.documents /\ cat.deliveries = catalog.deliveries
      /\ cat.meeting = catalog.meeting /\ cat.assigned = catalog.assigned
  BY <1>3 DEF IInv, TypeOK, Catalog
<1>6. UNCHANGED <<configured, executions, restarts>>
  BY DEF ReplaceCatalog
<1>7. StateValid(cat, executions')
  BY <1>2, <1>5, <1>6 DEF IInv, LedgerValid, StateValid
<1>8. Keeps(catalog, cat)
  BY <1>5 DEF Keeps, Stored
<1>9. executions' \in [Execution -> ExecutionRow \cup {None}] /\ NoNewOutput /\ configured' \in BOOLEAN
  BY <1>6 DEF IInv, TypeOK, NoNewOutput, Stored
<1> QED
  BY <1>2, <1>4, <1>5, <1>6, <1>7, <1>8, <1>9, CommandStep, WriteKeeps

\* A step that leaves the catalog alone loses nothing.
LEMMA UnchangedCatalogKeeps == ASSUME UNCHANGED catalog PROVE Keeps(catalog, catalog')
  BY DEF Keeps, Stored

\* A started execution of an accepted baseline disturbs no document: the
\* identity it takes was free.
LEMMA StartStep ==
    ASSUME IInv, UNCHANGED <<catalog, configured, snapshot>>, restarts' \subseteq Restart,
           NEW e \in Execution, NEW b \in catalog.baselines, NEW from \in Execution \cup {None},
           executions[e] = None, executions' = [executions EXCEPT ![e] = Start(b, from)]
    PROVE IInv' /\ Keeps(catalog, catalog')
<1>1. Start(b, from) \in ExecutionRow
  BY DEF Start, ExecutionRow, NodeState, Phase, IInv, TypeOK, Catalog
<1>2. executions' \in [Execution -> ExecutionRow \cup {None}]
  BY <1>1 DEF IInv, TypeOK
<1>3. NoNewOutput
  BY DEF NoNewOutput, Stored, Start, IInv, TypeOK
<1>4. StateValid(catalog, executions')
  BY <1>1, NoneIsNoRow DEF IInv, TypeOK, LedgerValid, StateValid, HasOutput, Stored, Start
<1> QED
  BY <1>2, <1>3, <1>4, ExecutionStep, UnchangedCatalogKeeps

\* create_graph_execution: a careful client names an accepted baseline.
LEMMA CreateExecutionStep ==
    ASSUME IInv, NEW e \in Execution, CreateGraphExecution(e)
    PROVE IInv' /\ Keeps(catalog, catalog')
<1>1. PICK b \in catalog.baselines : executions' = [executions EXCEPT ![e] = Start(b, None)]
  BY DEF IInv, CreateGraphExecution, Submitted
<1> QED
  BY <1>1, StartStep DEF CreateGraphExecution, IInv, TypeOK

\* restart_missing_output_graph reuses the baseline of its source.
LEMMA RestartStep ==
    ASSUME IInv, NEW e \in Execution, NEW e2 \in Execution, RestartMissingOutput(e, e2)
    PROVE IInv' /\ Keeps(catalog, catalog')
<1>1. restarts' \subseteq Restart
  BY DEF RestartMissingOutput, Restart, IInv, TypeOK
<1> QED
  BY <1>1, StartStep DEF RestartMissingOutput

\* complete_graph_node ends an open node, which no document refers to.
LEMMA CompleteNodeStep ==
    ASSUME IInv, NEW e \in Execution, NEW n \in Phase, CompleteNode(e, n)
    PROVE IInv' /\ Keeps(catalog, catalog')
<1>1. /\ UNCHANGED <<catalog, configured, snapshot>> /\ restarts' \subseteq Restart
      /\ executions[e] \in ExecutionRow /\ executions[e].nodes[n] = "open"
      /\ executions' = [executions EXCEPT ![e].nodes[n] = "bare"]
  BY DEF CompleteNode, Ready, IInv, TypeOK
<1>2. [executions[e] EXCEPT !.nodes[n] = "bare"] \in ExecutionRow
  BY <1>1 DEF ExecutionRow, NodeState
<1>3. executions' \in [Execution -> ExecutionRow \cup {None}]
  BY <1>1, <1>2 DEF IInv, TypeOK
<1>4. NoNewOutput
  BY <1>1, NoneIsNoRow DEF NoNewOutput, Stored, ExecutionRow, IInv, TypeOK
<1>5. Stored(executions') = Stored(executions)
  BY <1>1, <1>2, NoneIsNoRow DEF Stored, IInv, TypeOK
<1>6. \A x \in Stored(executions) : executions'[x].baseline = executions[x].baseline
  BY <1>1 DEF Stored, IInv, TypeOK, ExecutionRow
<1>7. \A x \in Stored(executions), m \in Phase :
         executions[x].nodes[m] = "output" => executions'[x].nodes[m] = "output"
  BY <1>1 DEF Stored, IInv, TypeOK, ExecutionRow
<1>8. StateValid(catalog, executions')
  BY <1>5, <1>6, <1>7 DEF IInv, LedgerValid, StateValid, HasOutput
<1> QED
  BY <1>1, <1>3, <1>4, <1>8, ExecutionStep, UnchangedCatalogKeeps

\* finish_graph_node_run stores the output and its cost together.
LEMMA FinishRunStep ==
    ASSUME IInv, NEW e \in Execution, NEW n \in Phase, FinishRun(e, n)
    PROVE IInv' /\ Keeps(catalog, catalog')
<1> DEFINE cost == [execution |-> e, node |-> n, source |-> "run"]
<1>1. /\ catalog' = [catalog EXCEPT !.revision = @ + 1, !.costs = @ \cup {cost}]
      /\ executions' = [executions EXCEPT ![e].nodes[n] = "output"]
      /\ executions[e] \in ExecutionRow
      /\ StateValid(catalog', executions')
      /\ catalog.revision < MaxRevision /\ UNCHANGED <<configured, snapshot, restarts>>
  BY DEF FinishRun, Ready, IInv, TypeOK
<1>2. [executions[e] EXCEPT !.nodes[n] = "output"] \in ExecutionRow
  BY <1>1 DEF ExecutionRow, NodeState
<1>3. executions' \in [Execution -> ExecutionRow \cup {None}]
  BY <1>1, <1>2 DEF IInv, TypeOK
<1>4. cost \in CostRecord
  BY DEF CostRecord
<1>5. /\ catalog' \in Catalog /\ catalog'.costs = catalog.costs \cup {cost}
      /\ catalog'.revision = catalog.revision + 1
  <2> HIDE DEF cost
  <2>1. catalog \in Catalog
    BY DEF IInv, TypeOK
  <2>2. /\ catalog'.costs = catalog.costs \cup {cost}
        /\ catalog'.revision = catalog.revision + 1
    BY <1>1, <2>1 DEF Catalog
  <2>3. catalog.costs \cup {cost} \in SUBSET CostRecord
    BY <1>4, <2>1 DEF Catalog
  <2>4. catalog.revision + 1 \in 0..MaxRevision
    BY <1>1, <2>1, M3LedgerAssumption DEF Catalog
  <2>5. catalog' \in Catalog
    BY <1>1, <2>1, <2>3, <2>4 DEF Catalog
  <2> QED
    BY <2>2, <2>5
<1>6. TypeOK' /\ SnapshotsCurrent'
  BY <1>1, <1>3, <1>5, M3LedgerAssumption DEF IInv, TypeOK, SnapshotsCurrent, Catalog
<1>7. EveryOutputIsPriced'
  <2> SUFFICES ASSUME NEW x \in Stored(executions)', NEW m \in Phase,
                      executions'[x].nodes[m] = "output"
               PROVE [execution |-> x, node |-> m, source |-> "run"] \in catalog'.costs
      BY DEF EveryOutputIsPriced, HasOutput
  <2>1. CASE x = e /\ m = n
    BY <2>1, <1>5
  <2>2. CASE ~(x = e /\ m = n)
    <3>1. x \in Stored(executions) /\ executions[x].nodes[m] = "output"
      BY <1>1, <2>2, NoneIsNoRow DEF Stored, IInv, TypeOK, ExecutionRow
    <3> QED
      BY <3>1, <1>5 DEF IInv, EveryOutputIsPriced, HasOutput
  <2> QED
    BY <2>1, <2>2
<1>8. Keeps(catalog, catalog')
  <2>1. /\ catalog'.baselines = catalog.baselines /\ catalog'.documents = catalog.documents
        /\ catalog'.deliveries = catalog.deliveries /\ catalog'.meeting = catalog.meeting
        /\ catalog'.assigned = catalog.assigned
    BY <1>1 DEF IInv, TypeOK, Catalog
  <2> QED
    BY <2>1, <1>5 DEF Keeps, Stored
<1> QED
  BY <1>1, <1>6, <1>7, <1>8 DEF IInv, LedgerValid

\* Every step keeps the invariant and loses nothing.
LEMMA NextStep == IInv /\ [Next]_vars => IInv' /\ Keeps(catalog, catalog')
<1> SUFFICES ASSUME IInv, [Next]_vars PROVE IInv' /\ Keeps(catalog, catalog')
    OBVIOUS
<1>1. ASSUME NEW c \in Client, ClientStep(c) PROVE IInv' /\ Keeps(catalog, catalog')
  BY <1>1, ReadStep, PrepareStep, DecisionStep, CreateDocumentStep, AcceptDocumentStep,
     PrepareDeliveryStep, CompleteDeliveryStep, RecordCostStep, ReplaceStep
     DEF ClientStep, MeetingStep, DocumentStep
<1>2. CASE UNCHANGED vars
  <2>1. IInv'
    BY <1>2 DEF vars, IInv, TypeOK, SnapshotsCurrent, LedgerValid, EveryOutputIsPriced
  <2> QED
    BY <2>1, <1>2, UnchangedCatalogKeeps DEF vars
<1> QED
  BY <1>1, <1>2, CreateExecutionStep, FinishRunStep, CompleteNodeStep, RestartStep
  DEF Next, RetryMissingOutputs

\* As long as clients post only executions of accepted baselines and send
\* back only what the desktop sends, the two tables agree after any
\* interleaving of stale and current commands: no later command is refused
\* by M3State::validate for what is already stored.
THEOREM LedgerValidAlways == CarefulClients /\ Spec => []LedgerValid
<1>1. IInv => LedgerValid
  BY DEF IInv
<1> QED
  BY InitEstablishes, NextStep, <1>1, PTL DEF Spec

\* Every recorded output keeps its cost record (finish_graph_node_run).
THEOREM EveryOutputIsPricedAlways == CarefulClients /\ Spec => []EveryOutputIsPriced
<1>1. IInv => EveryOutputIsPriced
  BY DEF IInv
<1> QED
  BY InitEstablishes, NextStep, <1>1, PTL DEF Spec

\* No command takes back a decision, an acceptance, a delivery or a cost.
THEOREM NothingIsLostAlways == CarefulClients /\ Spec => NothingIsLost
<1>1. NothingIsLost <=> [][Keeps(catalog, catalog')]_vars
  BY DEF NothingIsLost, Keeps
<1>2. IInv /\ [Next]_vars => IInv' /\ [Keeps(catalog, catalog')]_vars
  BY NextStep
<1> QED
  BY InitEstablishes, <1>1, <1>2, PTL DEF Spec

-----------------------------------------------------------------------------
(* Restarts, whatever the clients submit: the check is the Store's own.    *)

ExecutionsTyped == executions \in [Execution -> ExecutionRow \cup {None}]

RestartInv == ExecutionsTyped /\ restarts \subseteq Restart /\ RestartedOnce

\* A step that restarts nothing and unlinks nothing keeps the invariant.
LEMMA LinksStay ==
    ASSUME RestartInv, ExecutionsTyped', UNCHANGED restarts,
           \A x \in Stored(executions) :
               x \in Stored(executions') /\ executions'[x].restarted_from = executions[x].restarted_from
    PROVE RestartInv'
  BY DEF RestartInv, RestartedOnce

\* A node that ends leaves the origin of its execution alone.
LEMMA NodeEndsKeepsRestarts ==
    ASSUME RestartInv, NEW e \in Execution, NEW n \in Phase, NEW s \in NodeState,
           executions[e] # None, executions' = [executions EXCEPT ![e].nodes[n] = s],
           UNCHANGED restarts
    PROVE RestartInv'
<1>1. executions[e] \in ExecutionRow
  BY DEF RestartInv, ExecutionsTyped
<1>2. /\ [executions[e] EXCEPT !.nodes[n] = s] \in ExecutionRow
      /\ [executions[e] EXCEPT !.nodes[n] = s].restarted_from = executions[e].restarted_from
  BY <1>1 DEF ExecutionRow
<1>3. ExecutionsTyped'
  BY <1>2 DEF RestartInv, ExecutionsTyped
<1>4. \A x \in Stored(executions) :
         x \in Stored(executions') /\ executions'[x].restarted_from = executions[x].restarted_from
  BY <1>2, NoneIsNoRow DEF RestartInv, ExecutionsTyped, Stored
<1> QED
  BY <1>3, <1>4, LinksStay

\* A row stored under a free identity is none of the restarts so far.
LEMMA NewRowKeepsRestarts ==
    ASSUME RestartInv, NEW e \in Execution, NEW row \in ExecutionRow,
           executions[e] = None, executions' = [executions EXCEPT ![e] = row]
    PROVE /\ ExecutionsTyped'
          /\ e \in Stored(executions')
          /\ \A x \in Stored(executions) :
                x # e /\ x \in Stored(executions') /\ executions'[x] = executions[x]
  BY NoneIsNoRow DEF RestartInv, ExecutionsTyped, Stored

\* A fresh execution is a row.
LEMMA StartIsRow ==
    ASSUME NEW b \in Baseline, NEW from \in Execution \cup {None}
    PROVE Start(b, from) \in ExecutionRow /\ Start(b, from).restarted_from = from
  BY DEF Start, ExecutionRow, NodeState, Phase

\* restart_missing_output_graph restarts what no stored execution restarts,
\* hence none of what it restarted before.
LEMMA RestartKeepsOnce ==
    ASSUME RestartInv, NEW e \in Execution, NEW e2 \in Execution, RestartMissingOutput(e, e2)
    PROVE RestartInv'
<1> DEFINE row == Start(executions[e].baseline, e)
           new == [original |-> e, restart |-> e2]
<1>1. row \in ExecutionRow /\ row.restarted_from = e
  <2>1. executions[e].baseline \in Baseline
    BY DEF RestartMissingOutput, RestartInv, ExecutionsTyped, ExecutionRow
  <2> QED
    BY <2>1, StartIsRow
<1>2. /\ executions[e2] = None /\ executions' = [executions EXCEPT ![e2] = row]
      /\ restarts' = restarts \cup {new}
      /\ \A x \in Stored(executions) : executions[x].restarted_from # e
  BY DEF RestartMissingOutput
<1>3. new \in Restart /\ new.original = e /\ new.restart = e2
  BY DEF Restart
<1> HIDE DEF row, new
<1>4. /\ ExecutionsTyped' /\ e2 \in Stored(executions')
      /\ \A x \in Stored(executions) : x \in Stored(executions') /\ executions'[x] = executions[x]
  BY <1>1, <1>2, NewRowKeepsRestarts
<1>5. executions'[e2] = row
  BY <1>2 DEF RestartInv, ExecutionsTyped
<1>6. \A r \in restarts : r.original # e
  BY <1>2 DEF RestartInv, RestartedOnce
<1>7. \A r \in restarts' :
         r.restart \in Stored(executions') /\ executions'[r.restart].restarted_from = r.original
  BY <1>1, <1>2, <1>3, <1>4, <1>5 DEF RestartInv, RestartedOnce
<1>8. \A r1, r2 \in restarts' : r1.original = r2.original => r1 = r2
  BY <1>2, <1>3, <1>6 DEF RestartInv, RestartedOnce
<1>9. restarts' \subseteq Restart
  BY <1>2, <1>3 DEF RestartInv
<1> QED
  BY <1>4, <1>7, <1>8, <1>9 DEF RestartInv, RestartedOnce

\* The Store restarts an execution with missing outputs at most once, also when
\* clients submit catalogs and executions the desktop would not, among them
\* executions that claim any predecessor, outputs and progress.
THEOREM RestartedOnceAlways == Spec => []RestartedOnce
<1>1. Init => RestartInv
  BY DEF Init, RestartInv, ExecutionsTyped, RestartedOnce, Stored
<1>2. RestartInv /\ [Next]_vars => RestartInv'
  <2> SUFFICES ASSUME RestartInv, [Next]_vars PROVE RestartInv'
      OBVIOUS
  <2>1. ASSUME UNCHANGED <<executions, restarts>> PROVE RestartInv'
    BY <2>1 DEF RestartInv, ExecutionsTyped, RestartedOnce, Stored
  <2>7. ASSUME NEW e \in Execution, NEW row \in ExecutionRow, executions[e] = None,
               executions' = [executions EXCEPT ![e] = row], UNCHANGED restarts
        PROVE RestartInv'
    BY <2>7, NewRowKeepsRestarts, LinksStay
  <2>2. ASSUME NEW c \in Client, ClientStep(c) PROVE RestartInv'
    <3>1. ASSUME NEW b \in Baseline, NEW e \in Execution, AcceptDecision(c, b, e)
          PROVE RestartInv'
      <4>1. /\ executions[e] = None /\ executions' = [executions EXCEPT ![e] = Start(b, None)]
            /\ UNCHANGED restarts
        BY <3>1 DEF AcceptDecision
      <4> QED
        BY <4>1, <2>7, StartIsRow
    <3>2. CASE ~ \E b \in Baseline, e \in Execution : AcceptDecision(c, b, e)
      <4>1. UNCHANGED <<executions, restarts>>
        BY <2>2, <3>2 DEF ClientStep, MeetingStep, DocumentStep, Read, Refused, PrepareMvp,
            CreateDocument, AcceptDocument, PrepareDelivery, CompleteDelivery, RecordCost,
            ReplaceCatalog
      <4> QED
        BY <2>1, <4>1
    <3> QED
      BY <3>1, <3>2
  <2>3. ASSUME NEW e \in Execution, CreateGraphExecution(e) PROVE RestartInv'
    <3>1. PICK row \in Submitted : executions' = [executions EXCEPT ![e] = row]
      BY <2>3 DEF CreateGraphExecution
    <3>2. executions[e] = None /\ UNCHANGED restarts
      BY <2>3 DEF CreateGraphExecution
    <3>3. row \in ExecutionRow
      BY DEF Submitted
    <3> QED
      BY <3>1, <3>2, <3>3, <2>7
  <2>4. ASSUME NEW e \in Execution, NEW n \in Phase, FinishRun(e, n) \/ CompleteNode(e, n)
        PROVE RestartInv'
    <3>1. PICK s \in {"output", "bare"} : executions' = [executions EXCEPT ![e].nodes[n] = s]
      BY <2>4 DEF FinishRun, CompleteNode
    <3>2. executions[e] # None /\ s \in NodeState /\ UNCHANGED restarts
      BY <2>4 DEF FinishRun, CompleteNode, Ready, NodeState
    <3> QED
      BY <3>1, <3>2, NodeEndsKeepsRestarts
  <2>6. CASE UNCHANGED vars
    BY <2>1, <2>6 DEF vars
  <2> QED
    BY <2>2, <2>3, <2>4, <2>6, RestartKeepsOnce DEF Next, RetryMissingOutputs
<1>3. RestartInv => RestartedOnce
  BY DEF RestartInv
<1> QED
  BY <1>1, <1>2, <1>3, PTL DEF Spec
=============================================================================
