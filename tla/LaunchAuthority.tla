--------------------------- MODULE LaunchAuthority ---------------------------
(***************************************************************************)
(* Whose credential a run may use, and under which policy: the identity    *)
(* catalog (crates/bastet-core/src/catalog.rs, identity.rs, policy.rs),    *)
(* the checks of an approval against it (approval.rs), the launch plan     *)
(* saved with an attempt (crates/bastet-daemon/src/provider_launch.rs) and *)
(* the places of the daemon that compare the two before a credential grant *)
(* is issued or spent and before a provider is started.                    *)
(*                                                                         *)
(* StagedLaunch has the tables, the clock and the crashes and knows of all *)
(* this only whether a saved plan is still current; here the catalog       *)
(* itself is edited, entity by entity, while a launch is on its way.  Ids  *)
(* are unique because a catalog is a function of them; a session is part   *)
(* of its run, a model provider of its model; one graph node of one        *)
(* execution is launched.                                                  *)
(***************************************************************************)
EXTENDS Naturals, FiniteSets

CONSTANTS
    ProviderId, AccountId, RefId, ModelId, AgentId, ProjectId, RoleId,  \* catalog ids
    RunId, RequestId,
    Text,      \* what the free text of an entity may be
    Blank,     \* ... when it is empty or only white space
    Ceiling,   \* the policy ceilings in use
    NodeRole,  \* the role of the graph node, and the project of the
    NodeProject,  \* meeting whose baseline the graph carries out
    SeedCatalog, SeedM3,  \* the catalogs configured before the first launch
    None,
    MaxEdits   \* bound: replacements of a catalog

Field == {"filesystem", "network", "process", "device", "credential"}

\* PermissionLevel and PolicyLayer are ordered in the code.
Deny == 0
Observe == 1
Use == 2
Project == 1
RoleOrAgent == 2
SingleRun == 3

ASSUME LaunchAuthorityAssumption ==
    /\ NodeRole \in RoleId /\ NodeProject \in ProjectId
    /\ Blank \in Text
    /\ Ceiling \subseteq [level : [Field -> {Deny, Observe, Use}], persistent : BOOLEAN]
    /\ None \notin UNION {ProviderId, AccountId, RefId, ModelId, AgentId, RoleId, RunId,
                          RequestId, Text}
    /\ RunId \cap RequestId = {}
    /\ MaxEdits \in Nat

VARIABLES
    catalog,   \* identity_catalog
    m3,        \* m3_catalog: pet assignments and the decision baseline
    plans,     \* provider_launch_plans of the graph's attempts
    staged,    \* staged_provider_launches
    requests,  \* approval_requests that ask for a credential
    grants,    \* credential_grants
    worker,    \* the executor's worker for a run without an account
    edits,     \* bounded counter
    consent,   \* history: what the catalogs said when an attempt began and
               \* when a request was approved,
    used       \* ... when a worker was started and when a grant was spent

tables == <<plans, staged, requests, grants>>
history == <<consent, used>>
vars == <<catalog, m3, tables, worker, edits, history>>

Maybe(S) == S \cup {None}

-----------------------------------------------------------------------------
(* Policies.                                                               *)

Policy == [layer : {Project, RoleOrAgent, SingleRun}, ceiling : Ceiling]

\* ScopedPolicy::restrict succeeds: the child's layer is more specific and
\* nothing in it exceeds the parent.
restrict(parent, child) ==
    /\ child.layer > parent.layer
    /\ \A f \in Field : child.ceiling.level[f] <= parent.ceiling.level[f]
    /\ child.ceiling.persistent => parent.ceiling.persistent

\* The operations the online CLI cannot do without.
OnlineCli ==
    [layer |-> SingleRun,
     ceiling |-> [level |-> [f \in Field |-> CASE f = "filesystem" -> Observe
                                               [] f = "device" -> Deny
                                               [] OTHER -> Use],
                  persistent |-> FALSE]]

\* The policy the daemon asks approval for.
CredentialOnly ==
    [layer |-> SingleRun,
     ceiling |-> [level |-> [f \in Field |-> IF f = "credential" THEN Use ELSE Deny],
                  persistent |-> FALSE]]

-----------------------------------------------------------------------------
(* The catalog.                                                            *)

Reference == [active : BOOLEAN, locator : Text]
AgentProvider == [active : BOOLEAN, adapter_kind : Text]
Account == [active : BOOLEAN, provider : ProviderId, identity : Text, reference : Maybe(RefId)]
Model == [active : BOOLEAN, name : Text]
AgentInstance == [active : BOOLEAN, provider : ProviderId, account : Maybe(AccountId),
                  model : Maybe(ModelId)]
ProjectRow == [active : BOOLEAN, root : Text, policy : Policy]
RoleRow == [active : BOOLEAN, policy : Policy]
RunState == {"Starting", "AwaitingApproval", "Cancelled", "Blocked"}
Run == [agent : AgentId, project : ProjectId, model : ModelId,
        state : RunState, started : BOOLEAN, finished : BOOLEAN]

IdentityCatalog ==
    [references : [RefId -> Maybe(Reference)], providers : [ProviderId -> Maybe(AgentProvider)],
     accounts : [AccountId -> Maybe(Account)], models : [ModelId -> Maybe(Model)],
     agents : [AgentId -> Maybe(AgentInstance)], projects : [ProjectId -> Maybe(ProjectRow)],
     roles : [RoleId -> Maybe(RoleRow)], runs : [RunId -> Maybe(Run)]]

M3Catalog == [assigned : [ProjectId \X RoleId -> Maybe([active : BOOLEAN, agent : AgentId])],
              baseline : Text]

\* The ids a catalog has entities for.
Known(entities) == {id \in DOMAIN entities : entities[id] # None}

validate_required_fields(cat) ==
    /\ \A c \in Known(cat.references) : cat.references[c].locator # Blank
    /\ \A p \in Known(cat.providers) : cat.providers[p].adapter_kind # Blank
    /\ \A a \in Known(cat.accounts) : cat.accounts[a].identity # Blank
    /\ \A m \in Known(cat.models) : cat.models[m].name # Blank
    /\ \A j \in Known(cat.projects) :
          cat.projects[j].root # Blank /\ cat.projects[j].policy.layer = Project
    /\ \A w \in Known(cat.roles) : cat.roles[w].policy.layer = RoleOrAgent

\* Only a run that waits, has just been created or was cancelled may lack a
\* start; a terminal one has an end.
validate_run_timing(run) ==
    /\ run.state = "Blocked" => run.started
    /\ run.state = "Cancelled" => run.finished

\* IdentityCatalog::validate
validate(cat) ==
    /\ validate_required_fields(cat)
    /\ \A a \in Known(cat.accounts) :
          /\ cat.accounts[a].provider \in Known(cat.providers)
          /\ cat.accounts[a].reference \in Maybe(Known(cat.references))
    /\ \A g \in Known(cat.agents) :
          LET agent == cat.agents[g]
          IN  /\ agent.provider \in Known(cat.providers)
              /\ agent.account \in Maybe(Known(cat.accounts))
              /\ agent.account # None => cat.accounts[agent.account].provider = agent.provider
              /\ agent.model \in Maybe(Known(cat.models))
    /\ \A r \in Known(cat.runs) :
          LET run == cat.runs[r]
          IN  /\ run.agent \in Known(cat.agents) /\ run.project \in Known(cat.projects)
              /\ run.model \in Known(cat.models)
              /\ validate_run_timing(run)

\* M3State::validate, as far as it looks at the identity catalog.
validate_m3(m, cat) ==
    /\ \A slot \in Known(m.assigned) :
          /\ slot[1] \in Known(cat.projects) /\ slot[2] \in Known(cat.roles)
          /\ m.assigned[slot].agent \in Known(cat.agents)
    /\ NodeProject \in Known(cat.projects) /\ NodeRole \in Known(cat.roles)

-----------------------------------------------------------------------------
(* Resolving the launch, and the plan saved for it.                        *)

\* The credential and the account an agent would use.
SelectedAccount(cat, g) ==
    LET a == cat.agents[g].account
        c == cat.accounts[a].reference
    IN  IF a = None THEN None
        ELSE [account |-> a, identity |-> cat.accounts[a].identity,
              credential |-> IF c = None THEN None
                             ELSE [reference |-> c, locator |-> cat.references[c].locator]]

NodeSlot == <<NodeProject, NodeRole>>

\* resolve_provider_run_binding finds what it needs.
CanResolve(cat, m) ==
    /\ NodeSlot \in Known(m.assigned)
    /\ cat.agents[m.assigned[NodeSlot].agent].model # None

\* resolve_provider_run_binding; the prompt is the baseline (the outputs of
\* the node's dependencies do not change any more).
resolve_provider_run_binding(cat, m) ==
    LET g == m.assigned[NodeSlot].agent
        agent == cat.agents[g]
    IN  [identity |-> [agent |-> g, provider |-> agent.provider,
                       adapter_kind |-> cat.providers[agent.provider].adapter_kind,
                       project |-> NodeProject,
                       model |-> agent.model, model_name |-> cat.models[agent.model].name,
                       account |-> SelectedAccount(cat, g)],
         workspace_root |-> cat.projects[NodeProject].root,
         prompt |-> m.baseline]

\* LaunchPolicySnapshot::capture, and when it succeeds.
capture(cat) ==
    [project |-> cat.projects[NodeProject].policy, role |-> cat.roles[NodeRole].policy]

CanCapture(cat) ==
    /\ cat.projects[NodeProject].active /\ cat.roles[NodeRole].active
    /\ restrict(capture(cat).project, capture(cat).role)

validate_current_policy(plan, cat) == CanCapture(cat) /\ plan.policy = capture(cat)

validate_online_cli_requirements(plan) == restrict(plan.policy.role, OnlineCli)

\* The binding is still the planned one.
SameBinding(plan, cat, m) ==
    CanResolve(cat, m) /\ plan.binding = resolve_provider_run_binding(cat, m)

\* ProviderLaunchPlan, as begin_graph_node_run_inner saves it.
NewPlan == [binding |-> resolve_provider_run_binding(catalog, m3), policy |-> capture(catalog)]

-----------------------------------------------------------------------------
(* Approval requests for the use of a credential ("credential.use").       *)

\* approval_action: what the daemon asks for a plan with a credential.
approval_action(plan, r) ==
    LET id == plan.binding.identity
    IN  [agent |-> id.agent, role |-> NodeRole, project |-> id.project, run |-> r,
         binding |-> [provider |-> id.provider, adapter_kind |-> id.adapter_kind,
                      account |-> id.account.account, identity |-> id.account.identity,
                      reference |-> id.account.credential.reference,
                      locator |-> id.account.credential.locator],
         policy |-> CredentialOnly]

\* validate_action, for an action that carries a credential binding and hence
\* a high risk.
validate_action(action, parent) ==
    /\ action.policy.layer = SingleRun
    /\ restrict(parent, action.policy)
    /\ action.policy.ceiling.level["credential"] = Use
    /\ ~action.policy.ceiling.persistent

\* ApprovalRequest::create; its hash keeps the action from being changed later.
NewRequest(action) == [action |-> action, decision |-> None]

\* Mutant: a disabled account or credential reference is overlooked.
validate_credential_binding_Disabled(action, cat) ==
    LET agent == cat.agents[action.agent]
        b == action.binding
    IN  /\ agent.active /\ cat.projects[action.project].active
        /\ agent.provider = b.provider /\ agent.account = b.account
        /\ b.reference \in Known(cat.references)

\* Every entity the binding names is active and is what the binding says.
validate_credential_binding(action, cat) ==
    LET agent == cat.agents[action.agent]
        b == action.binding
    IN  /\ agent.active /\ cat.projects[action.project].active
        /\ agent.provider = b.provider
        /\ b.provider \in Known(cat.providers)
        /\ cat.providers[b.provider].active
        /\ cat.providers[b.provider].adapter_kind = b.adapter_kind
        /\ agent.account = b.account
        /\ b.account \in Known(cat.accounts)
        /\ cat.accounts[b.account] = [active |-> TRUE, provider |-> b.provider,
                                      identity |-> b.identity, reference |-> b.reference]
        /\ b.reference \in Known(cat.references)
        /\ cat.references[b.reference] = [active |-> TRUE, locator |-> b.locator]
        /\ cat.roles[action.role].active

\* ApprovalRequest::validate_against
validate_against(action, cat) ==
    /\ action.agent \in Known(cat.agents)
    /\ action.project \in Known(cat.projects)
    /\ restrict(cat.projects[action.project].policy, action.policy)
    /\ action.role \in Known(cat.roles)
    /\ action.run \in Known(cat.runs)
    /\ cat.runs[action.run].agent = action.agent
    /\ cat.runs[action.run].project = action.project
    /\ action.binding.reference \in Known(cat.references)
    /\ LET a == cat.agents[action.agent].account
       IN  a # None /\ cat.accounts[a].reference = action.binding.reference
    /\ validate_credential_binding(action, cat)
    /\ validate_action(action, cat.roles[action.role].policy)

\* The roles in which the agent of an action works for the project.
Assignments(action) ==
    {w \in RoleId : LET slot == <<action.project, w>>
                    IN  /\ slot \in Known(m3.assigned)
                        /\ m3.assigned[slot] = [active |-> TRUE, agent |-> action.agent]}

Undispatched(r) == staged[r] # None /\ staged[r].state \in {"awaiting_approval", "ready"}

\* validate_current_catalog: asked when a request is made by a client, when it
\* is approved and when its grant is spent.
validate_current_catalog(q, action) ==
    LET r == action.run
        run == catalog.runs[r]
    IN  /\ validate_against(action, catalog)
        /\ ~run.finished
        /\ IF staged[r] # None
           THEN /\ staged[r].request = q /\ Undispatched(r)
                /\ run.state = "AwaitingApproval" /\ ~run.started
           ELSE run.state = "Starting"
        /\ action.role \in Assignments(action)
        /\ IF plans[r] # None
           THEN /\ action.role = NodeRole
                /\ validate_current_policy(plans[r], catalog)
                /\ SameBinding(plans[r], catalog, m3)
                /\ plans[r].binding.identity.agent = action.agent
                /\ plans[r].binding.identity.project = action.project
                /\ plans[r].binding.identity.model = run.model
           ELSE Cardinality(Assignments(action)) = 1

\* validate_staged_context with live authority
LiveAuthority(r) ==
    /\ validate_against(requests[staged[r].request].action, catalog)
    /\ validate_current_policy(plans[r], catalog)
    /\ validate_online_cli_requirements(plans[r])
    /\ SameBinding(plans[r], catalog, m3)

-----------------------------------------------------------------------------
(* The rows of the tables.                                                 *)

\* The account a plan uses, and the credential behind it if there is one.
CredentialUse == [reference : RefId, locator : Text]
AccountUse == [account : AccountId, identity : Text, credential : Maybe(CredentialUse)]

Binding ==
    [identity : [agent : AgentId, provider : ProviderId, adapter_kind : Text,
                 project : ProjectId, model : ModelId, model_name : Text,
                 account : Maybe(AccountUse)],
     workspace_root : Text, prompt : Text]
Plan == [binding : Binding, policy : [project : Policy, role : Policy]]

Action ==
    [agent : AgentId, role : RoleId, project : ProjectId, run : RunId,
     binding : [provider : ProviderId, adapter_kind : Text, account : AccountId,
                identity : Text, reference : RefId, locator : Text],
     policy : {CredentialOnly, OnlineCli}]
Request == [action : Action, decision : Maybe({"Approve", "Deny"})]

StagedRow == [request : RequestId,
              state : {"awaiting_approval", "ready", "dispatching", "cancelled"}]

-----------------------------------------------------------------------------
(* Replacing a catalog.                                                    *)

\* What a field may be set to.
Values ==
    [active |-> BOOLEAN, locator |-> Text, adapter_kind |-> Text, identity |-> Text,
     name |-> Text, root |-> Text, policy |-> Policy, provider |-> ProviderId,
     reference |-> Maybe(RefId), account |-> Maybe(AccountId), model |-> Maybe(ModelId)]

RowEdits(table, id) ==
    LET row == catalog[table][id]
    IN  IF row = None THEN {SeedCatalog[table][id]}
        ELSE {None} \cup UNION {{[row EXCEPT ![f] = v] : v \in Values[f]} : f \in DOMAIN row}

RunEdits ==
    {None} \cup [agent : AgentId, project : ProjectId, model : ModelId, finished : {FALSE},
                 state : {"Starting", "AwaitingApproval"}, started : BOOLEAN]

\* What a client may send: the catalog it read with one field changed, one
\* entity removed or put back, or a run added or tampered with.
CatalogEdits ==
    (UNION {UNION {{[catalog EXCEPT ![table][id] = row] : row \in RowEdits(table, id)} :
                     id \in DOMAIN catalog[table]} :
              table \in DOMAIN catalog \ {"runs"}})
    \cup {[catalog EXCEPT !.runs[r] = run] : r \in RunId, run \in RunEdits}

\* Runs and sessions belong to the daemon: a client may neither change nor
\* remove one, and a run it adds has not begun.
KeepsRuns(new) ==
    \A r \in RunId :
        IF catalog.runs[r] # None THEN new.runs[r] = catalog.runs[r]
        ELSE new.runs[r] # None => new.runs[r].state = "Starting" /\ ~new.runs[r].started

\* replace_catalog, with the current revision (any other is refused).
ReplaceCatalog(new) ==
    /\ edits < MaxEdits /\ edits' = edits + 1
    /\ new # catalog
    /\ validate(new)
    /\ KeepsRuns(new)
    /\ validate_m3(m3, new)
    /\ catalog' = new
    /\ UNCHANGED <<m3, tables, worker, history>>

M3Edits ==
    {[m3 EXCEPT !.baseline = t] : t \in Text \ {Blank}}
    \cup UNION {{[m3 EXCEPT !.assigned[slot] = row] :
                    row \in Maybe([active : BOOLEAN, agent : AgentId])} :
                  slot \in DOMAIN m3.assigned}

\* replace_m3_catalog, by a client that keeps the meeting and its baseline.
ReplaceM3Catalog(new) ==
    /\ edits < MaxEdits /\ edits' = edits + 1
    /\ new # m3
    /\ validate_m3(new, catalog)
    /\ m3' = new
    /\ UNCHANGED <<catalog, tables, worker, history>>

-----------------------------------------------------------------------------
(* What the catalog says about a run: the reference the properties use.    *)

\* The account and the credential behind an agent.
Credential(g) ==
    LET a == catalog.agents[g].account
        c == catalog.accounts[a].reference
    IN  IF a = None \/ c = None THEN None
        ELSE <<catalog.agents[g].provider, a, catalog.accounts[a].identity,
               c, catalog.references[c].locator>>

\* What it may be.
CredentialTerm == ProviderId \X AccountId \X Text \X RefId \X Text

\* What a launch of the graph node depends on.
Terms ==
    IF ~CanResolve(catalog, m3) THEN None
    ELSE LET g == m3.assigned[NodeSlot].agent
             agent == catalog.agents[g]
         IN  [agent |-> g, provider |-> agent.provider,
              adapter_kind |-> catalog.providers[agent.provider].adapter_kind,
              model |-> agent.model, model_name |-> catalog.models[agent.model].name,
              account |-> agent.account,
              project |-> catalog.projects[NodeProject], role |-> catalog.roles[NodeRole],
              prompt |-> m3.baseline]

\* The terms there may be.
TermsRow ==
    [agent : AgentId, provider : ProviderId, adapter_kind : Text, model : ModelId,
     model_name : Text, account : Maybe(AccountId), project : ProjectRow, role : RoleRow,
     prompt : Text]

\* Everybody involved is active, and both ceilings leave room for the action.
Permitted(action) ==
    LET agent == catalog.agents[action.agent]
        within(policy) == \A f \in Field :
            action.policy.ceiling.level[f] <= policy.ceiling.level[f]
    IN  /\ agent.active /\ catalog.providers[agent.provider].active
        /\ Credential(action.agent) # None /\ catalog.accounts[agent.account].active
        /\ catalog.references[action.binding.reference].active
        /\ catalog.projects[action.project].active /\ catalog.roles[action.role].active
        /\ m3.assigned[<<action.project, action.role>>] =
              [active |-> TRUE, agent |-> action.agent]
        /\ within(catalog.roles[action.role].policy)
        /\ within(catalog.projects[action.project].policy)

\* A launch that is not of the graph has no plan, and no terms.
Authority(action) ==
    [credential |-> Credential(catalog.runs[action.run].agent),
     adapter_kind |-> catalog.providers[catalog.agents[action.agent].provider].adapter_kind,
     terms |-> IF plans[action.run] = None THEN None ELSE Terms,
     permitted |-> Permitted(action)]

-----------------------------------------------------------------------------
(* Beginning an attempt.                                                   *)

\* The run the daemon adds to the catalog, with its session.
NewRun(r, state) ==
    [catalog EXCEPT !.runs[r] =
        [agent |-> NewPlan.binding.identity.agent, project |-> NodeProject,
         model |-> NewPlan.binding.identity.model,
         state |-> state, started |-> state = "Starting", finished |-> FALSE]]

\* begin_graph_node_run_inner up to the plan; one attempt holds the node.
Begin(r, state) ==
    /\ catalog.runs[r] = None
    /\ \A other \in RunId : plans[other] # None => catalog.runs[other].finished
    /\ CanResolve(catalog, m3) /\ CanCapture(catalog)
    /\ catalog' = NewRun(r, state)
    /\ plans' = [plans EXCEPT ![r] = NewPlan]
    /\ consent' = [consent EXCEPT ![r] =
                    [terms |-> Terms, credential |-> Credential(Terms.agent)]]
    /\ UNCHANGED <<m3, grants, edits, used>>

\* execute_ready_graph for an agent with an account: the launch is staged and
\* its approval requested (stage).
Stage(r, q) ==
    /\ requests[q] = None
    /\ Begin(r, "AwaitingApproval")
    /\ LET account == NewPlan.binding.identity.account
       IN  account # None /\ account.credential # None
    /\ LET action == approval_action(NewPlan, r)
       IN  /\ validate_online_cli_requirements(NewPlan)
           /\ validate_action(action, catalog.roles[NodeRole].policy)
           /\ validate_against(action, catalog')
           /\ requests' = [requests EXCEPT ![q] = NewRequest(action)]
    /\ staged' = [staged EXCEPT ![r] = [request |-> q, state |-> "awaiting_approval"]]
    /\ UNCHANGED worker

\* execute_ready_graph for an agent without one: a worker is started.
BeginDirect(r) ==
    /\ Begin(r, "Starting")
    /\ NewPlan.binding.identity.account = None
    /\ worker' = [worker EXCEPT ![r] = "starting"]
    /\ UNCHANGED <<staged, requests>>

\* The manual route: the run starts, and somebody else works on it.
BeginManual(r) ==
    /\ Begin(r, "Starting")
    /\ UNCHANGED <<staged, requests, worker>>

-----------------------------------------------------------------------------
(* Approvals and grants.                                                   *)

\* A binding as a client reads it off a catalog.
BindingOf(cat, g) ==
    LET agent == cat.agents[g]
        account == cat.accounts[agent.account]
    IN  [provider |-> agent.provider, adapter_kind |-> cat.providers[agent.provider].adapter_kind,
         account |-> agent.account, identity |-> account.identity,
         reference |-> account.reference,
         locator |-> cat.references[account.reference].locator]

HasCredential(cat, g) ==
    /\ g \in Known(cat.agents) /\ cat.agents[g].account # None
    /\ cat.accounts[cat.agents[g].account].reference # None

\* Requests a client may make: of the current catalog or of the first one.
ClientActions(r) ==
    UNION {[agent : AgentId, role : RoleId, project : ProjectId, run : {r},
            binding : {BindingOf(cat, g) : g \in {h \in AgentId : HasCredential(cat, h)}},
            policy : {CredentialOnly, OnlineCli}] : cat \in {catalog, SeedCatalog}}

\* create_approval
CreateApproval(q, action) ==
    /\ requests[q] = None
    /\ validate_current_catalog(q, action)
    /\ requests' = [requests EXCEPT ![q] = NewRequest(action)]
    /\ UNCHANGED <<catalog, m3, plans, staged, grants, worker, edits, history>>

IsStagedRequest(q) ==
    LET r == requests[q].action.run IN staged[r] # None /\ staged[r].request = q

\* decide_approval with Approve, and on_decision for a staged launch.
Approve(q) ==
    /\ requests[q] # None /\ requests[q].decision = None
    /\ LET action == requests[q].action
       IN  /\ validate_current_catalog(q, action)
           /\ IF IsStagedRequest(q)
              THEN /\ staged[action.run].state = "awaiting_approval"
                   /\ LiveAuthority(action.run)
                   /\ staged' = [staged EXCEPT ![action.run].state = "ready"]
              ELSE UNCHANGED staged
           /\ consent' = [consent EXCEPT ![q] = Authority(action)]
    /\ requests' = [requests EXCEPT ![q].decision = "Approve"]
    /\ grants' = [grants EXCEPT ![q] = "issued"]
    /\ UNCHANGED <<catalog, m3, plans, worker, edits, used>>

\* cancel_for_request: an undispatched launch ends.
cancel_for_request(q) ==
    LET r == requests[q].action.run
    IN  IF IsStagedRequest(q) /\ Undispatched(r)
        THEN /\ staged' = [staged EXCEPT ![r].state = "cancelled"]
             /\ catalog' = [catalog EXCEPT !.runs[r].state = "Cancelled",
                                           !.runs[r].finished = TRUE]
        ELSE UNCHANGED <<staged, catalog>>

\* decide_approval with Deny
DenyRequest(q) ==
    /\ requests[q] # None /\ requests[q].decision = None
    /\ IsStagedRequest(q) => staged[requests[q].action.run].state = "awaiting_approval"
    /\ cancel_for_request(q)
    /\ requests' = [requests EXCEPT ![q].decision = "Deny"]
    /\ UNCHANGED <<m3, plans, grants, worker, edits, history>>

\* revoke_credential_grant, or the cancellation or expiry of a staged launch.
Withdraw(q) ==
    /\ requests[q] # None
    /\ grants[q] = "issued" \/ (IsStagedRequest(q) /\ Undispatched(requests[q].action.run))
    /\ cancel_for_request(q)
    /\ grants' = [grants EXCEPT ![q] = IF @ = "issued" THEN "revoked" ELSE @]
    /\ UNCHANGED <<m3, plans, requests, worker, edits, history>>

\* The grant is consumed, under the catalogs as they are now.
Spend(q) ==
    /\ grants[q] = "issued"
    /\ validate_current_catalog(q, requests[q].action)
    /\ grants' = [grants EXCEPT ![q] = "spent"]
    /\ used' = [used EXCEPT ![q] = Authority(requests[q].action)]
    /\ UNCHANGED <<m3, plans, requests, worker, edits, consent>>

\* consume_credential_grant: for a run that was not staged.
ConsumeGrant(q) ==
    /\ requests[q] # None /\ ~IsStagedRequest(q)
    /\ Spend(q)
    /\ UNCHANGED <<catalog, staged>>

\* claim_staged_dispatch
ClaimDispatch(r) ==
    /\ staged[r] # None /\ staged[r].state = "ready"
    /\ validate_online_cli_requirements(plans[r])
    /\ Spend(staged[r].request)
    /\ staged' = [staged EXCEPT ![r].state = "dispatching"]
    /\ catalog' = [catalog EXCEPT !.runs[r].state = "Starting", !.runs[r].started = TRUE]

-----------------------------------------------------------------------------
(* Starting a provider that uses its own login.                            *)

\* Mutant: the worker trusts the plan it was started with.
preflight_provider_launch_Trusting(r) == catalog.runs[r].state = "Starting"

\* preflight_provider_launch
preflight_provider_launch(r) ==
    /\ catalog.runs[r].state = "Starting" /\ ~catalog.runs[r].finished
    /\ SameBinding(plans[r], catalog, m3)
    /\ validate_current_policy(plans[r], catalog)
    /\ catalog.runs[r].model = plans[r].binding.identity.model
    /\ catalog.runs[r].agent = plans[r].binding.identity.agent

\* SystemProviderRunner::run starts the provider, or ends the run Blocked.  An
\* edit after the last preflight changes nothing it uses: that is the plan's.
RunProvider(r) ==
    /\ worker[r] = "starting"
    /\ IF preflight_provider_launch(r) /\ validate_online_cli_requirements(plans[r])
       THEN /\ worker' = [worker EXCEPT ![r] = "launched"]
            /\ used' = [used EXCEPT ![r] = Terms]
            /\ UNCHANGED catalog
       ELSE /\ worker' = [worker EXCEPT ![r] = "refused"]
            /\ catalog' = [catalog EXCEPT !.runs[r].state = "Blocked",
                                          !.runs[r].finished = TRUE]
            /\ UNCHANGED used
    /\ UNCHANGED <<m3, tables, edits, consent>>

-----------------------------------------------------------------------------
\* The catalogs configured first were validated like any other.
ASSUME SeedsAreValid ==
    /\ SeedCatalog \in IdentityCatalog /\ validate(SeedCatalog)
    /\ SeedM3 \in M3Catalog /\ validate_m3(SeedM3, SeedCatalog)

\* None stands for an absent row or value and is none itself.
ASSUME NoneIsNoRow ==
    /\ None \notin CredentialUse \cup AccountUse \cup Plan \cup Request \cup StagedRow
                      \cup Run \cup CredentialTerm \cup TermsRow
    /\ None \notin {"issued", "spent", "revoked", "starting", "launched", "refused",
                    "Approve", "Deny"}

Init ==
    /\ catalog = SeedCatalog
    /\ m3 = SeedM3
    /\ plans = [r \in RunId |-> None]
    /\ staged = [r \in RunId |-> None]
    /\ requests = [q \in RequestId |-> None]
    /\ grants = [q \in RequestId |-> None]
    /\ worker = [r \in RunId |-> None]
    /\ edits = 0
    /\ consent = [x \in RunId \cup RequestId |-> None]
    /\ used = [x \in RunId \cup RequestId |-> None]

Next ==
    \/ \E new \in CatalogEdits : ReplaceCatalog(new)
    \/ \E new \in M3Edits : ReplaceM3Catalog(new)
    \/ \E r \in RunId :
        \/ \E q \in RequestId : Stage(r, q)
        \/ BeginDirect(r)
        \/ BeginManual(r)
        \/ \E q \in RequestId, action \in ClientActions(r) : CreateApproval(q, action)
        \/ ClaimDispatch(r)
        \/ RunProvider(r)
    \/ \E q \in RequestId :
        \/ Approve(q)
        \/ DenyRequest(q)
        \/ Withdraw(q)
        \/ ConsumeGrant(q)

Spec == Init /\ [][Next]_vars

-----------------------------------------------------------------------------
(* Properties.                                                             *)

TypeOK ==
    /\ catalog \in IdentityCatalog /\ validate(catalog)
    /\ m3 \in M3Catalog /\ validate_m3(m3, catalog)
    /\ plans \in [RunId -> Maybe(Plan)] /\ staged \in [RunId -> Maybe(StagedRow)]
    /\ requests \in [RequestId -> Maybe(Request)]
    /\ grants \in [RequestId -> Maybe({"issued", "spent", "revoked"})]
    /\ worker \in [RunId -> Maybe({"starting", "launched", "refused"})]
    /\ edits \in 0..MaxEdits

\* However the catalogs are edited meanwhile, a credential grant is spent only
\* on what the user consented to: the same agent, account, identity, credential
\* and provider as at the approval, everybody active, within the ceilings in
\* force, and for a launch of the graph also the model, workspace, prompt and
\* policies that its attempt began with (validate_current_catalog, in
\* claim_staged_dispatch and consume_credential_grant).
SpentAsConsented ==
    \A q \in RequestId : grants[q] = "spent" =>
        LET r == requests[q].action.run
        IN  /\ used[q] = consent[q]
            /\ used[q].permitted
            /\ plans[r] # None => /\ used[q].terms = consent[r].terms
                                  /\ used[q].credential = consent[r].credential

\* A provider that uses its own login is started only if the catalogs still say
\* what they said when its attempt began, and its role may do what the CLI
\* cannot do without (preflight_provider_launch, validate_online_cli_launch).
LaunchedAsPlanned ==
    \A r \in RunId : worker[r] = "launched" =>
        /\ used[r] = consent[r].terms
        /\ used[r].account = None
        /\ \A f \in Field :
              OnlineCli.ceiling.level[f] <= used[r].role.policy.ceiling.level[f]

\* No edit of a catalog between an approval, or the begin of an attempt, and the
\* use that is made of it changes what is used (claim_staged_dispatch,
\* consume_credential_grant, preflight_provider_launch).
UsedAsAgreed == SpentAsConsented /\ LaunchedAsPlanned

\* The overlapping checks of a waiting launch come to exactly this: the
\* catalogs say what they said when it was staged, and everybody is active.
\* No edit that is taken back leaves a launch behind that can only be cancelled,
\* and none that matters is overlooked (validate_current_catalog,
\* validate_staged_context, LaunchPolicySnapshot, validate_against).
ChecksAreExact ==
    \A r \in RunId : Undispatched(r) =>
        LET q == staged[r].request
            action == requests[q].action
            same == /\ Terms = consent[r].terms
                    /\ Credential(catalog.runs[r].agent) = consent[r].credential
                    /\ Permitted(action)
        IN  /\ same <=> validate_current_catalog(q, action)
            /\ same => LiveAuthority(r)
=============================================================================
