------------------------ MODULE LaunchAuthority_proofs ------------------------
(***************************************************************************)
(* For any catalogs, any number of runs, requests and edits: no edit of a  *)
(* catalog between an agreement and its use changes what is used, and the  *)
(* checks of a launch that waits are exactly as strict as they need be.    *)
(*                                                                         *)
(* The history alone is not inductive: what was noted at an approval must  *)
(* be tied to the request's action and to the saved plan, which later      *)
(* checks compare with the catalogs, and a waiting launch to the run, the  *)
(* plan and the request it was staged with.                                *)
(***************************************************************************)
EXTENDS LaunchAuthority, TLAPS

-----------------------------------------------------------------------------
(* The invariant.                                                          *)

\* What a plan says the catalogs said when its attempt began.
PlannedTerms(plan) ==
    LET id == plan.binding.identity
    IN  [agent |-> id.agent, provider |-> id.provider, adapter_kind |-> id.adapter_kind,
         model |-> id.model, model_name |-> id.model_name,
         account |-> IF id.account = None THEN None ELSE id.account.account,
         project |-> [active |-> TRUE, root |-> plan.binding.workspace_root,
                      policy |-> plan.policy.project],
         role |-> [active |-> TRUE, policy |-> plan.policy.role],
         prompt |-> plan.binding.prompt]

NeedsCredential(plan) ==
    /\ plan.binding.identity.account # None
    /\ plan.binding.identity.account.credential # None

PlannedCredential(plan) ==
    LET id == plan.binding.identity
    IN  IF ~NeedsCredential(plan) THEN None
        ELSE <<id.provider, id.account.account, id.account.identity,
               id.account.credential.reference, id.account.credential.locator>>

\* What the user agrees to with the approval of an action.
ActionCredential(action) ==
    LET b == action.binding
    IN  <<b.provider, b.account, b.identity, b.reference, b.locator>>

Agreed(action, plan) ==
    [credential |-> ActionCredential(action), adapter_kind |-> action.binding.adapter_kind,
     terms |-> IF plan = None THEN None ELSE PlannedTerms(plan), permitted |-> TRUE]

\* A plan is of a run there is, which nobody takes away, and says what was noted
\* when its attempt began.
PlansInv ==
    \A r \in RunId : plans[r] # None =>
        /\ catalog.runs[r] # None
        /\ consent[r] = [terms |-> PlannedTerms(plans[r]),
                         credential |-> PlannedCredential(plans[r])]
        /\ plans[r].binding.identity.project = NodeProject
        /\ restrict(plans[r].policy.project, plans[r].policy.role)

\* A grant is for a decided request, whose action and plan are what was agreed to.
Granted(q) ==
    LET action == requests[q].action
        plan == plans[action.run]
    IN  /\ requests[q] # None /\ requests[q].decision # None
        /\ catalog.runs[action.run] # None
        /\ consent[q] = Agreed(action, plan)
        /\ plan # None => ActionCredential(action) = PlannedCredential(plan)
        /\ grants[q] = "spent" => used[q] = consent[q]

GrantsInv == \A q \in RequestId : grants[q] # None => Granted(q)

\* A worker runs a plan without an account; what it launched is what was planned.
Works(r) ==
    /\ plans[r] # None /\ plans[r].binding.identity.account = None /\ staged[r] = None
    /\ worker[r] = "starting" => catalog.runs[r].started
    /\ worker[r] = "launched" =>
         used[r] = PlannedTerms(plans[r]) /\ validate_online_cli_requirements(plans[r])

WorkersInv == \A r \in RunId : worker[r] # None => Works(r)

\* A launch that waits has its plan, the request made for it and its run as they
\* were when it was staged.
Waits(r, q) ==
    /\ plans[r] # None /\ requests[q] # None /\ NeedsCredential(plans[r])
    /\ requests[q].action = approval_action(plans[r], r)
    /\ catalog.runs[r] = [agent |-> plans[r].binding.identity.agent, project |-> NodeProject,
                          model |-> plans[r].binding.identity.model,
                          state |-> "AwaitingApproval", started |-> FALSE, finished |-> FALSE]
    /\ validate_online_cli_requirements(plans[r])
    /\ validate_action(requests[q].action, plans[r].policy.role)
    /\ restrict(plans[r].policy.project, CredentialOnly)

StagedInv ==
    \A r \in RunId :
        /\ staged[r] # None => plans[r] # None
        /\ Undispatched(r) => Waits(r, staged[r].request)

AuthorityInv ==
    /\ TypeOK /\ consent = [x \in RunId \cup RequestId |-> consent[x]]
    /\ used = [x \in RunId \cup RequestId |-> used[x]]
    /\ PlansInv /\ GrantsInv /\ WorkersInv /\ StagedInv

-----------------------------------------------------------------------------
(* What a validated catalog has rows for.                                  *)

\* The agent, and everything it refers to.
LEMMA AgentRow ==
  ASSUME NEW cat \in IdentityCatalog, validate(cat), NEW g \in Known(cat.agents)
  PROVE  /\ g \in AgentId /\ cat.agents[g] \in AgentInstance
         /\ cat.agents[g].provider \in Known(cat.providers)
         /\ cat.providers[cat.agents[g].provider] \in AgentProvider
         /\ cat.agents[g].account = None \/ cat.agents[g].account \in Known(cat.accounts)
         /\ cat.agents[g].account # None =>
              cat.accounts[cat.agents[g].account].provider = cat.agents[g].provider
         /\ cat.agents[g].model = None \/ cat.agents[g].model \in Known(cat.models)
<1>1. /\ cat.agents \in [AgentId -> Maybe(AgentInstance)]
      /\ cat.providers \in [ProviderId -> Maybe(AgentProvider)]
  BY DEF IdentityCatalog
<1>2. g \in AgentId /\ cat.agents[g] \in AgentInstance
  BY <1>1 DEF Known, Maybe
<1>3. /\ cat.agents[g].provider \in Known(cat.providers)
      /\ cat.agents[g].account \in Maybe(Known(cat.accounts))
      /\ cat.agents[g].account # None =>
           cat.accounts[cat.agents[g].account].provider = cat.agents[g].provider
      /\ cat.agents[g].model \in Maybe(Known(cat.models))
  BY DEF validate
<1>4. cat.providers[cat.agents[g].provider] \in AgentProvider
  BY <1>1, <1>3 DEF Known, Maybe
<1>5. QED
  BY <1>2, <1>3, <1>4 DEF Maybe

\* The account, and the credential behind it.
LEMMA AccountRow ==
  ASSUME NEW cat \in IdentityCatalog, validate(cat), NEW a \in Known(cat.accounts)
  PROVE  /\ a \in AccountId /\ cat.accounts[a] \in Account
         /\ \/ cat.accounts[a].reference = None
            \/ /\ cat.accounts[a].reference \in RefId
               /\ cat.references[cat.accounts[a].reference] \in Reference
               /\ cat.accounts[a].reference \in Known(cat.references)
<1>1. /\ cat.accounts \in [AccountId -> Maybe(Account)]
      /\ cat.references \in [RefId -> Maybe(Reference)]
  BY DEF IdentityCatalog
<1>2. a \in AccountId /\ cat.accounts[a] \in Account
  BY <1>1 DEF Known, Maybe
<1>3. cat.accounts[a].reference \in Maybe(Known(cat.references))
  BY DEF validate
<1>4. QED
  BY <1>1, <1>2, <1>3 DEF Known, Maybe

\* The model.
LEMMA ModelRow ==
  ASSUME NEW cat \in IdentityCatalog, NEW m \in Known(cat.models)
  PROVE  m \in ModelId /\ cat.models[m] \in Model
<1>1. cat.models \in [ModelId -> Maybe(Model)]
  BY DEF IdentityCatalog
<1>2. QED
  BY <1>1 DEF Known, Maybe

\* The project and the role of the node, and the agent assigned to it.
LEMMA NodeRows ==
  ASSUME NEW cat \in IdentityCatalog, NEW m \in M3Catalog, validate_m3(m, cat)
  PROVE  /\ cat.projects[NodeProject] \in ProjectRow /\ cat.roles[NodeRole] \in RoleRow
         /\ NodeProject \in Known(cat.projects) /\ NodeRole \in Known(cat.roles)
         /\ NodeSlot \in Known(m.assigned) => m.assigned[NodeSlot].agent \in Known(cat.agents)
<1>1. /\ cat.projects \in [ProjectId -> Maybe(ProjectRow)]
      /\ cat.roles \in [RoleId -> Maybe(RoleRow)]
  BY DEF IdentityCatalog
<1>2. NodeProject \in Known(cat.projects) /\ NodeRole \in Known(cat.roles)
  BY DEF validate_m3
<1>3. cat.projects[NodeProject] \in ProjectRow /\ cat.roles[NodeRole] \in RoleRow
  BY <1>1, <1>2 DEF Known, Maybe
<1>4. NodeSlot \in Known(m.assigned) => m.assigned[NodeSlot].agent \in Known(cat.agents)
  BY DEF validate_m3
<1>5. QED
  BY <1>2, <1>3, <1>4

-----------------------------------------------------------------------------
(* A plan, and what the catalogs say.                                      *)

\* What an agent would use is an account and perhaps a credential.
LEMMA SelectedFacts ==
  ASSUME NEW cat \in IdentityCatalog, validate(cat), NEW g \in Known(cat.agents)
  PROVE  LET a == cat.agents[g].account
             c == cat.accounts[a].reference
         IN  /\ SelectedAccount(cat, g) \in Maybe(AccountUse)
             /\ SelectedAccount(cat, g) = None <=> a = None
             /\ a # None =>
                  /\ SelectedAccount(cat, g).account = a
                  /\ SelectedAccount(cat, g).identity = cat.accounts[a].identity
                  /\ SelectedAccount(cat, g).credential = None <=> c = None
                  /\ c # None =>
                       SelectedAccount(cat, g).credential =
                         [reference |-> c, locator |-> cat.references[c].locator]
<1> DEFINE a == cat.agents[g].account
           c == cat.accounts[a].reference
           cred == [reference |-> c, locator |-> cat.references[c].locator]
           use == [account |-> a, identity |-> cat.accounts[a].identity,
                   credential |-> IF c = None THEN None ELSE cred]
<1>1. SelectedAccount(cat, g) = IF a = None THEN None ELSE use
  BY DEF SelectedAccount
<1>2. CASE a = None
  BY <1>1, <1>2 DEF Maybe
<1>3. CASE a # None
  <2>1. a \in Known(cat.accounts)
    BY <1>3, AgentRow
  <2>2. a \in AccountId /\ cat.accounts[a] \in Account
    BY <2>1, AccountRow
  <2>3. c # None => c \in RefId /\ cat.references[c] \in Reference
    BY <2>1, AccountRow
  <2>4. c # None => cred \in CredentialUse /\ cred # None
    <3>1. c # None => cat.references[c].locator \in Text
      BY <2>3 DEF Reference
    <3>2. c # None => cred \in CredentialUse
      <4> HIDE DEF c
      <4>1. QED
        BY <2>3, <3>1 DEF CredentialUse
    <3>3. None \notin CredentialUse
      BY NoneIsNoRow
    <3> HIDE DEF cred, c
    <3>4. QED
      BY <3>2, <3>3
  <2>5. cat.accounts[a].identity \in Text
    BY <2>2 DEF Account
  <2> HIDE DEF cred, c, a
  <2>6. use \in AccountUse
    BY <2>2, <2>4, <2>5 DEF AccountUse, Maybe
  <2>7. use # None
    BY <2>6, NoneIsNoRow
  <2>8. SelectedAccount(cat, g) = use
    BY <1>1, <1>3
  <2>9. /\ use.account = a /\ use.identity = cat.accounts[a].identity
        /\ use.credential = IF c = None THEN None ELSE cred
    OBVIOUS
  <2>10. use.credential = None <=> c = None
    BY <2>4, <2>9
  <2> HIDE DEF use
  <2>11. QED
    BY <1>3, <2>4, <2>6, <2>7, <2>8, <2>9, <2>10 DEF Maybe, cred, c, a
<1>4. QED
  BY <1>2, <1>3

\* The catalogs are as TypeOK says.
Catalogs ==
    /\ catalog \in IdentityCatalog /\ validate(catalog)
    /\ m3 \in M3Catalog /\ validate_m3(m3, catalog)

\* What a launch is bound to.
LEMMA ResolvedFacts ==
  ASSUME Catalogs, CanResolve(catalog, m3)
  PROVE  LET b == resolve_provider_run_binding(catalog, m3)
             g == m3.assigned[NodeSlot].agent
             agent == catalog.agents[g]
         IN  /\ b \in Binding /\ g \in Known(catalog.agents)
             /\ agent.model \in Known(catalog.models)
             /\ b.identity.agent = g /\ b.identity.provider = agent.provider
             /\ b.identity.adapter_kind = catalog.providers[agent.provider].adapter_kind
             /\ b.identity.project = NodeProject /\ b.identity.model = agent.model
             /\ b.identity.model_name = catalog.models[agent.model].name
             /\ b.identity.account = SelectedAccount(catalog, g)
             /\ b.workspace_root = catalog.projects[NodeProject].root
             /\ b.prompt = m3.baseline
<1> DEFINE b == resolve_provider_run_binding(catalog, m3)
           g == m3.assigned[NodeSlot].agent
           agent == catalog.agents[g]
           id == [agent |-> g, provider |-> agent.provider,
                  adapter_kind |-> catalog.providers[agent.provider].adapter_kind,
                  project |-> NodeProject,
                  model |-> agent.model, model_name |-> catalog.models[agent.model].name,
                  account |-> SelectedAccount(catalog, g)]
<1>1. g \in Known(catalog.agents) /\ agent.model # None
  BY NodeRows DEF Catalogs, CanResolve
<1>2. /\ g \in AgentId /\ agent.provider \in Known(catalog.providers)
      /\ catalog.providers[agent.provider] \in AgentProvider
      /\ agent.model \in Known(catalog.models) /\ agent \in AgentInstance
  BY <1>1, AgentRow DEF Catalogs
<1>3. agent.provider \in ProviderId /\ catalog.providers[agent.provider].adapter_kind \in Text
  BY <1>2 DEF AgentInstance, AgentProvider
<1>4. agent.model \in ModelId /\ catalog.models[agent.model].name \in Text
  BY <1>2, ModelRow DEF Catalogs, Model
<1>5. SelectedAccount(catalog, g) \in Maybe(AccountUse)
  BY <1>1, SelectedFacts DEF Catalogs
<1>6. /\ NodeProject \in ProjectId /\ catalog.projects[NodeProject].root \in Text
      /\ m3.baseline \in Text
  BY NodeRows, LaunchAuthorityAssumption DEF Catalogs, ProjectRow, M3Catalog
<1>7. b = [identity |-> id, workspace_root |-> catalog.projects[NodeProject].root,
           prompt |-> m3.baseline]
  BY DEF resolve_provider_run_binding
<1> HIDE DEF g, agent, b
<1>8. id \in [agent : AgentId, provider : ProviderId, adapter_kind : Text,
              project : ProjectId, model : ModelId, model_name : Text,
              account : Maybe(AccountUse)]
  BY <1>2, <1>3, <1>4, <1>5, <1>6
<1>9. /\ id.agent = g /\ id.provider = agent.provider
      /\ id.adapter_kind = catalog.providers[agent.provider].adapter_kind
      /\ id.project = NodeProject /\ id.model = agent.model
      /\ id.model_name = catalog.models[agent.model].name
      /\ id.account = SelectedAccount(catalog, g)
  OBVIOUS
<1> HIDE DEF id
<1>10. /\ b \in Binding /\ b.identity = id
       /\ b.workspace_root = catalog.projects[NodeProject].root /\ b.prompt = m3.baseline
  BY <1>6, <1>7, <1>8 DEF Binding
<1>11. QED
  BY <1>1, <1>2, <1>9, <1>10 DEF g, agent, b

\* The account and the credential behind the agent, as the selection has them.
LEMMA CredentialSelected ==
  ASSUME Catalogs, NEW g \in Known(catalog.agents)
  PROVE  LET s == SelectedAccount(catalog, g)
         IN  Credential(g) = IF s = None \/ s.credential = None THEN None
                             ELSE <<catalog.agents[g].provider, s.account, s.identity,
                                    s.credential.reference, s.credential.locator>>
<1> DEFINE a == catalog.agents[g].account
           c == catalog.accounts[a].reference
           s == SelectedAccount(catalog, g)
<1>1. Credential(g) = IF a = None \/ c = None THEN None
                      ELSE <<catalog.agents[g].provider, a, catalog.accounts[a].identity,
                             c, catalog.references[c].locator>>
  BY DEF Credential
<1>2. /\ s = None <=> a = None
      /\ a # None =>
           /\ s.account = a /\ s.identity = catalog.accounts[a].identity
           /\ s.credential = None <=> c = None
           /\ c # None => s.credential = [reference |-> c, locator |-> catalog.references[c].locator]
  BY SelectedFacts DEF Catalogs
<1> HIDE DEF a, c, s
<1>3. CASE a = None \/ c = None
  BY <1>1, <1>2, <1>3 DEF s
<1>4. CASE a # None /\ c # None
  <2>1. /\ s.credential.reference = c /\ s.credential.locator = catalog.references[c].locator
    BY <1>2, <1>4
  <2>2. s # None /\ s.credential # None
    BY <1>2, <1>4
  <2>3. QED
    BY <1>1, <1>2, <1>4, <2>1, <2>2 DEF s
<1>5. QED
  BY <1>3, <1>4

\* While the binding and the policies are the planned ones, the catalogs say what
\* the plan says.
LEMMA TermsPlanned ==
  ASSUME Catalogs, NEW plan, SameBinding(plan, catalog, m3),
         validate_current_policy(plan, catalog)
  PROVE  /\ Terms = PlannedTerms(plan) /\ plan.binding \in Binding
         /\ Credential(plan.binding.identity.agent) = PlannedCredential(plan)
<1> DEFINE g == m3.assigned[NodeSlot].agent
           agent == catalog.agents[g]
           id == plan.binding.identity
<1>1. CanResolve(catalog, m3) /\ plan.binding = resolve_provider_run_binding(catalog, m3)
  BY DEF SameBinding
<1>2. /\ plan.binding \in Binding /\ g \in Known(catalog.agents)
      /\ id.agent = g /\ id.provider = agent.provider
      /\ id.adapter_kind = catalog.providers[agent.provider].adapter_kind
      /\ id.model = agent.model /\ id.model_name = catalog.models[agent.model].name
      /\ id.account = SelectedAccount(catalog, g)
      /\ plan.binding.workspace_root = catalog.projects[NodeProject].root
      /\ plan.binding.prompt = m3.baseline
  BY <1>1, ResolvedFacts
<1>3. agent.account = IF id.account = None THEN None ELSE id.account.account
  <2>1. /\ SelectedAccount(catalog, g) = None <=> agent.account = None
        /\ agent.account # None => SelectedAccount(catalog, g).account = agent.account
    <3>1. catalog \in IdentityCatalog /\ validate(catalog) /\ g \in Known(catalog.agents)
      BY <1>2 DEF Catalogs
    <3> HIDE DEF g
    <3>2. QED
      BY <3>1, SelectedFacts
  <2> HIDE DEF g, agent, id
  <2>2. QED
    BY <1>2, <2>1
<1>4. catalog.projects[NodeProject] =
        [active |-> TRUE, root |-> plan.binding.workspace_root, policy |-> plan.policy.project]
  <2>1. catalog.projects[NodeProject] \in ProjectRow
    BY NodeRows DEF Catalogs
  <2>2. catalog.projects[NodeProject].active
    BY DEF validate_current_policy, CanCapture
  <2>3. plan.policy.project = catalog.projects[NodeProject].policy
    BY DEF validate_current_policy, capture
  <2>4. QED
    BY <1>2, <2>1, <2>2, <2>3 DEF ProjectRow
<1>5. catalog.roles[NodeRole] = [active |-> TRUE, policy |-> plan.policy.role]
  <2>1. catalog.roles[NodeRole] \in RoleRow
    BY NodeRows DEF Catalogs
  <2>2. catalog.roles[NodeRole].active
    BY DEF validate_current_policy, CanCapture
  <2>3. plan.policy.role = catalog.roles[NodeRole].policy
    BY DEF validate_current_policy, capture
  <2>4. QED
    BY <2>1, <2>2, <2>3 DEF RoleRow
<1>6. Terms = PlannedTerms(plan)
  <2>1. Terms =
          [agent |-> g, provider |-> agent.provider,
           adapter_kind |-> catalog.providers[agent.provider].adapter_kind,
           model |-> agent.model, model_name |-> catalog.models[agent.model].name,
           account |-> agent.account,
           project |-> catalog.projects[NodeProject], role |-> catalog.roles[NodeRole],
           prompt |-> m3.baseline]
    BY <1>1 DEF Terms
  <2> HIDE DEF g, agent
  <2>2. QED
    BY <1>2, <1>3, <1>4, <1>5, <2>1 DEF PlannedTerms
<1>7. Credential(id.agent) = PlannedCredential(plan)
  <2>1. Credential(g) = IF id.account = None \/ id.account.credential = None THEN None
                        ELSE <<agent.provider, id.account.account, id.account.identity,
                               id.account.credential.reference, id.account.credential.locator>>
    BY <1>2, CredentialSelected
  <2> HIDE DEF g, agent
  <2>2. QED
    BY <1>2, <2>1 DEF PlannedCredential, NeedsCredential
<1>8. QED
  BY <1>2, <1>6, <1>7

\* Conversely, when the terms and the credential of a launch that needs one are the
\* planned ones, its binding and its policies are.
LEMMA TermsDecide ==
  ASSUME Catalogs, NEW plan \in Plan, plan.binding.identity.project = NodeProject,
         restrict(plan.policy.project, plan.policy.role), NeedsCredential(plan),
         Terms = PlannedTerms(plan),
         Credential(plan.binding.identity.agent) = PlannedCredential(plan),
         PlannedCredential(plan) # None
  PROVE  SameBinding(plan, catalog, m3) /\ validate_current_policy(plan, catalog)
<1> DEFINE g == m3.assigned[NodeSlot].agent
           agent == catalog.agents[g]
           id == plan.binding.identity
           s == SelectedAccount(catalog, g)
           b == resolve_provider_run_binding(catalog, m3)
<1>1. /\ plan = [binding |-> plan.binding, policy |-> plan.policy]
      /\ plan.binding \in Binding /\ plan.policy \in [project : Policy, role : Policy]
      /\ id \in [agent : AgentId, provider : ProviderId, adapter_kind : Text,
                 project : ProjectId, model : ModelId, model_name : Text,
                 account : Maybe(AccountUse)]
  BY DEF Plan, Binding
<1>2. id.account \in AccountUse /\ id.account.credential \in CredentialUse
  BY <1>1 DEF NeedsCredential, AccountUse, Maybe
<1>3. PlannedTerms(plan) # None
  <2>1. [active |-> TRUE, root |-> plan.binding.workspace_root,
         policy |-> plan.policy.project] \in ProjectRow
    BY <1>1 DEF ProjectRow, Binding
  <2>2. [active |-> TRUE, policy |-> plan.policy.role] \in RoleRow
    BY <1>1 DEF RoleRow
  <2>3. id.account.account \in AccountId /\ plan.binding.prompt \in Text
    BY <1>1, <1>2 DEF AccountUse, Binding
  <2>4. PlannedTerms(plan) \in TermsRow
    BY <1>1, <2>1, <2>2, <2>3 DEF PlannedTerms, TermsRow, Maybe
  <2>5. QED
    BY <2>4, NoneIsNoRow
<1>4. CanResolve(catalog, m3)
  BY <1>3 DEF Terms
<1>5. /\ g = id.agent /\ agent.provider = id.provider
      /\ catalog.providers[agent.provider].adapter_kind = id.adapter_kind
      /\ agent.model = id.model /\ catalog.models[agent.model].name = id.model_name
      /\ agent.account = id.account.account
      /\ catalog.projects[NodeProject] =
           [active |-> TRUE, root |-> plan.binding.workspace_root,
            policy |-> plan.policy.project]
      /\ catalog.roles[NodeRole] = [active |-> TRUE, policy |-> plan.policy.role]
      /\ m3.baseline = plan.binding.prompt
  <2> DEFINE t == [agent |-> g, provider |-> agent.provider,
                   adapter_kind |-> catalog.providers[agent.provider].adapter_kind,
                   model |-> agent.model, model_name |-> catalog.models[agent.model].name,
                   account |-> agent.account,
                   project |-> catalog.projects[NodeProject], role |-> catalog.roles[NodeRole],
                   prompt |-> m3.baseline]
  <2>1. Terms = t
    BY <1>4 DEF Terms
  <2>2. /\ t.agent = g /\ t.provider = agent.provider
        /\ t.adapter_kind = catalog.providers[agent.provider].adapter_kind
        /\ t.model = agent.model /\ t.model_name = catalog.models[agent.model].name
        /\ t.account = agent.account /\ t.project = catalog.projects[NodeProject]
        /\ t.role = catalog.roles[NodeRole] /\ t.prompt = m3.baseline
    OBVIOUS
  <2> HIDE DEF t, g, agent, id
  <2>3. /\ PlannedTerms(plan).agent = id.agent /\ PlannedTerms(plan).provider = id.provider
        /\ PlannedTerms(plan).adapter_kind = id.adapter_kind
        /\ PlannedTerms(plan).model = id.model /\ PlannedTerms(plan).model_name = id.model_name
        /\ PlannedTerms(plan).account = id.account.account
        /\ PlannedTerms(plan).project =
             [active |-> TRUE, root |-> plan.binding.workspace_root,
              policy |-> plan.policy.project]
        /\ PlannedTerms(plan).role = [active |-> TRUE, policy |-> plan.policy.role]
        /\ PlannedTerms(plan).prompt = plan.binding.prompt
    BY DEF PlannedTerms, NeedsCredential, id
  <2>4. QED
    BY <2>1, <2>2, <2>3
<1>6. g \in Known(catalog.agents)
  BY <1>4, ResolvedFacts
<1>7. /\ s # None /\ s.credential # None
      /\ <<agent.provider, s.account, s.identity, s.credential.reference, s.credential.locator>>
           = <<id.provider, id.account.account, id.account.identity,
               id.account.credential.reference, id.account.credential.locator>>
  <2>1. Credential(g) = IF s = None \/ s.credential = None THEN None
                        ELSE <<agent.provider, s.account, s.identity,
                               s.credential.reference, s.credential.locator>>
    BY <1>6, CredentialSelected
  <2>2. PlannedCredential(plan) =
          <<id.provider, id.account.account, id.account.identity,
            id.account.credential.reference, id.account.credential.locator>>
    BY DEF PlannedCredential
  <2> HIDE DEF g, agent, id, s
  <2>3. Credential(g) = PlannedCredential(plan)
    BY <1>5 DEF id
  <2>4. QED
    BY <2>1, <2>2, <2>3
<1>8. s \in AccountUse /\ s.credential \in CredentialUse
  <2>1. s \in Maybe(AccountUse)
    BY <1>6, SelectedFacts DEF Catalogs
  <2> HIDE DEF s
  <2>2. QED
    BY <1>7, <2>1 DEF Maybe, AccountUse
<1>9. s = id.account
  <2> HIDE DEF g, agent, id, s
  <2>1. /\ s.account = id.account.account /\ s.identity = id.account.identity
        /\ s.credential.reference = id.account.credential.reference
        /\ s.credential.locator = id.account.credential.locator
    BY <1>7
  <2>2. id.account.credential \in CredentialUse /\ id.account \in AccountUse
    BY <1>2 DEF id
  <2>3. s.credential = id.account.credential
    BY <1>8, <2>1, <2>2 DEF CredentialUse
  <2>4. QED
    BY <1>8, <2>1, <2>2, <2>3 DEF AccountUse
<1>10. b = plan.binding
  <2>1. /\ b \in Binding /\ b.identity.agent = g /\ b.identity.provider = agent.provider
        /\ b.identity.adapter_kind = catalog.providers[agent.provider].adapter_kind
        /\ b.identity.project = NodeProject /\ b.identity.model = agent.model
        /\ b.identity.model_name = catalog.models[agent.model].name
        /\ b.identity.account = s
        /\ b.workspace_root = catalog.projects[NodeProject].root
        /\ b.prompt = m3.baseline
    BY <1>4, ResolvedFacts
  <2> HIDE DEF g, agent, b, s
  <2>2. /\ b.identity.agent = id.agent /\ b.identity.provider = id.provider
        /\ b.identity.adapter_kind = id.adapter_kind /\ b.identity.project = id.project
        /\ b.identity.model = id.model /\ b.identity.model_name = id.model_name
        /\ b.identity.account = id.account
    BY <1>5, <1>9, <2>1
  <2>3. b.identity \in [agent : AgentId, provider : ProviderId, adapter_kind : Text,
                        project : ProjectId, model : ModelId, model_name : Text,
                        account : Maybe(AccountUse)]
    BY <2>1 DEF Binding
  <2> DEFINE bid == b.identity
  <2>4. bid = id
    <3> HIDE DEF id, bid
    <3>1. /\ bid.agent = id.agent /\ bid.provider = id.provider
          /\ bid.adapter_kind = id.adapter_kind /\ bid.project = id.project
          /\ bid.model = id.model /\ bid.model_name = id.model_name
          /\ bid.account = id.account
      BY <2>2 DEF id, bid
    <3>2. bid \in [agent : AgentId, provider : ProviderId, adapter_kind : Text,
                   project : ProjectId, model : ModelId, model_name : Text,
                   account : Maybe(AccountUse)]
      BY <2>3 DEF bid
    <3>3. QED
      BY <1>1, <3>1, <3>2
  <2>5. b.workspace_root = plan.binding.workspace_root /\ b.prompt = plan.binding.prompt
    BY <1>5, <2>1
  <2>6. QED
    BY <1>1, <2>1, <2>4, <2>5 DEF Binding
<1>11. SameBinding(plan, catalog, m3)
  BY <1>4, <1>10 DEF SameBinding
<1>12. validate_current_policy(plan, catalog)
  <2>1. /\ catalog.projects[NodeProject].active /\ catalog.roles[NodeRole].active
        /\ catalog.projects[NodeProject].policy = plan.policy.project
        /\ catalog.roles[NodeRole].policy = plan.policy.role
    BY <1>5
  <2>2. capture(catalog) = plan.policy
    BY <1>1, <2>1 DEF capture
  <2>3. QED
    BY <2>1, <2>2 DEF validate_current_policy, CanCapture
<1>13. QED
  BY <1>11, <1>12

-----------------------------------------------------------------------------
(* The checks of an approval.                                              *)

\* A binding that is found valid names the credential of its agent.
LEMMA BoundCredential ==
  ASSUME Catalogs, NEW action \in Action, validate_against(action, catalog)
  PROVE  /\ action.agent \in Known(catalog.agents)
         /\ Credential(action.agent) = ActionCredential(action)
         /\ ActionCredential(action) # None
         /\ catalog.providers[catalog.agents[action.agent].provider].adapter_kind
              = action.binding.adapter_kind
         /\ catalog.agents[action.agent].active
         /\ catalog.providers[catalog.agents[action.agent].provider].active
         /\ catalog.accounts[catalog.agents[action.agent].account].active
         /\ catalog.references[action.binding.reference].active
         /\ catalog.projects[action.project].active /\ catalog.roles[action.role].active
<1> DEFINE b == action.binding
           agent == catalog.agents[action.agent]
<1>1. action.agent \in Known(catalog.agents) /\ validate_credential_binding(action, catalog)
  BY DEF validate_against
<1>2. /\ agent.active /\ catalog.projects[action.project].active
      /\ agent.provider = b.provider
      /\ catalog.providers[b.provider].active
      /\ catalog.providers[b.provider].adapter_kind = b.adapter_kind
      /\ agent.account = b.account
      /\ catalog.accounts[b.account] = [active |-> TRUE, provider |-> b.provider,
                                        identity |-> b.identity, reference |-> b.reference]
      /\ catalog.references[b.reference] = [active |-> TRUE, locator |-> b.locator]
      /\ catalog.roles[action.role].active
  BY <1>1 DEF validate_credential_binding
<1>3. /\ b \in [provider : ProviderId, adapter_kind : Text, account : AccountId,
               identity : Text, reference : RefId, locator : Text]
  BY DEF Action
<1>4. b.account # None /\ b.reference # None
  BY <1>3, LaunchAuthorityAssumption
<1> HIDE DEF b, agent
<1>5. /\ catalog.accounts[b.account].identity = b.identity
      /\ catalog.accounts[b.account].reference = b.reference
      /\ catalog.accounts[b.account].active
      /\ catalog.references[b.reference].locator = b.locator
      /\ catalog.references[b.reference].active
  BY <1>2
<1>6. Credential(action.agent) =
        <<b.provider, b.account, b.identity, b.reference, b.locator>>
  BY <1>2, <1>4, <1>5 DEF Credential, agent
<1>7. <<b.provider, b.account, b.identity, b.reference, b.locator>> # None
  <2>1. <<b.provider, b.account, b.identity, b.reference, b.locator>> \in CredentialTerm
    BY <1>3 DEF CredentialTerm
  <2>2. QED
    BY <2>1, NoneIsNoRow
<1>8. QED
  BY <1>1, <1>2, <1>5, <1>6, <1>7 DEF ActionCredential, b, agent

\* When the check of the current catalog passes, the catalogs say what the action
\* and the plan say, and permit it.
LEMMA AuthorityAgreed ==
  ASSUME Catalogs, NEW q, NEW action \in Action, validate_current_catalog(q, action)
  PROVE  /\ Authority(action) = Agreed(action, plans[action.run])
         /\ catalog.runs[action.run] # None
         /\ Permitted(action)
         /\ plans[action.run] # None =>
              ActionCredential(action) = PlannedCredential(plans[action.run])
<1> DEFINE r == action.run
<1>1. /\ validate_against(action, catalog) /\ action.role \in Assignments(action)
      /\ plans[r] # None =>
           /\ validate_current_policy(plans[r], catalog)
           /\ SameBinding(plans[r], catalog, m3)
           /\ plans[r].binding.identity.agent = action.agent
  BY DEF validate_current_catalog
<1>2. r \in Known(catalog.runs) /\ catalog.runs[r].agent = action.agent
  BY <1>1 DEF validate_against
<1>3. Permitted(action)
  <2>1. m3.assigned[<<action.project, action.role>>] = [active |-> TRUE, agent |-> action.agent]
    BY <1>1 DEF Assignments
  <2>2. /\ \A f \in Field : action.policy.ceiling.level[f]
                              <= catalog.projects[action.project].policy.ceiling.level[f]
        /\ \A f \in Field : action.policy.ceiling.level[f]
                              <= catalog.roles[action.role].policy.ceiling.level[f]
    BY <1>1 DEF validate_against, validate_action, restrict
  <2>3. QED
    BY <1>1, <2>1, <2>2, BoundCredential DEF Permitted
<1>4. /\ Credential(action.agent) = ActionCredential(action)
      /\ catalog.providers[catalog.agents[action.agent].provider].adapter_kind
           = action.binding.adapter_kind
  BY <1>1, BoundCredential
<1>5. plans[r] # None =>
        /\ Terms = PlannedTerms(plans[r])
        /\ Credential(action.agent) = PlannedCredential(plans[r])
  BY <1>1, TermsPlanned
<1>6. Permitted(action) = TRUE
  BY <1>3 DEF Permitted
<1>7. Authority(action) = Agreed(action, plans[r])
  <2>1. Authority(action) =
          [credential |-> Credential(catalog.runs[r].agent),
           adapter_kind |-> catalog.providers[catalog.agents[action.agent].provider].adapter_kind,
           terms |-> IF plans[r] = None THEN None ELSE Terms,
           permitted |-> Permitted(action)]
    BY DEF Authority
  <2>2. QED
    BY <1>2, <1>4, <1>5, <1>6, <2>1 DEF Agreed
<1>8. catalog.runs[r] # None
  BY <1>2 DEF Known
<1>9. QED
  BY <1>3, <1>4, <1>5, <1>7, <1>8

\* What the daemon asks for when a launch is staged.
LEMMA AskedFacts ==
  ASSUME NEW plan, NEW r
  PROVE  LET action == approval_action(plan, r)
             id == plan.binding.identity
         IN  /\ action.agent = id.agent /\ action.role = NodeRole
             /\ action.project = id.project /\ action.run = r
             /\ action.policy = CredentialOnly
             /\ action.binding.provider = id.provider
             /\ action.binding.adapter_kind = id.adapter_kind
             /\ action.binding.account = id.account.account
             /\ action.binding.identity = id.account.identity
             /\ action.binding.reference = id.account.credential.reference
             /\ action.binding.locator = id.account.credential.locator
BY DEF approval_action

\* It is an action, if the plan has a credential.
LEMMA AskedTyped ==
  ASSUME NEW plan \in Plan, NeedsCredential(plan), NEW r \in RunId
  PROVE  approval_action(plan, r) \in Action
<1> DEFINE id == plan.binding.identity
           b == [provider |-> id.provider, adapter_kind |-> id.adapter_kind,
                 account |-> id.account.account, identity |-> id.account.identity,
                 reference |-> id.account.credential.reference,
                 locator |-> id.account.credential.locator]
<1>1. id \in [agent : AgentId, provider : ProviderId, adapter_kind : Text,
              project : ProjectId, model : ModelId, model_name : Text,
              account : Maybe(AccountUse)]
  BY DEF Plan, Binding
<1>2. id.account \in AccountUse /\ id.account.credential \in CredentialUse
  BY <1>1 DEF NeedsCredential, AccountUse, Maybe
<1>3. /\ id.account.account \in AccountId /\ id.account.identity \in Text
      /\ id.account.credential.reference \in RefId /\ id.account.credential.locator \in Text
  BY <1>2 DEF AccountUse, CredentialUse
<1>4. approval_action(plan, r) =
        [agent |-> id.agent, role |-> NodeRole, project |-> id.project, run |-> r,
         binding |-> b, policy |-> CredentialOnly]
  BY DEF approval_action
<1> HIDE DEF id
<1>5. b \in [provider : ProviderId, adapter_kind : Text, account : AccountId,
             identity : Text, reference : RefId, locator : Text]
  BY <1>1, <1>3
<1> HIDE DEF b
<1>6. NodeRole \in RoleId
  BY LaunchAuthorityAssumption
<1>7. QED
  BY <1>1, <1>4, <1>5, <1>6 DEF Action

\* While the binding of a waiting launch is the planned one and everybody is
\* active, its request is valid.
LEMMA WaitingValid ==
  ASSUME Catalogs, NEW r \in RunId, NEW q \in RequestId, Waits(r, q),
         plans[r].binding.identity.project = NodeProject,
         SameBinding(plans[r], catalog, m3), validate_current_policy(plans[r], catalog),
         Permitted(requests[q].action)
  PROVE  validate_against(requests[q].action, catalog)
<1> DEFINE action == requests[q].action
           b == action.binding
           id == plans[r].binding.identity
           agent == catalog.agents[action.agent]
           s == SelectedAccount(catalog, action.agent)
<1>1. /\ action.agent = id.agent /\ action.role = NodeRole /\ action.project = NodeProject
      /\ action.run = r /\ action.policy = CredentialOnly
      /\ b.provider = id.provider /\ b.adapter_kind = id.adapter_kind
      /\ b.account = id.account.account /\ b.identity = id.account.identity
      /\ b.reference = id.account.credential.reference
      /\ b.locator = id.account.credential.locator
  BY AskedFacts DEF Waits
<1>2. /\ action.agent \in Known(catalog.agents)
      /\ id.provider = agent.provider
      /\ id.adapter_kind = catalog.providers[agent.provider].adapter_kind
      /\ id.account = s
  BY <1>1, ResolvedFacts DEF SameBinding
<1>3. catalog.projects[NodeProject].policy = plans[r].policy.project
      /\ catalog.roles[NodeRole].policy = plans[r].policy.role
  BY DEF validate_current_policy, capture
<1>4. /\ agent.active /\ catalog.providers[agent.provider].active
      /\ catalog.accounts[agent.account].active
      /\ catalog.references[b.reference].active
      /\ catalog.projects[NodeProject].active /\ catalog.roles[NodeRole].active
  BY <1>1 DEF Permitted
<1>5. id.account # None /\ id.account.credential # None
  BY DEF Waits, NeedsCredential
<1>6. /\ agent.account # None /\ catalog.accounts[agent.account].reference # None
      /\ s.account = agent.account /\ s.identity = catalog.accounts[agent.account].identity
      /\ s.credential.reference = catalog.accounts[agent.account].reference
      /\ s.credential.locator =
           catalog.references[catalog.accounts[agent.account].reference].locator
  <2>1. catalog \in IdentityCatalog /\ validate(catalog) /\ action.agent \in Known(catalog.agents)
    BY <1>2 DEF Catalogs
  <2>2. /\ s = None <=> agent.account = None
        /\ agent.account # None =>
             /\ s.account = agent.account
             /\ s.identity = catalog.accounts[agent.account].identity
             /\ s.credential = None <=> catalog.accounts[agent.account].reference = None
             /\ catalog.accounts[agent.account].reference # None =>
                  s.credential =
                    [reference |-> catalog.accounts[agent.account].reference,
                     locator |->
                       catalog.references[catalog.accounts[agent.account].reference].locator]
    <3> HIDE DEF action
    <3>1. QED
      BY <2>1, SelectedFacts
  <2> HIDE DEF action, agent, s, id
  <2>3. QED
    BY <1>2, <1>5, <2>2
<1>7. /\ agent.account \in Known(catalog.accounts)
      /\ catalog.accounts[agent.account].provider = agent.provider
      /\ agent.provider \in Known(catalog.providers)
  <2>1. catalog \in IdentityCatalog /\ validate(catalog)
    BY DEF Catalogs
  <2> HIDE DEF action
  <2>2. QED
    BY <1>2, <1>6, <2>1, AgentRow
<1>8. /\ catalog.accounts[agent.account] \in Account
      /\ catalog.accounts[agent.account].reference \in Known(catalog.references)
      /\ catalog.references[catalog.accounts[agent.account].reference] \in Reference
  <2>1. catalog \in IdentityCatalog /\ validate(catalog)
    BY DEF Catalogs
  <2> HIDE DEF agent
  <2>2. QED
    BY <1>6, <1>7, <2>1, AccountRow
<1>9. NodeProject \in Known(catalog.projects) /\ NodeRole \in Known(catalog.roles)
  BY NodeRows DEF Catalogs
<1>10. /\ r \in Known(catalog.runs) /\ catalog.runs[r].agent = id.agent
       /\ catalog.runs[r].project = NodeProject
  <2>1. catalog.runs \in [RunId -> Maybe(Run)]
    BY DEF Catalogs, IdentityCatalog
  <2>2. catalog.runs[r] = [agent |-> id.agent, project |-> NodeProject,
                           model |-> id.model,
                           state |-> "AwaitingApproval", started |-> FALSE, finished |-> FALSE]
    BY DEF Waits
  <2>3. id.agent \in AgentId /\ id.model \in ModelId
    <3>1. plans[r].binding \in Binding
      BY TermsPlanned
    <3>2. QED
      BY <3>1 DEF Binding
  <2> HIDE DEF id
  <2>4. catalog.runs[r] \in Run
    BY <2>2, <2>3, LaunchAuthorityAssumption DEF Run, RunState
  <2>5. catalog.runs[r] # None
    BY <2>4, NoneIsNoRow
  <2>6. QED
    BY <2>1, <2>2, <2>5 DEF Known
<1>11. /\ validate_action(action, plans[r].policy.role)
       /\ restrict(plans[r].policy.project, CredentialOnly)
  BY DEF Waits
<1> HIDE DEF action, agent, id, s
<1>12. /\ b.account = agent.account /\ b.identity = catalog.accounts[agent.account].identity
       /\ b.reference = catalog.accounts[agent.account].reference
       /\ b.locator = catalog.references[b.reference].locator
       /\ b.provider = agent.provider
       /\ b.adapter_kind = catalog.providers[agent.provider].adapter_kind
  BY <1>1, <1>2, <1>6
<1> HIDE DEF b
<1>13. catalog.accounts[b.account] = [active |-> TRUE, provider |-> b.provider,
                                      identity |-> b.identity, reference |-> b.reference]
  BY <1>4, <1>7, <1>8, <1>12 DEF Account
<1>14. catalog.references[b.reference] = [active |-> TRUE, locator |-> b.locator]
  BY <1>4, <1>8, <1>12 DEF Reference
<1>15. validate_credential_binding(action, catalog)
  <2>1. /\ agent.active /\ catalog.projects[action.project].active
        /\ catalog.roles[action.role].active
        /\ agent.provider = b.provider /\ b.provider \in Known(catalog.providers)
        /\ catalog.providers[b.provider].active
        /\ catalog.providers[b.provider].adapter_kind = b.adapter_kind
        /\ agent.account = b.account /\ b.account \in Known(catalog.accounts)
        /\ b.reference \in Known(catalog.references)
    BY <1>1, <1>4, <1>7, <1>8, <1>12
  <2>2. QED
    BY <1>13, <1>14, <2>1 DEF validate_credential_binding, agent, b
<1>16. validate_against(action, catalog)
  <2>1. /\ action.project \in Known(catalog.projects) /\ action.role \in Known(catalog.roles)
        /\ restrict(catalog.projects[action.project].policy, action.policy)
        /\ validate_action(action, catalog.roles[action.role].policy)
        /\ action.run \in Known(catalog.runs)
        /\ catalog.runs[action.run].agent = action.agent
        /\ catalog.runs[action.run].project = action.project
    BY <1>1, <1>3, <1>9, <1>10, <1>11
  <2>2. /\ action.binding.reference \in Known(catalog.references)
        /\ catalog.agents[action.agent].account # None
        /\ catalog.accounts[catalog.agents[action.agent].account].reference
             = action.binding.reference
    BY <1>6, <1>8, <1>12 DEF agent, b
  <2>3. QED
    BY <1>2, <1>15, <2>1, <2>2 DEF validate_against
<1>17. QED
  BY <1>16 DEF action

\* The checks of a waiting launch come to what they are for.
LEMMA WaitingExact ==
  ASSUME AuthorityInv, NEW r \in RunId, Undispatched(r)
  PROVE  LET q == staged[r].request
             action == requests[q].action
             same == /\ Terms = consent[r].terms
                     /\ Credential(catalog.runs[r].agent) = consent[r].credential
                     /\ Permitted(action)
         IN  /\ same <=> validate_current_catalog(q, action)
             /\ same => LiveAuthority(r)
<1> DEFINE q == staged[r].request
           action == requests[q].action
           id == plans[r].binding.identity
<1>1. Catalogs /\ Waits(r, q) /\ plans[r] # None
  BY DEF AuthorityInv, TypeOK, Catalogs, StagedInv, Waits
<1>2. q \in RequestId /\ requests[q] # None /\ plans[r] \in Plan /\ action \in Action
  <2>1. q \in RequestId
    BY DEF AuthorityInv, TypeOK, Undispatched, StagedRow, Maybe
  <2>2. requests[q] # None
    BY <1>1 DEF Waits
  <2>3. requests[q] \in Request
    BY <2>1, <2>2 DEF AuthorityInv, TypeOK, Maybe
  <2>4. plans[r] \in Plan
    BY <1>1 DEF AuthorityInv, TypeOK, Maybe
  <2>5. QED
    BY <2>1, <2>2, <2>3, <2>4 DEF Request
<1>3. /\ consent[r].terms = PlannedTerms(plans[r])
      /\ consent[r].credential = PlannedCredential(plans[r])
      /\ id.project = NodeProject /\ restrict(plans[r].policy.project, plans[r].policy.role)
  BY <1>1 DEF AuthorityInv, PlansInv
<1>4. /\ catalog.runs[r].agent = id.agent /\ catalog.runs[r].model = id.model
      /\ catalog.runs[r].state = "AwaitingApproval"
      /\ ~catalog.runs[r].started /\ ~catalog.runs[r].finished
  BY <1>1 DEF Waits
<1>5. /\ action.run = r /\ action.agent = id.agent /\ action.role = NodeRole
      /\ action.project = NodeProject
  BY <1>1, <1>3, AskedFacts DEF Waits
<1>6. ASSUME Terms = PlannedTerms(plans[r]), Credential(id.agent) = PlannedCredential(plans[r]),
             Permitted(action)
      PROVE  validate_current_catalog(q, action) /\ LiveAuthority(r)
  <2>1. PlannedCredential(plans[r]) # None
    BY <1>5, <1>6 DEF Permitted
  <2>2. SameBinding(plans[r], catalog, m3) /\ validate_current_policy(plans[r], catalog)
    BY <1>1, <1>2, <1>3, <1>6, <2>1, TermsDecide DEF Waits
  <2>3. validate_against(action, catalog)
    BY <1>1, <1>2, <1>3, <1>6, <2>2, WaitingValid
  <2>4. action.role \in Assignments(action)
    <3>1. m3.assigned[<<action.project, action.role>>] =
            [active |-> TRUE, agent |-> action.agent]
      BY <1>6 DEF Permitted
    <3>2. NodeSlot \in Known(m3.assigned) /\ NodeRole \in RoleId
      BY <2>2, LaunchAuthorityAssumption DEF SameBinding, CanResolve
    <3> HIDE DEF action
    <3>3. QED
      BY <1>5, <3>1, <3>2 DEF Assignments, NodeSlot
  <2>5. LiveAuthority(r)
    BY <1>1, <2>2, <2>3 DEF LiveAuthority, Waits
  <2>6. validate_current_catalog(q, action)
    <3>1. staged[r] # None /\ staged[r].request = q
      BY DEF Undispatched
    <3> HIDE DEF action, q, id
    <3>2. QED
      BY <1>1, <1>3, <1>4, <1>5, <2>2, <2>3, <2>4, <3>1 DEF validate_current_catalog, id
  <2>7. QED
    BY <2>5, <2>6
<1>7. ASSUME validate_current_catalog(q, action)
      PROVE  /\ Terms = PlannedTerms(plans[r])
             /\ Credential(id.agent) = PlannedCredential(plans[r]) /\ Permitted(action)
  <2>1. Permitted(action)
    BY <1>1, <1>2, <1>7, AuthorityAgreed
  <2>2. SameBinding(plans[r], catalog, m3) /\ validate_current_policy(plans[r], catalog)
    BY <1>1, <1>5, <1>7 DEF validate_current_catalog
  <2>3. QED
    BY <1>1, <2>1, <2>2, TermsPlanned
<1> HIDE DEF action, q, id
<1>8. QED
  BY <1>3, <1>4, <1>6, <1>7 DEF action, q

-----------------------------------------------------------------------------
(* Changing a catalog.                                                     *)

\* A catalog whose run r is another one.
LEMMA RunReplaced ==
  ASSUME NEW cat \in IdentityCatalog, NEW r \in RunId, NEW run \in Maybe(Run)
  PROVE  LET new == [cat EXCEPT !.runs[r] = run]
         IN  /\ new \in IdentityCatalog /\ new.runs = [cat.runs EXCEPT ![r] = run]
             /\ new.references = cat.references /\ new.providers = cat.providers
             /\ new.accounts = cat.accounts /\ new.models = cat.models
             /\ new.agents = cat.agents /\ new.projects = cat.projects
             /\ new.roles = cat.roles
<1> DEFINE new == [cat EXCEPT !.runs[r] = run]
<1>1. [cat.runs EXCEPT ![r] = run] \in [RunId -> Maybe(Run)]
  BY DEF IdentityCatalog
<1>2. new = [cat EXCEPT !.runs = [cat.runs EXCEPT ![r] = run]]
  BY DEF IdentityCatalog
<1>3. QED
  BY <1>1, <1>2 DEF IdentityCatalog

\* What the daemon does to a run leaves the catalogs valid, if it knows what the
\* run refers to and the run's times are right.
LEMMA DaemonChange ==
  ASSUME Catalogs, NEW r \in RunId, NEW run \in Run,
         run.agent \in Known(catalog.agents), run.project \in Known(catalog.projects),
         run.model \in Known(catalog.models), validate_run_timing(run),
         catalog' = [catalog EXCEPT !.runs[r] = run], m3' = m3
  PROVE  /\ Catalogs' /\ catalog'.runs = [catalog.runs EXCEPT ![r] = run]
         /\ catalog'.runs[r] = run /\ catalog'.runs[r] # None
         /\ \A other \in RunId \ {r} : catalog'.runs[other] = catalog.runs[other]
<1>1. /\ catalog' \in IdentityCatalog /\ catalog'.runs = [catalog.runs EXCEPT ![r] = run]
      /\ catalog'.references = catalog.references /\ catalog'.providers = catalog.providers
      /\ catalog'.accounts = catalog.accounts /\ catalog'.models = catalog.models
      /\ catalog'.agents = catalog.agents /\ catalog'.projects = catalog.projects
      /\ catalog'.roles = catalog.roles
  <2>1. catalog \in IdentityCatalog /\ run \in Maybe(Run)
    BY DEF Catalogs, Maybe
  <2>2. QED
    BY <2>1, RunReplaced
<1>2. catalog.runs \in [RunId -> Maybe(Run)]
  BY DEF Catalogs, IdentityCatalog
<1>3. /\ catalog'.runs[r] = run
      /\ \A other \in RunId \ {r} : catalog'.runs[other] = catalog.runs[other]
      /\ DOMAIN catalog'.runs = RunId /\ DOMAIN catalog.runs = RunId
  BY <1>1, <1>2
<1>4. run # None
  BY NoneIsNoRow
<1>5. validate_m3(m3', catalog')
  BY <1>1 DEF Catalogs, validate_m3
<1>6. validate_required_fields(catalog')
  BY <1>1 DEF Catalogs, validate, validate_required_fields
<1>7. ASSUME NEW x \in Known(catalog'.runs)
      PROVE  /\ catalog'.runs[x].agent \in Known(catalog.agents)
             /\ catalog'.runs[x].project \in Known(catalog.projects)
             /\ catalog'.runs[x].model \in Known(catalog.models)
             /\ validate_run_timing(catalog'.runs[x])
  <2>1. CASE x = r
    BY <1>3, <2>1
  <2>2. CASE x # r
    <3>1. x \in Known(catalog.runs) /\ catalog'.runs[x] = catalog.runs[x]
      BY <1>3, <2>2 DEF Known
    <3>2. QED
      BY <3>1 DEF Catalogs, validate
  <2>3. QED
    BY <2>1, <2>2
<1>8. validate(catalog')
  BY <1>1, <1>6, <1>7 DEF Catalogs, validate
<1>9. QED
  BY <1>1, <1>3, <1>4, <1>5, <1>8 DEF Catalogs

\* What the daemon knows of a run in the catalog.
LEMMA KnownRun ==
  ASSUME Catalogs, NEW r \in RunId, catalog.runs[r] # None
  PROVE  /\ catalog.runs[r] \in Run
         /\ catalog.runs[r].agent \in Known(catalog.agents)
         /\ catalog.runs[r].project \in Known(catalog.projects)
         /\ catalog.runs[r].model \in Known(catalog.models)
<1>1. catalog.runs \in [RunId -> Maybe(Run)]
  BY DEF Catalogs, IdentityCatalog
<1>2. r \in Known(catalog.runs) /\ catalog.runs[r] \in Run
  BY <1>1 DEF Known, Maybe
<1>3. QED
  BY <1>2 DEF Catalogs, validate

\* The end of a run: it is Cancelled, or Blocked once it was started.
LEMMA RunEnded ==
  ASSUME Catalogs, NEW r \in RunId, catalog.runs[r] # None,
         NEW s \in {"Cancelled", "Blocked"}, s = "Blocked" => catalog.runs[r].started,
         catalog' = [catalog EXCEPT !.runs[r].state = s, !.runs[r].finished = TRUE], m3' = m3
  PROVE  /\ Catalogs' /\ catalog'.runs[r] # None
         /\ \A other \in RunId \ {r} : catalog'.runs[other] = catalog.runs[other]
<1> DEFINE old == catalog.runs[r]
           run == [old EXCEPT !.state = s, !.finished = TRUE]
<1>1. /\ old \in Run /\ old.agent \in Known(catalog.agents)
      /\ old.project \in Known(catalog.projects) /\ old.model \in Known(catalog.models)
  BY KnownRun
<1>2. /\ run \in Run /\ run.agent = old.agent /\ run.project = old.project
      /\ run.model = old.model /\ run.state = s /\ run.started = old.started /\ run.finished
  BY <1>1 DEF Run, RunState
<1>3. validate_run_timing(run)
  BY <1>2 DEF validate_run_timing
<1>4. catalog' = [catalog EXCEPT !.runs[r] = run]
  <2>1. catalog.runs \in [RunId -> Maybe(Run)]
    BY DEF Catalogs, IdentityCatalog
  <2>2. QED
    BY <2>1 DEF Catalogs, IdentityCatalog
<1> HIDE DEF run
<1>5. QED
  BY <1>1, <1>2, <1>3, <1>4, DaemonChange

\* A dispatched run is started.
LEMMA RunStarted ==
  ASSUME Catalogs, NEW r \in RunId, catalog.runs[r] # None, ~catalog.runs[r].finished,
         catalog' = [catalog EXCEPT !.runs[r].state = "Starting", !.runs[r].started = TRUE],
         m3' = m3
  PROVE  /\ Catalogs' /\ catalog'.runs[r] # None
         /\ \A other \in RunId \ {r} : catalog'.runs[other] = catalog.runs[other]
<1> DEFINE old == catalog.runs[r]
           run == [old EXCEPT !.state = "Starting", !.started = TRUE]
<1>1. /\ old \in Run /\ old.agent \in Known(catalog.agents)
      /\ old.project \in Known(catalog.projects) /\ old.model \in Known(catalog.models)
  BY KnownRun
<1>2. /\ run \in Run /\ run.agent = old.agent /\ run.project = old.project
      /\ run.model = old.model /\ run.state = "Starting" /\ run.started
  BY <1>1 DEF Run, RunState
<1>3. validate_run_timing(run)
  BY <1>2 DEF validate_run_timing
<1>4. catalog' = [catalog EXCEPT !.runs[r] = run]
  <2>1. catalog.runs \in [RunId -> Maybe(Run)]
    BY DEF Catalogs, IdentityCatalog
  <2>2. QED
    BY <2>1 DEF Catalogs, IdentityCatalog
<1> HIDE DEF run
<1>5. QED
  BY <1>1, <1>2, <1>3, <1>4, DaemonChange

\* A client's edit of a table of entities is a catalog.
LEMMA TableEdited ==
  ASSUME NEW cat \in IdentityCatalog
  PROVE  /\ \A id \in RefId, row \in Maybe(Reference) : [cat EXCEPT !["references"][id] = row] \in IdentityCatalog
         /\ \A id \in ProviderId, row \in Maybe(AgentProvider) : [cat EXCEPT !["providers"][id] = row] \in IdentityCatalog
         /\ \A id \in AccountId, row \in Maybe(Account) : [cat EXCEPT !["accounts"][id] = row] \in IdentityCatalog
         /\ \A id \in ModelId, row \in Maybe(Model) : [cat EXCEPT !["models"][id] = row] \in IdentityCatalog
         /\ \A id \in AgentId, row \in Maybe(AgentInstance) : [cat EXCEPT !["agents"][id] = row] \in IdentityCatalog
         /\ \A id \in ProjectId, row \in Maybe(ProjectRow) : [cat EXCEPT !["projects"][id] = row] \in IdentityCatalog
         /\ \A id \in RoleId, row \in Maybe(RoleRow) : [cat EXCEPT !["roles"][id] = row] \in IdentityCatalog
<1>1. ASSUME NEW id \in RefId, NEW row \in Maybe(Reference)
      PROVE  [cat EXCEPT !["references"][id] = row] \in IdentityCatalog
  <2>1. [cat.references EXCEPT ![id] = row] \in [RefId -> Maybe(Reference)]
    BY DEF IdentityCatalog
  <2>2. QED
    BY <2>1 DEF IdentityCatalog
<1>2. ASSUME NEW id \in ProviderId, NEW row \in Maybe(AgentProvider)
      PROVE  [cat EXCEPT !["providers"][id] = row] \in IdentityCatalog
  <2>1. [cat.providers EXCEPT ![id] = row] \in [ProviderId -> Maybe(AgentProvider)]
    BY DEF IdentityCatalog
  <2>2. QED
    BY <2>1 DEF IdentityCatalog
<1>3. ASSUME NEW id \in AccountId, NEW row \in Maybe(Account)
      PROVE  [cat EXCEPT !["accounts"][id] = row] \in IdentityCatalog
  <2>1. [cat.accounts EXCEPT ![id] = row] \in [AccountId -> Maybe(Account)]
    BY DEF IdentityCatalog
  <2>2. QED
    BY <2>1 DEF IdentityCatalog
<1>4. ASSUME NEW id \in ModelId, NEW row \in Maybe(Model)
      PROVE  [cat EXCEPT !["models"][id] = row] \in IdentityCatalog
  <2>1. [cat.models EXCEPT ![id] = row] \in [ModelId -> Maybe(Model)]
    BY DEF IdentityCatalog
  <2>2. QED
    BY <2>1 DEF IdentityCatalog
<1>5. ASSUME NEW id \in AgentId, NEW row \in Maybe(AgentInstance)
      PROVE  [cat EXCEPT !["agents"][id] = row] \in IdentityCatalog
  <2>1. [cat.agents EXCEPT ![id] = row] \in [AgentId -> Maybe(AgentInstance)]
    BY DEF IdentityCatalog
  <2>2. QED
    BY <2>1 DEF IdentityCatalog
<1>6. ASSUME NEW id \in ProjectId, NEW row \in Maybe(ProjectRow)
      PROVE  [cat EXCEPT !["projects"][id] = row] \in IdentityCatalog
  <2>1. [cat.projects EXCEPT ![id] = row] \in [ProjectId -> Maybe(ProjectRow)]
    BY DEF IdentityCatalog
  <2>2. QED
    BY <2>1 DEF IdentityCatalog
<1>7. ASSUME NEW id \in RoleId, NEW row \in Maybe(RoleRow)
      PROVE  [cat EXCEPT !["roles"][id] = row] \in IdentityCatalog
  <2>1. [cat.roles EXCEPT ![id] = row] \in [RoleId -> Maybe(RoleRow)]
    BY DEF IdentityCatalog
  <2>2. QED
    BY <2>1 DEF IdentityCatalog
<1>8. QED
  BY <1>1, <1>2, <1>3, <1>4, <1>5, <1>6, <1>7

\* The value of every field of a row a client sends is one the field may have.
LEMMA RowEdited ==
  ASSUME Catalogs
  PROVE  /\ \A id \in RefId : RowEdits("references", id) \subseteq Maybe(Reference)
         /\ \A id \in ProviderId : RowEdits("providers", id) \subseteq Maybe(AgentProvider)
         /\ \A id \in AccountId : RowEdits("accounts", id) \subseteq Maybe(Account)
         /\ \A id \in ModelId : RowEdits("models", id) \subseteq Maybe(Model)
         /\ \A id \in AgentId : RowEdits("agents", id) \subseteq Maybe(AgentInstance)
         /\ \A id \in ProjectId : RowEdits("projects", id) \subseteq Maybe(ProjectRow)
         /\ \A id \in RoleId : RowEdits("roles", id) \subseteq Maybe(RoleRow)
<1>1. ASSUME NEW id \in RefId, NEW new \in RowEdits("references", id)
      PROVE  new \in Maybe(Reference)
  <2> DEFINE row == catalog["references"][id]
  <2>1. row \in Maybe(Reference) /\ SeedCatalog["references"][id] \in Maybe(Reference)
    BY SeedsAreValid DEF Catalogs, IdentityCatalog
  <2>2. CASE row = None
    BY <2>1, <2>2 DEF RowEdits
  <2>3. CASE row # None /\ new # None
    <3>1. row \in Reference /\ DOMAIN row = {"active", "locator"}
      BY <2>1, <2>3 DEF Reference, Maybe
    <3>2. \E f \in DOMAIN row : \E v \in Values[f] : new = [row EXCEPT ![f] = v]
      BY <2>3 DEF RowEdits
    <3>3. PICK f \in DOMAIN row : \E v \in Values[f] : new = [row EXCEPT ![f] = v]
      BY <3>2
    <3> PICK v \in Values[f] : new = [row EXCEPT ![f] = v]
      BY <3>3
    <3>4. CASE f = "active"
      BY <3>1, <3>3, <3>4 DEF Reference, Values, Maybe
    <3>5. CASE f = "locator"
      BY <3>1, <3>3, <3>5 DEF Reference, Values, Maybe
    <3>6. QED
      BY <3>1, <3>4, <3>5
  <2>4. QED
    BY <2>2, <2>3 DEF Maybe
<1>2. ASSUME NEW id \in ProviderId, NEW new \in RowEdits("providers", id)
      PROVE  new \in Maybe(AgentProvider)
  <2> DEFINE row == catalog["providers"][id]
  <2>1. row \in Maybe(AgentProvider) /\ SeedCatalog["providers"][id] \in Maybe(AgentProvider)
    BY SeedsAreValid DEF Catalogs, IdentityCatalog
  <2>2. CASE row = None
    BY <2>1, <2>2 DEF RowEdits
  <2>3. CASE row # None /\ new # None
    <3>1. row \in AgentProvider /\ DOMAIN row = {"active", "adapter_kind"}
      BY <2>1, <2>3 DEF AgentProvider, Maybe
    <3>2. \E f \in DOMAIN row : \E v \in Values[f] : new = [row EXCEPT ![f] = v]
      BY <2>3 DEF RowEdits
    <3>3. PICK f \in DOMAIN row : \E v \in Values[f] : new = [row EXCEPT ![f] = v]
      BY <3>2
    <3> PICK v \in Values[f] : new = [row EXCEPT ![f] = v]
      BY <3>3
    <3>4. CASE f = "active"
      BY <3>1, <3>3, <3>4 DEF AgentProvider, Values, Maybe
    <3>5. CASE f = "adapter_kind"
      BY <3>1, <3>3, <3>5 DEF AgentProvider, Values, Maybe
    <3>6. QED
      BY <3>1, <3>4, <3>5
  <2>4. QED
    BY <2>2, <2>3 DEF Maybe
<1>3. ASSUME NEW id \in AccountId, NEW new \in RowEdits("accounts", id)
      PROVE  new \in Maybe(Account)
  <2> DEFINE row == catalog["accounts"][id]
  <2>1. row \in Maybe(Account) /\ SeedCatalog["accounts"][id] \in Maybe(Account)
    BY SeedsAreValid DEF Catalogs, IdentityCatalog
  <2>2. CASE row = None
    BY <2>1, <2>2 DEF RowEdits
  <2>3. CASE row # None /\ new # None
    <3>1. row \in Account /\ DOMAIN row = {"active", "provider", "identity", "reference"}
      BY <2>1, <2>3 DEF Account, Maybe
    <3>2. \E f \in DOMAIN row : \E v \in Values[f] : new = [row EXCEPT ![f] = v]
      BY <2>3 DEF RowEdits
    <3>3. PICK f \in DOMAIN row : \E v \in Values[f] : new = [row EXCEPT ![f] = v]
      BY <3>2
    <3> PICK v \in Values[f] : new = [row EXCEPT ![f] = v]
      BY <3>3
    <3>4. CASE f = "active"
      BY <3>1, <3>3, <3>4 DEF Account, Values, Maybe
    <3>5. CASE f = "provider"
      BY <3>1, <3>3, <3>5 DEF Account, Values, Maybe
    <3>6. CASE f = "identity"
      BY <3>1, <3>3, <3>6 DEF Account, Values, Maybe
    <3>7. CASE f = "reference"
      BY <3>1, <3>3, <3>7 DEF Account, Values, Maybe
    <3>8. QED
      BY <3>1, <3>4, <3>5, <3>6, <3>7
  <2>4. QED
    BY <2>2, <2>3 DEF Maybe
<1>4. ASSUME NEW id \in ModelId, NEW new \in RowEdits("models", id)
      PROVE  new \in Maybe(Model)
  <2> DEFINE row == catalog["models"][id]
  <2>1. row \in Maybe(Model) /\ SeedCatalog["models"][id] \in Maybe(Model)
    BY SeedsAreValid DEF Catalogs, IdentityCatalog
  <2>2. CASE row = None
    BY <2>1, <2>2 DEF RowEdits
  <2>3. CASE row # None /\ new # None
    <3>1. row \in Model /\ DOMAIN row = {"active", "name"}
      BY <2>1, <2>3 DEF Model, Maybe
    <3>2. \E f \in DOMAIN row : \E v \in Values[f] : new = [row EXCEPT ![f] = v]
      BY <2>3 DEF RowEdits
    <3>3. PICK f \in DOMAIN row : \E v \in Values[f] : new = [row EXCEPT ![f] = v]
      BY <3>2
    <3> PICK v \in Values[f] : new = [row EXCEPT ![f] = v]
      BY <3>3
    <3>4. CASE f = "active"
      BY <3>1, <3>3, <3>4 DEF Model, Values, Maybe
    <3>5. CASE f = "name"
      BY <3>1, <3>3, <3>5 DEF Model, Values, Maybe
    <3>6. QED
      BY <3>1, <3>4, <3>5
  <2>4. QED
    BY <2>2, <2>3 DEF Maybe
<1>5. ASSUME NEW id \in AgentId, NEW new \in RowEdits("agents", id)
      PROVE  new \in Maybe(AgentInstance)
  <2> DEFINE row == catalog["agents"][id]
  <2>1. row \in Maybe(AgentInstance) /\ SeedCatalog["agents"][id] \in Maybe(AgentInstance)
    BY SeedsAreValid DEF Catalogs, IdentityCatalog
  <2>2. CASE row = None
    BY <2>1, <2>2 DEF RowEdits
  <2>3. CASE row # None /\ new # None
    <3>1. row \in AgentInstance /\ DOMAIN row = {"active", "provider", "account", "model"}
      BY <2>1, <2>3 DEF AgentInstance, Maybe
    <3>2. \E f \in DOMAIN row : \E v \in Values[f] : new = [row EXCEPT ![f] = v]
      BY <2>3 DEF RowEdits
    <3>3. PICK f \in DOMAIN row : \E v \in Values[f] : new = [row EXCEPT ![f] = v]
      BY <3>2
    <3> PICK v \in Values[f] : new = [row EXCEPT ![f] = v]
      BY <3>3
    <3>4. CASE f = "active"
      BY <3>1, <3>3, <3>4 DEF AgentInstance, Values, Maybe
    <3>5. CASE f = "provider"
      BY <3>1, <3>3, <3>5 DEF AgentInstance, Values, Maybe
    <3>6. CASE f = "account"
      BY <3>1, <3>3, <3>6 DEF AgentInstance, Values, Maybe
    <3>7. CASE f = "model"
      BY <3>1, <3>3, <3>7 DEF AgentInstance, Values, Maybe
    <3>8. QED
      BY <3>1, <3>4, <3>5, <3>6, <3>7
  <2>4. QED
    BY <2>2, <2>3 DEF Maybe
<1>6. ASSUME NEW id \in ProjectId, NEW new \in RowEdits("projects", id)
      PROVE  new \in Maybe(ProjectRow)
  <2> DEFINE row == catalog["projects"][id]
  <2>1. row \in Maybe(ProjectRow) /\ SeedCatalog["projects"][id] \in Maybe(ProjectRow)
    BY SeedsAreValid DEF Catalogs, IdentityCatalog
  <2>2. CASE row = None
    BY <2>1, <2>2 DEF RowEdits
  <2>3. CASE row # None /\ new # None
    <3>1. row \in ProjectRow /\ DOMAIN row = {"active", "root", "policy"}
      BY <2>1, <2>3 DEF ProjectRow, Maybe
    <3>2. \E f \in DOMAIN row : \E v \in Values[f] : new = [row EXCEPT ![f] = v]
      BY <2>3 DEF RowEdits
    <3>3. PICK f \in DOMAIN row : \E v \in Values[f] : new = [row EXCEPT ![f] = v]
      BY <3>2
    <3> PICK v \in Values[f] : new = [row EXCEPT ![f] = v]
      BY <3>3
    <3>4. CASE f = "active"
      BY <3>1, <3>3, <3>4 DEF ProjectRow, Values, Maybe
    <3>5. CASE f = "root"
      BY <3>1, <3>3, <3>5 DEF ProjectRow, Values, Maybe
    <3>6. CASE f = "policy"
      BY <3>1, <3>3, <3>6 DEF ProjectRow, Values, Maybe
    <3>7. QED
      BY <3>1, <3>4, <3>5, <3>6
  <2>4. QED
    BY <2>2, <2>3 DEF Maybe
<1>7. ASSUME NEW id \in RoleId, NEW new \in RowEdits("roles", id)
      PROVE  new \in Maybe(RoleRow)
  <2> DEFINE row == catalog["roles"][id]
  <2>1. row \in Maybe(RoleRow) /\ SeedCatalog["roles"][id] \in Maybe(RoleRow)
    BY SeedsAreValid DEF Catalogs, IdentityCatalog
  <2>2. CASE row = None
    BY <2>1, <2>2 DEF RowEdits
  <2>3. CASE row # None /\ new # None
    <3>1. row \in RoleRow /\ DOMAIN row = {"active", "policy"}
      BY <2>1, <2>3 DEF RoleRow, Maybe
    <3>2. \E f \in DOMAIN row : \E v \in Values[f] : new = [row EXCEPT ![f] = v]
      BY <2>3 DEF RowEdits
    <3>3. PICK f \in DOMAIN row : \E v \in Values[f] : new = [row EXCEPT ![f] = v]
      BY <3>2
    <3> PICK v \in Values[f] : new = [row EXCEPT ![f] = v]
      BY <3>3
    <3>4. CASE f = "active"
      BY <3>1, <3>3, <3>4 DEF RoleRow, Values, Maybe
    <3>5. CASE f = "policy"
      BY <3>1, <3>3, <3>5 DEF RoleRow, Values, Maybe
    <3>6. QED
      BY <3>1, <3>4, <3>5
  <2>4. QED
    BY <2>2, <2>3 DEF Maybe
<1>8. QED
  BY <1>1, <1>2, <1>3, <1>4, <1>5, <1>6, <1>7

\* What a client may send is a catalog.
LEMMA EditedCatalog ==
  ASSUME Catalogs, NEW new \in CatalogEdits
  PROVE  new \in IdentityCatalog
<1>1. catalog \in IdentityCatalog
  BY DEF Catalogs
<1>2. CASE \E r \in RunId, run \in RunEdits : new = [catalog EXCEPT !.runs[r] = run]
  <2>1. PICK r \in RunId, run \in RunEdits : new = [catalog EXCEPT !.runs[r] = run]
    BY <1>2
  <2>2. run \in Maybe(Run)
    BY DEF RunEdits, Run, RunState, Maybe
  <2>3. QED
    BY <1>1, <2>1, <2>2, RunReplaced
<1>3. CASE \E table \in DOMAIN catalog \ {"runs"} : \E id \in DOMAIN catalog[table] :
             \E row \in RowEdits(table, id) : new = [catalog EXCEPT ![table][id] = row]
  <2>1. PICK table \in DOMAIN catalog \ {"runs"} : \E id \in DOMAIN catalog[table] :
             \E row \in RowEdits(table, id) : new = [catalog EXCEPT ![table][id] = row]
    BY <1>3
  <2>2. PICK id \in DOMAIN catalog[table] :
             \E row \in RowEdits(table, id) : new = [catalog EXCEPT ![table][id] = row]
    BY <2>1
  <2>3. PICK row \in RowEdits(table, id) : new = [catalog EXCEPT ![table][id] = row]
    BY <2>2
  <2>4. table \in {"references", "providers", "accounts", "models", "agents", "projects",
                   "roles"}
    BY <1>1 DEF IdentityCatalog
  <2>5. CASE table = "references"
    <3>1. id \in RefId
      BY <1>1, <2>2, <2>5 DEF IdentityCatalog
    <3>2. row \in Maybe(Reference)
      BY <2>3, <2>5, <3>1, RowEdited
    <3>3. QED
      BY <1>1, <2>3, <2>5, <3>1, <3>2, TableEdited
  <2>6. CASE table = "providers"
    <3>1. id \in ProviderId
      BY <1>1, <2>2, <2>6 DEF IdentityCatalog
    <3>2. row \in Maybe(AgentProvider)
      BY <2>3, <2>6, <3>1, RowEdited
    <3>3. QED
      BY <1>1, <2>3, <2>6, <3>1, <3>2, TableEdited
  <2>7. CASE table = "accounts"
    <3>1. id \in AccountId
      BY <1>1, <2>2, <2>7 DEF IdentityCatalog
    <3>2. row \in Maybe(Account)
      BY <2>3, <2>7, <3>1, RowEdited
    <3>3. QED
      BY <1>1, <2>3, <2>7, <3>1, <3>2, TableEdited
  <2>8. CASE table = "models"
    <3>1. id \in ModelId
      BY <1>1, <2>2, <2>8 DEF IdentityCatalog
    <3>2. row \in Maybe(Model)
      BY <2>3, <2>8, <3>1, RowEdited
    <3>3. QED
      BY <1>1, <2>3, <2>8, <3>1, <3>2, TableEdited
  <2>9. CASE table = "agents"
    <3>1. id \in AgentId
      BY <1>1, <2>2, <2>9 DEF IdentityCatalog
    <3>2. row \in Maybe(AgentInstance)
      BY <2>3, <2>9, <3>1, RowEdited
    <3>3. QED
      BY <1>1, <2>3, <2>9, <3>1, <3>2, TableEdited
  <2>10. CASE table = "projects"
    <3>1. id \in ProjectId
      BY <1>1, <2>2, <2>10 DEF IdentityCatalog
    <3>2. row \in Maybe(ProjectRow)
      BY <2>3, <2>10, <3>1, RowEdited
    <3>3. QED
      BY <1>1, <2>3, <2>10, <3>1, <3>2, TableEdited
  <2>11. CASE table = "roles"
    <3>1. id \in RoleId
      BY <1>1, <2>2, <2>11 DEF IdentityCatalog
    <3>2. row \in Maybe(RoleRow)
      BY <2>3, <2>11, <3>1, RowEdited
    <3>3. QED
      BY <1>1, <2>3, <2>11, <3>1, <3>2, TableEdited
  <2>12. QED
    BY <2>4, <2>5, <2>6, <2>7, <2>8, <2>9, <2>10, <2>11
<1>4. QED
  BY <1>2, <1>3 DEF CatalogEdits

\* So is what it may send for the meeting and the assignments.
LEMMA EditedM3 ==
  ASSUME m3 \in M3Catalog, NEW new \in M3Edits
  PROVE  new \in M3Catalog
<1>1. CASE \E t \in Text : new = [m3 EXCEPT !.baseline = t]
  BY <1>1 DEF M3Catalog
<1>2. CASE \E slot \in DOMAIN m3.assigned :
             \E row \in Maybe([active : BOOLEAN, agent : AgentId]) :
             new = [m3 EXCEPT !.assigned[slot] = row]
  <2>1. PICK slot \in DOMAIN m3.assigned, row \in Maybe([active : BOOLEAN, agent : AgentId]) :
             new = [m3 EXCEPT !.assigned[slot] = row]
    BY <1>2
  <2>2. [m3.assigned EXCEPT ![slot] = row] \in
           [ProjectId \X RoleId -> Maybe([active : BOOLEAN, agent : AgentId])]
    BY DEF M3Catalog
  <2>3. QED
    BY <2>1, <2>2 DEF M3Catalog
<1>3. QED
  BY <1>1, <1>2 DEF M3Edits

-----------------------------------------------------------------------------
(* The invariant holds at first, and edits keep it.                        *)

\* The parts of the type.
LEMMA Typed ==
  ASSUME AuthorityInv
  PROVE  /\ Catalogs /\ plans \in [RunId -> Maybe(Plan)]
         /\ staged \in [RunId -> Maybe(StagedRow)]
         /\ requests \in [RequestId -> Maybe(Request)]
         /\ grants \in [RequestId -> Maybe({"issued", "spent", "revoked"})]
         /\ worker \in [RunId -> Maybe({"starting", "launched", "refused"})]
         /\ edits \in 0..MaxEdits
         /\ PlansInv /\ GrantsInv /\ WorkersInv /\ StagedInv
BY DEF AuthorityInv, TypeOK, Catalogs

\* Before the first launch there are only the catalogs.
LEMMA AtFirst == Init => AuthorityInv
<1> SUFFICES ASSUME Init PROVE AuthorityInv
  OBVIOUS
<1>1. TypeOK
  <2>1. /\ catalog \in IdentityCatalog /\ validate(catalog)
        /\ m3 \in M3Catalog /\ validate_m3(m3, catalog)
    BY SeedsAreValid DEF Init
  <2>2. edits \in 0..MaxEdits
    BY LaunchAuthorityAssumption DEF Init
  <2>3. /\ plans \in [RunId -> Maybe(Plan)] /\ staged \in [RunId -> Maybe(StagedRow)]
        /\ requests \in [RequestId -> Maybe(Request)]
        /\ grants \in [RequestId -> Maybe({"issued", "spent", "revoked"})]
        /\ worker \in [RunId -> Maybe({"starting", "launched", "refused"})]
    BY DEF Init, Maybe
  <2>4. QED
    BY <2>1, <2>2, <2>3 DEF TypeOK
<1>2. /\ consent = [x \in RunId \cup RequestId |-> consent[x]]
      /\ used = [x \in RunId \cup RequestId |-> used[x]]
  BY DEF Init
<1>3. PlansInv /\ GrantsInv /\ WorkersInv /\ StagedInv
  BY DEF Init, PlansInv, GrantsInv, Granted, WorkersInv, Works, StagedInv, Undispatched
<1>4. QED
  BY <1>1, <1>2, <1>3 DEF AuthorityInv

\* Whatever a client does to the catalogs, it leaves the runs as they are.
LEMMA EditKeeps ==
  ASSUME AuthorityInv, Catalogs', edits' \in 0..MaxEdits,
         \A r \in RunId : catalog.runs[r] # None => catalog'.runs[r] = catalog.runs[r],
         UNCHANGED <<tables, worker, history>>
  PROVE  AuthorityInv'
<1>1. UNCHANGED <<plans, staged, requests, grants, worker, consent, used>>
  BY DEF tables, history
<1>2. TypeOK'
  BY <1>1 DEF AuthorityInv, TypeOK, Catalogs
<1>3. PlansInv'
  BY <1>1 DEF AuthorityInv, PlansInv
<1>4. GrantsInv'
  <2> SUFFICES ASSUME NEW q \in RequestId, grants[q] # None
               PROVE  catalog'.runs[requests[q].action.run] # None
    BY <1>1 DEF AuthorityInv, GrantsInv, Granted
  <2>1. requests[q] # None /\ catalog.runs[requests[q].action.run] # None
    BY DEF AuthorityInv, GrantsInv, Granted
  <2>2. requests[q] \in Request
    BY <2>1, Typed DEF Maybe
  <2>3. requests[q].action.run \in RunId
    BY <2>2 DEF Request, Action
  <2>4. QED
    BY <2>1, <2>3
<1>5. WorkersInv'
  BY <1>1 DEF AuthorityInv, WorkersInv, Works, PlansInv
<1>6. StagedInv'
  <2> SUFFICES ASSUME NEW r \in RunId, Undispatched(r)
               PROVE  Waits(r, staged[r].request)'
    BY <1>1 DEF AuthorityInv, StagedInv, Undispatched
  <2>1. Waits(r, staged[r].request)
    BY DEF AuthorityInv, StagedInv
  <2>2. catalog'.runs[r] = catalog.runs[r]
    BY <2>1 DEF Waits, AuthorityInv, PlansInv
  <2>3. QED
    BY <1>1, <2>1, <2>2 DEF Waits
<1>7. QED
  BY <1>1, <1>2, <1>3, <1>4, <1>5, <1>6 DEF AuthorityInv

\* replace_catalog
LEMMA ReplaceCatalogStep ==
  ASSUME AuthorityInv, NEW new \in CatalogEdits, ReplaceCatalog(new)
  PROVE  AuthorityInv'
<1>1. Catalogs
  BY Typed
<1>2. /\ validate(catalog') /\ validate_m3(m3', catalog') /\ catalog' = new /\ m3' = m3
      /\ edits < MaxEdits /\ edits' = edits + 1
      /\ UNCHANGED <<tables, worker, history>>
  BY DEF ReplaceCatalog
<1>3. Catalogs'
  BY <1>1, <1>2, EditedCatalog DEF Catalogs
<1>4. \A r \in RunId : catalog.runs[r] # None => catalog'.runs[r] = catalog.runs[r]
  BY <1>2 DEF ReplaceCatalog, KeepsRuns
<1>5. edits' \in 0..MaxEdits
  BY <1>2, Typed, LaunchAuthorityAssumption
<1>6. QED
  BY <1>2, <1>3, <1>4, <1>5, EditKeeps

\* replace_m3_catalog
LEMMA ReplaceM3CatalogStep ==
  ASSUME AuthorityInv, NEW new \in M3Edits, ReplaceM3Catalog(new)
  PROVE  AuthorityInv'
<1>1. Catalogs
  BY Typed
<1>2. /\ validate_m3(m3', catalog) /\ m3' = new /\ catalog' = catalog
      /\ edits < MaxEdits /\ edits' = edits + 1
      /\ UNCHANGED <<tables, worker, history>>
  BY DEF ReplaceM3Catalog
<1>3. new \in M3Catalog
  BY <1>1, EditedM3 DEF Catalogs
<1>4. Catalogs'
  BY <1>1, <1>2, <1>3 DEF Catalogs
<1>5. edits' \in 0..MaxEdits
  BY <1>2, Typed, LaunchAuthorityAssumption
<1>6. QED
  BY <1>2, <1>4, <1>5, EditKeeps

-----------------------------------------------------------------------------
(* Beginning an attempt.                                                   *)

\* The plan of an attempt that begins is what the catalogs say.
LEMMA NewPlanFacts ==
  ASSUME Catalogs, CanResolve(catalog, m3), CanCapture(catalog)
  PROVE  LET id == NewPlan.binding.identity
         IN  /\ NewPlan \in Plan /\ NewPlan # None
             /\ NewPlan.policy = capture(catalog)
             /\ restrict(NewPlan.policy.project, NewPlan.policy.role)
             /\ id.project = NodeProject /\ id.agent \in Known(catalog.agents)
             /\ id.model \in Known(catalog.models)
             /\ Terms = PlannedTerms(NewPlan)
             /\ Credential(Terms.agent) = PlannedCredential(NewPlan)
<1> DEFINE b == resolve_provider_run_binding(catalog, m3)
<1>1. /\ b \in Binding /\ b.identity.project = NodeProject
      /\ b.identity.agent \in Known(catalog.agents)
      /\ b.identity.model \in Known(catalog.models)
  BY ResolvedFacts
<1>2. capture(catalog) \in [project : Policy, role : Policy]
  BY NodeRows DEF Catalogs, capture, ProjectRow, RoleRow
<1>3. restrict(capture(catalog).project, capture(catalog).role)
  BY DEF CanCapture
<1>4. NewPlan = [binding |-> b, policy |-> capture(catalog)]
  BY DEF NewPlan
<1> HIDE DEF b
<1>5. NewPlan \in Plan /\ NewPlan.binding = b /\ NewPlan.policy = capture(catalog)
  BY <1>1, <1>2, <1>4 DEF Plan
<1>6. SameBinding(NewPlan, catalog, m3) /\ validate_current_policy(NewPlan, catalog)
  BY <1>5 DEF SameBinding, validate_current_policy, b
<1>7. /\ Terms = PlannedTerms(NewPlan)
      /\ Credential(NewPlan.binding.identity.agent) = PlannedCredential(NewPlan)
  BY <1>6, TermsPlanned
<1>8. Terms.agent = NewPlan.binding.identity.agent
  BY <1>7 DEF PlannedTerms
<1>9. NewPlan # None
  BY <1>5, NoneIsNoRow
<1>10. QED
  BY <1>1, <1>3, <1>5, <1>7, <1>8, <1>9

\* What begin_graph_node_run_inner does: the run and its plan are new, and all
\* that was there before stays.
LEMMA Begun ==
  ASSUME AuthorityInv, NEW r \in RunId, NEW s \in {"Starting", "AwaitingApproval"},
         Begin(r, s)
  PROVE  /\ Catalogs' /\ plans' \in [RunId -> Maybe(Plan)]
         /\ consent' = [x \in RunId \cup RequestId |-> consent'[x]]
         /\ plans[r] = None /\ plans'[r] = NewPlan
         /\ \A x \in RunId \ {r} : plans'[x] = plans[x]
         /\ \A x \in (RunId \cup RequestId) \ {r} : consent'[x] = consent[x]
         /\ catalog.runs[r] = None /\ catalog'.runs[r] # None
         /\ catalog'.runs[r] =
              [agent |-> NewPlan.binding.identity.agent, project |-> NodeProject,
               model |-> NewPlan.binding.identity.model,
               state |-> s, started |-> s = "Starting", finished |-> FALSE]
         /\ \A x \in RunId \ {r} : catalog'.runs[x] = catalog.runs[x]
         /\ PlansInv' /\ UNCHANGED <<m3, grants, edits, used>>
<1> DEFINE run == [agent |-> NewPlan.binding.identity.agent, project |-> NodeProject,
                   model |-> NewPlan.binding.identity.model,
                   state |-> s, started |-> s = "Starting", finished |-> FALSE]
<1>1. /\ Catalogs /\ plans \in [RunId -> Maybe(Plan)] /\ PlansInv
      /\ consent = [x \in RunId \cup RequestId |-> consent[x]]
  BY Typed DEF AuthorityInv
<1>2. /\ catalog.runs[r] = None /\ CanResolve(catalog, m3) /\ CanCapture(catalog)
      /\ catalog' = [catalog EXCEPT !.runs[r] = run]
      /\ plans' = [plans EXCEPT ![r] = NewPlan]
      /\ consent' = [consent EXCEPT ![r] =
                       [terms |-> Terms, credential |-> Credential(Terms.agent)]]
      /\ UNCHANGED <<m3, grants, edits, used>>
  BY DEF Begin, NewRun
<1>3. /\ NewPlan \in Plan /\ NewPlan # None
      /\ restrict(NewPlan.policy.project, NewPlan.policy.role)
      /\ NewPlan.binding.identity.project = NodeProject
      /\ NewPlan.binding.identity.agent \in Known(catalog.agents)
      /\ NewPlan.binding.identity.model \in Known(catalog.models)
      /\ Terms = PlannedTerms(NewPlan)
      /\ Credential(Terms.agent) = PlannedCredential(NewPlan)
  BY <1>1, <1>2, NewPlanFacts
<1>4. /\ NewPlan.binding.identity.agent \in AgentId
      /\ NewPlan.binding.identity.model \in ModelId
  BY <1>3 DEF Plan, Binding
<1>5. run \in Run
  <2>1. NodeProject \in ProjectId /\ (s = "Starting") \in BOOLEAN /\ s \in RunState
    BY LaunchAuthorityAssumption DEF RunState
  <2>2. QED
    BY <1>4, <2>1 DEF Run
<1>6. /\ run.agent \in Known(catalog.agents) /\ run.project \in Known(catalog.projects)
      /\ run.model \in Known(catalog.models)
  BY <1>1, <1>3, NodeRows DEF Catalogs
<1>7. validate_run_timing(run)
  BY DEF validate_run_timing
<1> HIDE DEF run
<1>8. /\ Catalogs' /\ catalog'.runs[r] = run /\ catalog'.runs[r] # None
      /\ \A x \in RunId \ {r} : catalog'.runs[x] = catalog.runs[x]
  BY <1>1, <1>2, <1>5, <1>6, <1>7, DaemonChange
<1>9. plans[r] = None
  BY <1>1, <1>2 DEF PlansInv
<1>10. /\ plans' \in [RunId -> Maybe(Plan)] /\ plans'[r] = NewPlan
       /\ \A x \in RunId \ {r} : plans'[x] = plans[x]
  BY <1>1, <1>2, <1>3 DEF Maybe
<1>11. /\ consent' = [x \in RunId \cup RequestId |-> consent'[x]]
       /\ consent'[r] = [terms |-> PlannedTerms(NewPlan),
                         credential |-> PlannedCredential(NewPlan)]
       /\ \A x \in (RunId \cup RequestId) \ {r} : consent'[x] = consent[x]
  BY <1>1, <1>2, <1>3
<1>12. PlansInv'
  <2> SUFFICES ASSUME NEW x \in RunId, plans'[x] # None
               PROVE  /\ catalog'.runs[x] # None
                      /\ consent'[x] = [terms |-> PlannedTerms(plans'[x]),
                                        credential |-> PlannedCredential(plans'[x])]
                      /\ plans'[x].binding.identity.project = NodeProject
                      /\ restrict(plans'[x].policy.project, plans'[x].policy.role)
    BY DEF PlansInv, PlannedTerms, PlannedCredential, NeedsCredential, restrict
  <2>1. CASE x = r
    BY <1>3, <1>8, <1>10, <1>11, <2>1
  <2>2. CASE x # r
    <3>1. /\ plans'[x] = plans[x] /\ consent'[x] = consent[x]
          /\ catalog'.runs[x] = catalog.runs[x]
      BY <1>8, <1>10, <1>11, <2>2
    <3>2. QED
      BY <1>1, <3>1 DEF PlansInv
  <2>3. QED
    BY <2>1, <2>2
<1>13. QED
  BY <1>2, <1>8, <1>9, <1>10, <1>11, <1>12 DEF run

\* A new attempt touches no grant that was issued, and no launch that waits, of
\* another run.
LEMMA BegunKeeps ==
  ASSUME AuthorityInv, NEW r \in RunId, NEW s \in {"Starting", "AwaitingApproval"},
         Begin(r, s),
         \A q \in RequestId : requests[q] # None => requests'[q] = requests[q],
         \A x \in RunId \ {r} : staged'[x] = staged[x] /\ worker'[x] = worker[x]
  PROVE  /\ GrantsInv'
         /\ worker[r] = None /\ staged[r] = None
         /\ \A x \in RunId \ {r} : staged'[x] # None => plans'[x] # None
         /\ \A x \in RunId \ {r} : Undispatched(x)' => Waits(x, staged[x].request)'
         /\ \A x \in RunId \ {r} : worker'[x] # None =>
              /\ plans'[x] # None /\ plans'[x].binding.identity.account = None
              /\ staged'[x] = None
              /\ worker'[x] = "starting" => catalog'.runs[x].started
              /\ worker'[x] = "launched" =>
                   used'[x] = PlannedTerms(plans'[x])
                   /\ validate_online_cli_requirements(plans'[x])
<1>1. /\ plans[r] = None /\ catalog.runs[r] = None /\ catalog'.runs[r] # None
      /\ \A x \in RunId \ {r} : plans'[x] = plans[x] /\ catalog'.runs[x] = catalog.runs[x]
      /\ \A x \in (RunId \cup RequestId) \ {r} : consent'[x] = consent[x]
      /\ UNCHANGED <<grants, used>>
  BY Begun
<1>2. GrantsInv'
  <2> SUFFICES ASSUME NEW q \in RequestId, grants[q] # None
               PROVE  LET action == requests'[q].action
                          plan == plans'[action.run]
                      IN  /\ requests'[q] # None /\ requests'[q].decision # None
                          /\ catalog'.runs[action.run] # None
                          /\ consent'[q] = Agreed(action, plan)
                          /\ plan # None => ActionCredential(action) = PlannedCredential(plan)
                          /\ grants[q] = "spent" => used[q] = consent'[q]
    BY <1>1 DEF GrantsInv, Granted, Agreed, ActionCredential, PlannedCredential, PlannedTerms,
                NeedsCredential
  <2> DEFINE action == requests[q].action
             plan == plans[action.run]
  <2>1. /\ requests[q] # None /\ requests[q].decision # None
        /\ catalog.runs[action.run] # None
        /\ consent[q] = Agreed(action, plan)
        /\ plan # None => ActionCredential(action) = PlannedCredential(plan)
        /\ grants[q] = "spent" => used[q] = consent[q]
    BY Typed DEF GrantsInv, Granted
  <2>2. action.run \in RunId \ {r}
    <3>1. requests[q] \in Request
      BY <2>1, Typed DEF Maybe
    <3>2. QED
      BY <1>1, <2>1, <3>1 DEF Request, Action
  <2>3. /\ requests'[q] = requests[q] /\ plans'[action.run] = plan
        /\ catalog'.runs[action.run] = catalog.runs[action.run]
        /\ consent'[q] = consent[q]
    <3>1. q \in (RunId \cup RequestId) \ {r}
      BY LaunchAuthorityAssumption
    <3>2. QED
      BY <1>1, <2>1, <2>2, <3>1
  <2> HIDE DEF action, plan
  <2>4. QED
    BY <2>1, <2>3 DEF action
<1>3. /\ worker[r] = None /\ staged[r] = None
      /\ \A x \in RunId \ {r} : staged'[x] # None => plans'[x] # None
  BY <1>1, Typed DEF WorkersInv, Works, StagedInv
<1>4. ASSUME NEW x \in RunId \ {r}, Undispatched(x)'
      PROVE  Waits(x, staged[x].request)'
  <2>1. Undispatched(x) /\ staged'[x] = staged[x]
    BY <1>4 DEF Undispatched
  <2>2. Waits(x, staged[x].request)
    BY <2>1, Typed DEF StagedInv
  <2>3. staged[x].request \in RequestId
    BY <2>1, Typed DEF Undispatched, StagedRow, Maybe
  <2>4. /\ plans'[x] = plans[x] /\ catalog'.runs[x] = catalog.runs[x]
        /\ requests'[staged[x].request] = requests[staged[x].request]
    BY <1>1, <2>2, <2>3 DEF Waits
  <2>5. QED
    BY <2>1, <2>2, <2>4 DEF Waits
<1>5. ASSUME NEW x \in RunId \ {r}, worker'[x] # None
      PROVE  /\ plans'[x] # None /\ plans'[x].binding.identity.account = None
             /\ staged'[x] = None
             /\ worker'[x] = "starting" => catalog'.runs[x].started
             /\ worker'[x] = "launched" =>
                   used'[x] = PlannedTerms(plans'[x])
                   /\ validate_online_cli_requirements(plans'[x])
  BY <1>1, <1>5, Typed DEF WorkersInv, Works
<1>6. QED
  BY <1>2, <1>3, <1>4, <1>5

\* The workers of all runs.
LEMMA WorkersOf ==
  ASSUME \A x \in RunId : worker'[x] # None =>
              /\ plans'[x] # None /\ plans'[x].binding.identity.account = None
              /\ staged'[x] = None
              /\ worker'[x] = "starting" => catalog'.runs[x].started
              /\ worker'[x] = "launched" =>
                   used'[x] = PlannedTerms(plans'[x])
                   /\ validate_online_cli_requirements(plans'[x])
  PROVE  WorkersInv'
BY DEF WorkersInv, Works, PlannedTerms, validate_online_cli_requirements, restrict

\* execute_ready_graph stages a launch: it waits for the request made for it.
LEMMA StageStep ==
  ASSUME AuthorityInv, NEW r \in RunId, NEW q \in RequestId, Stage(r, q)
  PROVE  AuthorityInv'
<1> DEFINE action == approval_action(NewPlan, r)
<1>1. /\ requests[q] = None /\ Begin(r, "AwaitingApproval")
      /\ NewPlan.binding.identity.account # None
      /\ NewPlan.binding.identity.account.credential # None
      /\ validate_online_cli_requirements(NewPlan)
      /\ validate_action(action, catalog.roles[NodeRole].policy)
      /\ validate_against(action, catalog')
      /\ requests' = [requests EXCEPT ![q] = NewRequest(action)]
      /\ staged' = [staged EXCEPT ![r] = [request |-> q, state |-> "awaiting_approval"]]
      /\ worker' = worker
  BY DEF Stage
<1>2. /\ Catalogs' /\ plans' \in [RunId -> Maybe(Plan)]
      /\ consent' = [x \in RunId \cup RequestId |-> consent'[x]]
      /\ plans'[r] = NewPlan /\ catalog.runs[r] = None /\ plans[r] = None
      /\ catalog'.runs[r] =
           [agent |-> NewPlan.binding.identity.agent, project |-> NodeProject,
            model |-> NewPlan.binding.identity.model,
            state |-> "AwaitingApproval", started |-> FALSE, finished |-> FALSE]
      /\ PlansInv' /\ UNCHANGED <<m3, grants, edits, used>>
  <2>1. ("AwaitingApproval" = "Starting") = FALSE
    OBVIOUS
  <2>2. "AwaitingApproval" \in {"Starting", "AwaitingApproval"}
    OBVIOUS
  <2>3. QED
    BY <1>1, <2>1, <2>2, Begun
<1>3. /\ NewPlan \in Plan /\ NewPlan # None /\ NewPlan.policy = capture(catalog)
      /\ NewPlan.binding.identity.project = NodeProject
  BY <1>1, Typed, NewPlanFacts DEF Begin
<1>4. NeedsCredential(NewPlan) /\ action \in Action
  BY <1>1, <1>3, AskedTyped DEF NeedsCredential
<1> HIDE DEF action
<1>5. NewRequest(action) \in Request /\ NewRequest(action).action = action
  BY <1>4 DEF NewRequest, Request, Maybe
<1>6. /\ requests' \in [RequestId -> Maybe(Request)] /\ requests'[q] = NewRequest(action)
      /\ \A x \in RequestId : requests[x] # None => requests'[x] = requests[x]
  BY <1>1, <1>5, Typed DEF Maybe
<1>7. /\ staged' \in [RunId -> Maybe(StagedRow)]
      /\ staged'[r].request = q
      /\ \A x \in RunId \ {r} : staged'[x] = staged[x]
  BY <1>1, Typed DEF StagedRow, Maybe
<1>8. TypeOK'
  BY <1>1, <1>2, <1>6, <1>7, Typed DEF TypeOK, Catalogs
<1>9. /\ GrantsInv' /\ worker[r] = None
      /\ \A x \in RunId \ {r} : staged'[x] # None => plans'[x] # None
      /\ \A x \in RunId \ {r} : Undispatched(x)' => Waits(x, staged[x].request)'
      /\ \A x \in RunId \ {r} : worker'[x] # None =>
              /\ plans'[x] # None /\ plans'[x].binding.identity.account = None
              /\ staged'[x] = None
              /\ worker'[x] = "starting" => catalog'.runs[x].started
              /\ worker'[x] = "launched" =>
                   used'[x] = PlannedTerms(plans'[x])
                   /\ validate_online_cli_requirements(plans'[x])
  BY <1>1, <1>6, <1>7, BegunKeeps
<1>10. WorkersInv'
  BY <1>1, <1>9, WorkersOf
<1>11. Waits(r, staged[r].request)'
  <2>1. validate_action(action, NewPlan.policy.role)
    BY <1>1, <1>3 DEF capture
  <2>2. restrict(NewPlan.policy.project, CredentialOnly)
    <3>1. catalog'.projects = catalog.projects
      <4>1. catalog \in IdentityCatalog
        BY Typed DEF Catalogs
      <4>2. PICK run \in Run : catalog' = [catalog EXCEPT !.runs[r] = run]
        <5>1. catalog' = [catalog EXCEPT !.runs[r] = catalog'.runs[r]]
          BY <1>1, <1>2 DEF Begin, NewRun
        <5>2. catalog'.runs[r] \in Run
          <6>1. /\ NewPlan.binding.identity.agent \in AgentId
                /\ NewPlan.binding.identity.model \in ModelId
            BY <1>3 DEF Plan, Binding
          <6>2. QED
            BY <1>2, <6>1, LaunchAuthorityAssumption DEF Run, RunState
        <5>3. QED
          BY <5>1, <5>2
      <4>3. run \in Maybe(Run)
        BY DEF Maybe
      <4>4. QED
        BY <4>1, <4>2, <4>3, RunReplaced
    <3>2. action.project = NodeProject /\ action.policy = CredentialOnly
      BY <1>3, AskedFacts DEF action
    <3>3. restrict(catalog'.projects[NodeProject].policy, CredentialOnly)
      BY <1>1, <3>2 DEF validate_against
    <3>4. QED
      BY <1>3, <3>1, <3>3 DEF capture
  <2>3. /\ plans'[r] # None /\ requests'[q] # None /\ NeedsCredential(plans'[r])
        /\ requests'[q].action = approval_action(plans'[r], r)
        /\ validate_online_cli_requirements(plans'[r])
        /\ validate_action(requests'[q].action, plans'[r].policy.role)
        /\ restrict(plans'[r].policy.project, CredentialOnly)
    BY <1>1, <1>2, <1>3, <1>4, <1>5, <1>6, <2>1, <2>2, NoneIsNoRow DEF action
  <2>4. /\ catalog'.runs[r] =
             [agent |-> plans'[r].binding.identity.agent, project |-> NodeProject,
              model |-> plans'[r].binding.identity.model,
              state |-> "AwaitingApproval", started |-> FALSE, finished |-> FALSE]
        /\ staged'[r].request = q
    BY <1>2, <1>7
  <2>5. QED
    BY <2>3, <2>4 DEF Waits, NeedsCredential, approval_action,
                      validate_online_cli_requirements, validate_action, restrict
<1>12. StagedInv'
  BY <1>2, <1>3, <1>9, <1>11 DEF StagedInv
<1>13. used' = [x \in RunId \cup RequestId |-> used'[x]]
  BY <1>2 DEF AuthorityInv
<1>14. QED
  BY <1>2, <1>8, <1>9, <1>10, <1>12, <1>13 DEF AuthorityInv

\* An attempt that is not staged starts at once, with a worker if the node's agent
\* has no account.
LEMMA BeginStep ==
  ASSUME AuthorityInv, NEW r \in RunId, BeginDirect(r) \/ BeginManual(r)
  PROVE  AuthorityInv'
<1>1. /\ Begin(r, "Starting") /\ staged' = staged /\ requests' = requests
      /\ \/ worker' = worker
         \/ /\ NewPlan.binding.identity.account = None
            /\ worker' = [worker EXCEPT ![r] = "starting"]
  BY DEF BeginDirect, BeginManual
<1>2. "Starting" \in {"Starting", "AwaitingApproval"}
  OBVIOUS
<1>3. /\ Catalogs' /\ plans' \in [RunId -> Maybe(Plan)]
      /\ consent' = [x \in RunId \cup RequestId |-> consent'[x]]
      /\ plans'[r] = NewPlan /\ plans[r] = None
      /\ catalog'.runs[r].started
      /\ PlansInv' /\ UNCHANGED <<m3, grants, edits, used>>
  <2>1. /\ Catalogs' /\ plans' \in [RunId -> Maybe(Plan)]
        /\ consent' = [x \in RunId \cup RequestId |-> consent'[x]]
        /\ plans'[r] = NewPlan /\ plans[r] = None
        /\ catalog'.runs[r] =
             [agent |-> NewPlan.binding.identity.agent, project |-> NodeProject,
              model |-> NewPlan.binding.identity.model,
              state |-> "Starting", started |-> TRUE, finished |-> FALSE]
        /\ PlansInv' /\ UNCHANGED <<m3, grants, edits, used>>
    <3>1. ("Starting" = "Starting") = TRUE
      OBVIOUS
    <3>2. QED
      BY <1>1, <1>2, <3>1, Begun
  <2>2. catalog'.runs[r].started
    BY <2>1
  <2>3. QED
    BY <2>1, <2>2
<1>4. NewPlan # None
  BY <1>1, Typed, NewPlanFacts DEF Begin
<1>5. /\ worker' \in [RunId -> Maybe({"starting", "launched", "refused"})]
      /\ \A x \in RunId \ {r} : worker'[x] = worker[x]
  BY <1>1, Typed DEF Maybe
<1>6. TypeOK'
  BY <1>1, <1>3, <1>5, Typed DEF TypeOK, Catalogs
<1>7. /\ GrantsInv' /\ worker[r] = None /\ staged[r] = None
      /\ \A x \in RunId \ {r} : staged'[x] # None => plans'[x] # None
      /\ \A x \in RunId \ {r} : Undispatched(x)' => Waits(x, staged[x].request)'
      /\ \A x \in RunId \ {r} : worker'[x] # None =>
              /\ plans'[x] # None /\ plans'[x].binding.identity.account = None
              /\ staged'[x] = None
              /\ worker'[x] = "starting" => catalog'.runs[x].started
              /\ worker'[x] = "launched" =>
                   used'[x] = PlannedTerms(plans'[x])
                   /\ validate_online_cli_requirements(plans'[x])
  BY <1>1, <1>2, <1>5, BegunKeeps
<1>8. worker'[r] # None =>
              /\ plans'[r] # None /\ plans'[r].binding.identity.account = None
              /\ staged'[r] = None
              /\ worker'[r] = "starting" /\ catalog'.runs[r].started
  BY <1>1, <1>3, <1>4, <1>7, Typed
<1>9. WorkersInv'
  BY <1>7, <1>8, WorkersOf
<1>10. StagedInv'
  BY <1>1, <1>7 DEF StagedInv, Undispatched
<1>11. used' = [x \in RunId \cup RequestId |-> used'[x]]
  BY <1>3 DEF AuthorityInv
<1>12. QED
  BY <1>3, <1>6, <1>7, <1>9, <1>10, <1>11 DEF AuthorityInv

-----------------------------------------------------------------------------
(* Decisions, and what is done with them.                                  *)

\* What a step leaves alone, if it begins no attempt and takes nothing away: every
\* plan, every decided request and every run there is.
Kept ==
    /\ plans' = plans
    /\ \A r \in RunId : catalog.runs[r] # None => catalog'.runs[r] # None
    /\ \A r \in RunId : consent'[r] = consent[r]
    /\ \A q \in RequestId : requests[q] # None =>
         /\ requests'[q] # None /\ requests'[q].action = requests[q].action
         /\ requests[q].decision # None => requests'[q].decision # None

\* The plans are kept.
LEMMA PlansKept ==
  ASSUME AuthorityInv, Kept
  PROVE  PlansInv'
<1>1. ASSUME NEW x \in RunId, plans[x] # None
      PROVE  /\ catalog'.runs[x] # None
             /\ consent'[x] = [terms |-> PlannedTerms(plans[x]),
                               credential |-> PlannedCredential(plans[x])]
             /\ plans[x].binding.identity.project = NodeProject
             /\ restrict(plans[x].policy.project, plans[x].policy.role)
  BY <1>1, Typed DEF PlansInv, Kept
<1>2. plans' = plans
  BY DEF Kept
<1>3. ASSUME NEW x \in RunId
      PROVE  /\ PlannedTerms(plans[x])' = PlannedTerms(plans[x])
             /\ PlannedCredential(plans[x])' = PlannedCredential(plans[x])
  BY <1>2 DEF PlannedTerms, PlannedCredential, NeedsCredential
<1>4. ASSUME NEW x \in RunId, restrict(plans[x].policy.project, plans[x].policy.role)
      PROVE  restrict(plans[x].policy.project, plans[x].policy.role)'
  BY <1>2, <1>4 DEF restrict
<1>5. QED
  BY <1>1, <1>2, <1>3, <1>4 DEF PlansInv

\* So is a grant, if what was agreed to is not noted anew.
LEMMA GrantKept ==
  ASSUME AuthorityInv, Kept, NEW q \in RequestId, grants[q] # None,
         consent'[q] = consent[q], grants'[q] = "spent" => used'[q] = consent[q]
  PROVE  Granted(q)'
<1> DEFINE action == requests[q].action
           plan == plans[action.run]
<1>1. /\ requests[q] # None /\ requests[q].decision # None
      /\ catalog.runs[action.run] # None
      /\ consent[q] = Agreed(action, plan)
      /\ plan # None => ActionCredential(action) = PlannedCredential(plan)
  BY Typed DEF GrantsInv, Granted
<1>2. action.run \in RunId
  <2>1. requests[q] \in Request
    BY <1>1, Typed DEF Maybe
  <2>2. QED
    BY <2>1 DEF Request, Action
<1>3. /\ requests'[q] # None /\ requests'[q].decision # None
      /\ requests'[q].action = action /\ plans' = plans
      /\ catalog'.runs[action.run] # None
  BY <1>1, <1>2 DEF Kept
<1> HIDE DEF action
<1>4. /\ Agreed(requests[q].action, plans[requests[q].action.run])' = Agreed(action, plan)
      /\ ActionCredential(requests[q].action)' = ActionCredential(action)
      /\ PlannedCredential(plans[requests[q].action.run])' = PlannedCredential(plan)
  BY <1>3 DEF Agreed, ActionCredential, PlannedTerms, PlannedCredential, NeedsCredential
<1>5. plans'[requests'[q].action.run] = plan
  BY <1>3
<1> HIDE DEF plan
<1>6. QED
  BY <1>1, <1>3, <1>4, <1>5 DEF Granted

\* So is a launch that goes on waiting, if nothing happens to its run.
LEMMA WaitKept ==
  ASSUME AuthorityInv, Kept, NEW r \in RunId, Undispatched(r),
         staged'[r].request = staged[r].request, catalog'.runs[r] = catalog.runs[r]
  PROVE  Waits(r, staged[r].request)'
<1> DEFINE q == staged[r].request
<1>1. Waits(r, q)
  BY Typed DEF StagedInv
<1>2. q \in RequestId
  BY Typed DEF Undispatched, StagedRow, Maybe
<1>3. /\ requests'[q] # None /\ requests'[q].action = requests[q].action /\ plans' = plans
  BY <1>1, <1>2 DEF Waits, Kept
<1> HIDE DEF q
<1>4. staged'[r].request = q
  BY DEF q
<1>5. QED
  BY <1>1, <1>3, <1>4 DEF Waits, NeedsCredential, approval_action,
                      validate_online_cli_requirements, validate_action, restrict

\* So is a worker, if its run is.
LEMMA WorkerKept ==
  ASSUME AuthorityInv, Kept, NEW r \in RunId, worker[r] # None, worker'[r] = worker[r],
         staged'[r] = staged[r], used'[r] = used[r], catalog'.runs[r] = catalog.runs[r]
  PROVE  Works(r)'
BY Typed DEF WorkersInv, Works, Kept, PlannedTerms, validate_online_cli_requirements, restrict

\* A request for a waiting launch is for its run.
LEMMA WaitingRun ==
  ASSUME AuthorityInv, NEW r \in RunId, Undispatched(r)
  PROVE  /\ staged[r].request \in RequestId /\ requests[staged[r].request] \in Request
         /\ requests[staged[r].request].action.run = r
         /\ worker[r] = None /\ catalog.runs[r] # None
         /\ ~catalog.runs[r].finished
<1>1. Waits(r, staged[r].request) /\ staged[r] # None
  BY Typed DEF StagedInv, Undispatched
<1>2. staged[r].request \in RequestId
  BY Typed DEF Undispatched, StagedRow, Maybe
<1>3. requests[staged[r].request] \in Request
  BY <1>1, <1>2, Typed DEF Waits, Maybe
<1>4. requests[staged[r].request].action.run = r /\ ~catalog.runs[r].finished
  BY <1>1, AskedFacts DEF Waits
<1>5. worker[r] = None
  BY <1>1, Typed DEF WorkersInv, Works
<1>6. catalog.runs[r] # None
  BY <1>1, Typed DEF Waits, PlansInv
<1>7. QED
  BY <1>2, <1>3, <1>4, <1>5, <1>6

\* What a client asks for is an action.
LEMMA ClientAction ==
  ASSUME Catalogs, NEW r \in RunId, NEW action \in ClientActions(r)
  PROVE  action \in Action
<1>1. PICK cat \in {catalog, SeedCatalog} :
         action \in [agent : AgentId, role : RoleId, project : ProjectId, run : {r},
                     binding : {BindingOf(cat, g) : g \in {h \in AgentId : HasCredential(cat, h)}},
                     policy : {CredentialOnly, OnlineCli}]
  BY DEF ClientActions
<1>2. cat \in IdentityCatalog /\ validate(cat)
  BY SeedsAreValid DEF Catalogs
<1>3. PICK g \in AgentId : HasCredential(cat, g) /\ action.binding = BindingOf(cat, g)
  <2>1. action.binding \in {BindingOf(cat, g) : g \in {h \in AgentId : HasCredential(cat, h)}}
    BY <1>1
  <2>2. QED
    BY <2>1
<1> DEFINE agent == cat.agents[g]
           a == agent.account
           c == cat.accounts[a].reference
<1>4. g \in Known(cat.agents) /\ a # None /\ c # None
  BY <1>3 DEF HasCredential
<1>5. /\ agent \in AgentInstance /\ a \in Known(cat.accounts)
      /\ cat.providers[agent.provider] \in AgentProvider
  BY <1>2, <1>4, AgentRow
<1>6. /\ a \in AccountId /\ cat.accounts[a] \in Account /\ c \in RefId
      /\ cat.references[c] \in Reference
  <2> HIDE DEF a
  <2>1. QED
    BY <1>2, <1>4, <1>5, AccountRow
<1>7. BindingOf(cat, g) =
        [provider |-> agent.provider, adapter_kind |-> cat.providers[agent.provider].adapter_kind,
         account |-> a, identity |-> cat.accounts[a].identity, reference |-> c,
         locator |-> cat.references[c].locator]
  BY DEF BindingOf
<1> HIDE DEF agent, a, c
<1>8. BindingOf(cat, g) \in [provider : ProviderId, adapter_kind : Text, account : AccountId,
                             identity : Text, reference : RefId, locator : Text]
  BY <1>5, <1>6, <1>7 DEF AgentInstance, AgentProvider, Account, Reference
<1>9. QED
  BY <1>1, <1>3, <1>8 DEF Action

\* create_approval
LEMMA CreateApprovalStep ==
  ASSUME AuthorityInv, NEW r \in RunId, NEW q \in RequestId, NEW action \in ClientActions(r),
         CreateApproval(q, action)
  PROVE  AuthorityInv'
<1>1. /\ requests[q] = None
      /\ requests' = [requests EXCEPT ![q] = NewRequest(action)]
      /\ UNCHANGED <<catalog, m3, plans, staged, grants, worker, edits, consent, used>>
  BY DEF CreateApproval, history
<1>2. NewRequest(action) \in Request
  BY Typed, ClientAction DEF NewRequest, Request, Maybe
<1>3. /\ requests' \in [RequestId -> Maybe(Request)]
      /\ \A x \in RequestId : requests[x] # None => requests'[x] = requests[x]
  BY <1>1, <1>2, Typed DEF Maybe
<1>4. TypeOK'
  BY <1>1, <1>3, Typed DEF TypeOK, Catalogs
<1>5. Kept
  BY <1>1, <1>3 DEF Kept
<1>6. ASSUME NEW x \in RequestId, grants'[x] # None PROVE Granted(x)'
  BY <1>1, <1>5, <1>6, GrantKept, Typed DEF GrantsInv, Granted
<1>7. ASSUME NEW x \in RunId, worker'[x] # None PROVE Works(x)'
  BY <1>1, <1>5, <1>7, WorkerKept
<1>8. ASSUME NEW x \in RunId
      PROVE  /\ staged'[x] # None => plans'[x] # None
             /\ Undispatched(x)' => Waits(x, staged[x].request)'
  BY <1>1, <1>5, WaitKept, Typed DEF Undispatched, StagedInv
<1>9. GrantsInv' /\ WorkersInv' /\ StagedInv'
  BY <1>6, <1>7, <1>8 DEF GrantsInv, WorkersInv, StagedInv
<1>10. QED
  BY <1>1, <1>4, <1>5, <1>9, PlansKept DEF AuthorityInv

\* decide_approval with Approve: what is noted is what the request's action says.
LEMMA ApproveStep ==
  ASSUME AuthorityInv, NEW q \in RequestId, Approve(q)
  PROVE  AuthorityInv'
<1> DEFINE action == requests[q].action
           r == action.run
<1>1. /\ requests[q] # None /\ requests[q].decision = None
      /\ validate_current_catalog(q, action)
      /\ \/ staged' = staged
         \/ /\ staged[r] # None /\ staged[r].request = q
            /\ staged[r].state = "awaiting_approval"
            /\ staged' = [staged EXCEPT ![r].state = "ready"]
      /\ consent' = [consent EXCEPT ![q] = Authority(action)]
      /\ requests' = [requests EXCEPT ![q].decision = "Approve"]
      /\ grants' = [grants EXCEPT ![q] = "issued"]
      /\ UNCHANGED <<catalog, m3, plans, worker, edits, used>>
  BY DEF Approve, IsStagedRequest
<1>2. requests[q] \in Request /\ action \in Action /\ r \in RunId
  <2>1. requests[q] \in Request
    BY <1>1, Typed DEF Maybe
  <2>2. QED
    BY <2>1 DEF Request, Action
<1>3. /\ Authority(action) = Agreed(action, plans[r]) /\ catalog.runs[r] # None
      /\ plans[r] # None => ActionCredential(action) = PlannedCredential(plans[r])
  BY <1>1, <1>2, Typed, AuthorityAgreed
<1> HIDE DEF r
<1>4. /\ requests'[q] \in Request /\ requests'[q].action = action
      /\ requests'[q].decision = "Approve"
      /\ \A x \in RequestId \ {q} : requests'[x] = requests[x]
      /\ requests' \in [RequestId -> Maybe(Request)]
  <2>1. /\ requests'[q] = [requests[q] EXCEPT !.decision = "Approve"]
        /\ \A x \in RequestId \ {q} : requests'[x] = requests[x]
    BY <1>1, Typed
  <2>2. /\ requests'[q] \in Request /\ requests'[q].action = action
        /\ requests'[q].decision = "Approve"
    BY <1>2, <2>1 DEF Request, Maybe
  <2>3. requests' \in [RequestId -> Maybe(Request)]
    BY <1>1, <2>1, <2>2, Typed DEF Maybe
  <2>4. QED
    BY <2>1, <2>2, <2>3
<1>5. requests'[q] # None /\ requests'[q].decision # None
  BY <1>4, NoneIsNoRow
<1>6. /\ grants' \in [RequestId -> Maybe({"issued", "spent", "revoked"})]
      /\ grants'[q] = "issued" /\ \A x \in RequestId \ {q} : grants'[x] = grants[x]
  BY <1>1, Typed DEF Maybe
<1>7. /\ staged' \in [RunId -> Maybe(StagedRow)]
      /\ \A x \in RunId : Undispatched(x)' =>
           Undispatched(x) /\ staged'[x].request = staged[x].request
      /\ \A x \in RunId : staged'[x] # None => staged[x] # None
      /\ \A x \in RunId : staged[x] = None => staged'[x] = None
  <2>1. CASE staged' = staged
    BY <2>1, Typed DEF Undispatched
  <2>2. CASE /\ staged[r] # None /\ staged[r].state = "awaiting_approval"
             /\ staged' = [staged EXCEPT ![r].state = "ready"]
    <3>1. staged[r] \in StagedRow
      BY <1>2, <2>2, Typed DEF Maybe
    <3>2. /\ staged'[r] = [staged[r] EXCEPT !.state = "ready"]
          /\ \A x \in RunId \ {r} : staged'[x] = staged[x]
      BY <1>2, <2>2, Typed
    <3>3. staged'[r] \in StagedRow /\ staged'[r].request = staged[r].request
      BY <3>1, <3>2 DEF StagedRow
    <3>4. staged' \in [RunId -> Maybe(StagedRow)]
      BY <1>2, <2>2, <3>2, <3>3, Typed DEF Maybe
    <3>5. QED
      BY <2>2, <3>2, <3>3, <3>4 DEF Undispatched
  <2>3. QED
    BY <1>1, <2>1, <2>2
<1>8. TypeOK'
  BY <1>1, <1>4, <1>6, <1>7, Typed DEF TypeOK, Catalogs
<1>9. /\ consent' = [x \in RunId \cup RequestId |-> consent'[x]]
      /\ used' = [x \in RunId \cup RequestId |-> used'[x]]
      /\ consent'[q] = Agreed(action, plans[r])
      /\ \A x \in (RunId \cup RequestId) \ {q} : consent'[x] = consent[x]
  BY <1>1, <1>3 DEF AuthorityInv
<1>10. \A x \in RunId : x # q
  BY LaunchAuthorityAssumption
<1>11. Kept
  <2>1. \A x \in RunId : consent'[x] = consent[x]
    BY <1>9, <1>10
  <2>2. QED
    BY <1>1, <1>4, <1>5, <2>1 DEF Kept
<1>12. Granted(q)'
  <2>1. /\ requests'[q].action = action /\ plans' = plans /\ catalog' = catalog
        /\ catalog.runs[action.run] # None
        /\ consent'[q] = Agreed(action, plans[action.run])
        /\ plans[action.run] # None =>
             ActionCredential(action) = PlannedCredential(plans[action.run])
        /\ grants'[q] # "spent"
    BY <1>1, <1>3, <1>4, <1>6, <1>9 DEF r
  <2> HIDE DEF action
  <2>2. QED
    BY <1>5, <2>1 DEF Granted, Agreed, ActionCredential, PlannedTerms, PlannedCredential,
                      NeedsCredential
<1>13. ASSUME NEW x \in RequestId, grants'[x] # None PROVE Granted(x)'
  <2>1. CASE x = q
    BY <1>12, <2>1
  <2>2. CASE x # q
    BY <1>1, <1>6, <1>9, <1>11, <1>13, <2>2, GrantKept, Typed DEF GrantsInv, Granted
  <2>3. QED
    BY <2>1, <2>2
<1>14. ASSUME NEW x \in RunId, worker'[x] # None PROVE Works(x)'
  <2>1. staged[x] = None /\ worker[x] # None
    BY <1>1, <1>14, Typed DEF WorkersInv, Works
  <2>2. QED
    BY <1>1, <1>7, <1>11, <1>14, <2>1, WorkerKept
<1>15. ASSUME NEW x \in RunId
       PROVE  /\ staged'[x] # None => plans'[x] # None
              /\ Undispatched(x)' => Waits(x, staged[x].request)'
  BY <1>1, <1>7, <1>11, WaitKept, Typed DEF StagedInv
<1>16. GrantsInv' /\ WorkersInv' /\ StagedInv'
  BY <1>13, <1>14, <1>15 DEF GrantsInv, WorkersInv, StagedInv
<1>17. QED
  BY <1>8, <1>9, <1>11, <1>16, PlansKept DEF AuthorityInv

\* cancel_for_request ends a launch that waits, and nothing else.
LEMMA Cancelled ==
  ASSUME AuthorityInv, NEW q \in RequestId, requests[q] # None, cancel_for_request(q),
         m3' = m3
  PROVE  /\ Catalogs' /\ staged' \in [RunId -> Maybe(StagedRow)]
         /\ \A x \in RunId : catalog.runs[x] # None => catalog'.runs[x] # None
         /\ \A x \in RunId : staged'[x] # None => staged[x] # None
         /\ \A x \in RunId : Undispatched(x)' =>
              /\ Undispatched(x) /\ staged'[x].request = staged[x].request
              /\ catalog'.runs[x] = catalog.runs[x]
         /\ \A x \in RunId : worker[x] # None =>
              staged'[x] = staged[x] /\ catalog'.runs[x] = catalog.runs[x]
<1>1. PICK r \in RunId : r = requests[q].action.run
  <2>1. requests[q] \in Request
    BY Typed DEF Maybe
  <2>2. QED
    BY <2>1 DEF Request, Action
<1>2. CASE staged' = staged /\ catalog' = catalog
  BY <1>2, Typed DEF Catalogs, Undispatched
<1>3. CASE /\ Undispatched(r) /\ staged' = [staged EXCEPT ![r].state = "cancelled"]
           /\ catalog' = [catalog EXCEPT !.runs[r].state = "Cancelled",
                                         !.runs[r].finished = TRUE]
  <2>1. worker[r] = None /\ catalog.runs[r] # None
    BY <1>1, <1>3, WaitingRun
  <2>2. /\ Catalogs' /\ catalog'.runs[r] # None
        /\ \A x \in RunId \ {r} : catalog'.runs[x] = catalog.runs[x]
    <3>1. "Cancelled" \in {"Cancelled", "Blocked"} /\ "Cancelled" # "Blocked"
      OBVIOUS
    <3>2. QED
      BY <1>1, <1>3, <2>1, <3>1, Typed, RunEnded
  <2>3. staged[r] \in StagedRow
    BY <1>1, <1>3, Typed DEF Undispatched, Maybe
  <2>4. /\ staged'[r] = [staged[r] EXCEPT !.state = "cancelled"]
        /\ \A x \in RunId \ {r} : staged'[x] = staged[x]
    BY <1>1, <1>3, Typed
  <2>5. staged'[r] \in StagedRow /\ staged'[r].state = "cancelled"
    BY <2>3, <2>4 DEF StagedRow
  <2>6. staged' \in [RunId -> Maybe(StagedRow)]
    BY <1>1, <1>3, <2>4, <2>5, Typed DEF Maybe
  <2>7. ~Undispatched(r)'
    BY <2>5 DEF Undispatched
  <2>8. staged[r] # None
    BY <1>3 DEF Undispatched
  <2>9. QED
    BY <2>1, <2>2, <2>4, <2>6, <2>7, <2>8 DEF Undispatched
<1>4. QED
  BY <1>1, <1>2, <1>3 DEF cancel_for_request

\* A denied request, and a grant or a launch that is withdrawn.
LEMMA RefusalStep ==
  ASSUME AuthorityInv, NEW q \in RequestId, DenyRequest(q) \/ Withdraw(q)
  PROVE  AuthorityInv'
<1>1. /\ requests[q] # None /\ cancel_for_request(q)
      /\ \/ requests' = requests
         \/ requests' = [requests EXCEPT ![q].decision = "Deny"]
      /\ \/ grants' = grants
         \/ grants' = [grants EXCEPT ![q] = IF @ = "issued" THEN "revoked" ELSE @]
      /\ UNCHANGED <<m3, plans, worker, edits, consent, used>>
  BY DEF DenyRequest, Withdraw, history
<1>2. /\ Catalogs' /\ staged' \in [RunId -> Maybe(StagedRow)]
      /\ \A x \in RunId : catalog.runs[x] # None => catalog'.runs[x] # None
      /\ \A x \in RunId : staged'[x] # None => staged[x] # None
      /\ \A x \in RunId : Undispatched(x)' =>
           /\ Undispatched(x) /\ staged'[x].request = staged[x].request
           /\ catalog'.runs[x] = catalog.runs[x]
      /\ \A x \in RunId : worker[x] # None =>
           staged'[x] = staged[x] /\ catalog'.runs[x] = catalog.runs[x]
  BY <1>1, Cancelled
<1>3. /\ requests' \in [RequestId -> Maybe(Request)]
      /\ \A x \in RequestId : requests[x] # None =>
           /\ requests'[x] # None /\ requests'[x].action = requests[x].action
           /\ requests[x].decision # None => requests'[x].decision # None
  <2>1. CASE requests' = requests
    BY <2>1, Typed
  <2>2. CASE requests' = [requests EXCEPT ![q].decision = "Deny"]
    <3>1. requests[q] \in Request
      BY <1>1, Typed DEF Maybe
    <3>2. /\ requests'[q] = [requests[q] EXCEPT !.decision = "Deny"]
          /\ \A x \in RequestId \ {q} : requests'[x] = requests[x]
      BY <2>2, Typed
    <3>3. /\ requests'[q] \in Request /\ requests'[q].action = requests[q].action
          /\ requests'[q].decision = "Deny"
      BY <3>1, <3>2 DEF Request, Maybe
    <3>4. requests'[q] # None /\ requests'[q].decision # None
      BY <3>3, NoneIsNoRow
    <3>5. requests' \in [RequestId -> Maybe(Request)]
      BY <2>2, <3>2, <3>3, Typed DEF Maybe
    <3>6. QED
      BY <3>2, <3>3, <3>4, <3>5
  <2>3. QED
    BY <1>1, <2>1, <2>2
<1>4. /\ grants' \in [RequestId -> Maybe({"issued", "spent", "revoked"})]
      /\ \A x \in RequestId : grants'[x] # None => grants[x] # None
      /\ \A x \in RequestId : grants'[x] = "spent" => grants[x] = "spent"
  <2>1. CASE grants' = grants
    BY <2>1, Typed
  <2>2. CASE grants' = [grants EXCEPT ![q] = IF @ = "issued" THEN "revoked" ELSE @]
    BY <2>2, Typed, NoneIsNoRow DEF Maybe
  <2>3. QED
    BY <1>1, <2>1, <2>2
<1>5. TypeOK'
  BY <1>1, <1>2, <1>3, <1>4, Typed DEF TypeOK, Catalogs
<1>6. Kept
  BY <1>1, <1>2, <1>3 DEF Kept
<1>7. ASSUME NEW x \in RequestId, grants'[x] # None PROVE Granted(x)'
  <2>1. grants[x] # None /\ (grants'[x] = "spent" => used'[x] = consent[x])
    BY <1>1, <1>4, <1>7, Typed DEF GrantsInv, Granted
  <2>2. QED
    BY <1>1, <1>6, <2>1, GrantKept
<1>8. ASSUME NEW x \in RunId, worker'[x] # None PROVE Works(x)'
  BY <1>1, <1>2, <1>6, <1>8, WorkerKept
<1>9. ASSUME NEW x \in RunId
      PROVE  /\ staged'[x] # None => plans'[x] # None
             /\ Undispatched(x)' => Waits(x, staged[x].request)'
  BY <1>1, <1>2, <1>6, WaitKept, Typed DEF StagedInv
<1>10. GrantsInv' /\ WorkersInv' /\ StagedInv'
  BY <1>7, <1>8, <1>9 DEF GrantsInv, WorkersInv, StagedInv
<1>11. /\ consent' = [x \in RunId \cup RequestId |-> consent'[x]]
       /\ used' = [x \in RunId \cup RequestId |-> used'[x]]
  BY <1>1 DEF AuthorityInv
<1>12. QED
  BY <1>5, <1>6, <1>10, <1>11, PlansKept DEF AuthorityInv

\* A grant is spent on what was agreed to.
LEMMA Spent ==
  ASSUME AuthorityInv, NEW q \in RequestId, Spend(q)
  PROVE  /\ grants' \in [RequestId -> Maybe({"issued", "spent", "revoked"})]
         /\ \A x \in RequestId : grants'[x] # None => grants[x] # None
         /\ \A x \in RequestId : grants'[x] = "spent" => used'[x] = consent[x]
         /\ \A x \in RunId : used'[x] = used[x]
         /\ used' = [x \in RunId \cup RequestId |-> used'[x]]
         /\ UNCHANGED <<m3, plans, requests, worker, edits, consent>>
<1> DEFINE action == requests[q].action
<1>1. /\ grants[q] = "issued" /\ validate_current_catalog(q, action)
      /\ grants' = [grants EXCEPT ![q] = "spent"]
      /\ used' = [used EXCEPT ![q] = Authority(action)]
      /\ UNCHANGED <<m3, plans, requests, worker, edits, consent>>
  BY DEF Spend
<1>2. grants[q] # None
  BY <1>1, NoneIsNoRow
<1>3. requests[q] # None /\ consent[q] = Agreed(action, plans[action.run])
  BY <1>2, Typed DEF GrantsInv, Granted
<1>4. action \in Action
  <2>1. requests[q] \in Request
    BY <1>3, Typed DEF Maybe
  <2>2. QED
    BY <2>1 DEF Request
<1>5. Authority(action) = consent[q]
  <2> HIDE DEF action
  <2>1. QED
    BY <1>1, <1>3, <1>4, Typed, AuthorityAgreed
<1> HIDE DEF action
<1>6. /\ used' = [x \in RunId \cup RequestId |-> used'[x]]
      /\ used'[q] = consent[q]
      /\ \A x \in (RunId \cup RequestId) \ {q} : used'[x] = used[x]
  BY <1>1, <1>5 DEF AuthorityInv
<1>7. /\ grants' \in [RequestId -> Maybe({"issued", "spent", "revoked"})]
      /\ grants'[q] = "spent" /\ \A x \in RequestId \ {q} : grants'[x] = grants[x]
  BY <1>1, Typed DEF Maybe
<1>8. \A x \in RunId : used'[x] = used[x]
  BY <1>6, LaunchAuthorityAssumption
<1>9. ASSUME NEW x \in RequestId, grants'[x] = "spent" PROVE used'[x] = consent[x]
  <2>1. CASE x = q
    BY <1>6, <2>1
  <2>2. CASE x # q
    <3>1. grants[x] = "spent" /\ used'[x] = used[x]
      BY <1>6, <1>7, <1>9, <2>2
    <3>2. grants[x] # None
      BY <3>1, NoneIsNoRow
    <3>3. QED
      BY <3>1, <3>2, Typed DEF GrantsInv, Granted
  <2>3. QED
    BY <2>1, <2>2
<1>10. QED
  BY <1>1, <1>2, <1>6, <1>7, <1>8, <1>9

\* consume_credential_grant, and claim_staged_dispatch, which also starts the run.
LEMMA SpendStep ==
  ASSUME AuthorityInv,
         \/ \E q \in RequestId : ConsumeGrant(q)
         \/ \E r \in RunId : ClaimDispatch(r)
  PROVE  AuthorityInv'
<1>1. PICK q \in RequestId :
         /\ Spend(q)
         /\ \/ staged' = staged /\ catalog' = catalog
            \/ \E r \in RunId :
                 /\ staged[r] # None /\ staged[r].state = "ready"
                 /\ staged' = [staged EXCEPT ![r].state = "dispatching"]
                 /\ catalog' = [catalog EXCEPT !.runs[r].state = "Starting",
                                               !.runs[r].started = TRUE]
  <2>1. CASE \E q \in RequestId : ConsumeGrant(q)
    BY <2>1 DEF ConsumeGrant
  <2>2. CASE \E r \in RunId : ClaimDispatch(r)
    <3>1. PICK r \in RunId : ClaimDispatch(r)
      BY <2>2
    <3>2. Undispatched(r)
      BY <3>1 DEF ClaimDispatch, Undispatched
    <3>3. staged[r].request \in RequestId
      BY <3>2, WaitingRun
    <3>4. QED
      BY <3>1, <3>3 DEF ClaimDispatch
  <2>3. QED
    BY <2>1, <2>2
<1>2. /\ grants' \in [RequestId -> Maybe({"issued", "spent", "revoked"})]
      /\ \A x \in RequestId : grants'[x] # None => grants[x] # None
      /\ \A x \in RequestId : grants'[x] = "spent" => used'[x] = consent[x]
      /\ \A x \in RunId : used'[x] = used[x]
      /\ used' = [x \in RunId \cup RequestId |-> used'[x]]
      /\ UNCHANGED <<m3, plans, requests, worker, edits, consent>>
  BY <1>1, Spent
<1>3. /\ Catalogs' /\ staged' \in [RunId -> Maybe(StagedRow)]
      /\ \A x \in RunId : catalog.runs[x] # None => catalog'.runs[x] # None
      /\ \A x \in RunId : staged'[x] # None => staged[x] # None
      /\ \A x \in RunId : Undispatched(x)' =>
           /\ Undispatched(x) /\ staged'[x].request = staged[x].request
           /\ catalog'.runs[x] = catalog.runs[x]
      /\ \A x \in RunId : worker[x] # None =>
           staged'[x] = staged[x] /\ catalog'.runs[x] = catalog.runs[x]
  <2>1. CASE staged' = staged /\ catalog' = catalog
    BY <1>2, <2>1, Typed DEF Catalogs, Undispatched
  <2>2. CASE \E r \in RunId :
                 /\ staged[r] # None /\ staged[r].state = "ready"
                 /\ staged' = [staged EXCEPT ![r].state = "dispatching"]
                 /\ catalog' = [catalog EXCEPT !.runs[r].state = "Starting",
                                               !.runs[r].started = TRUE]
    <3>1. PICK r \in RunId :
                 /\ staged[r] # None /\ staged[r].state = "ready"
                 /\ staged' = [staged EXCEPT ![r].state = "dispatching"]
                 /\ catalog' = [catalog EXCEPT !.runs[r].state = "Starting",
                                               !.runs[r].started = TRUE]
      BY <2>2
    <3>2. Undispatched(r)
      BY <3>1 DEF Undispatched
    <3>3. worker[r] = None /\ catalog.runs[r] # None /\ ~catalog.runs[r].finished
      BY <3>2, WaitingRun
    <3>4. /\ Catalogs' /\ catalog'.runs[r] # None
          /\ \A x \in RunId \ {r} : catalog'.runs[x] = catalog.runs[x]
      BY <1>2, <3>1, <3>3, Typed, RunStarted
    <3>5. staged[r] \in StagedRow
      BY <3>1, Typed DEF Maybe
    <3>6. /\ staged'[r] = [staged[r] EXCEPT !.state = "dispatching"]
          /\ \A x \in RunId \ {r} : staged'[x] = staged[x]
      BY <3>1, Typed
    <3>7. staged'[r] \in StagedRow /\ staged'[r].state = "dispatching"
      BY <3>5, <3>6 DEF StagedRow
    <3>8. staged' \in [RunId -> Maybe(StagedRow)]
      BY <3>1, <3>6, <3>7, Typed DEF Maybe
    <3>9. ~Undispatched(r)'
      BY <3>7 DEF Undispatched
    <3>10. QED
      BY <3>1, <3>3, <3>4, <3>6, <3>8, <3>9 DEF Undispatched
  <2>3. QED
    BY <1>1, <2>1, <2>2
<1>4. TypeOK'
  BY <1>2, <1>3, Typed DEF TypeOK, Catalogs
<1>5. Kept
  BY <1>2, <1>3 DEF Kept
<1>6. ASSUME NEW x \in RequestId, grants'[x] # None PROVE Granted(x)'
  BY <1>2, <1>5, <1>6, GrantKept
<1>7. ASSUME NEW x \in RunId, worker'[x] # None PROVE Works(x)'
  BY <1>2, <1>3, <1>5, <1>7, WorkerKept
<1>8. ASSUME NEW x \in RunId
      PROVE  /\ staged'[x] # None => plans'[x] # None
             /\ Undispatched(x)' => Waits(x, staged[x].request)'
  BY <1>2, <1>3, <1>5, WaitKept, Typed DEF StagedInv
<1>9. GrantsInv' /\ WorkersInv' /\ StagedInv'
  BY <1>6, <1>7, <1>8 DEF GrantsInv, WorkersInv, StagedInv
<1>10. consent' = [x \in RunId \cup RequestId |-> consent'[x]]
  BY <1>2 DEF AuthorityInv
<1>11. QED
  BY <1>2, <1>4, <1>5, <1>9, <1>10, PlansKept DEF AuthorityInv

\* A worker starts its provider on what was planned, or ends its run.
LEMMA RunProviderStep ==
  ASSUME AuthorityInv, NEW r \in RunId, RunProvider(r)
  PROVE  AuthorityInv'
<1>1. /\ worker[r] = "starting"
      /\ \/ /\ preflight_provider_launch(r) /\ validate_online_cli_requirements(plans[r])
            /\ worker' = [worker EXCEPT ![r] = "launched"]
            /\ used' = [used EXCEPT ![r] = Terms] /\ catalog' = catalog
         \/ /\ worker' = [worker EXCEPT ![r] = "refused"] /\ used' = used
            /\ catalog' = [catalog EXCEPT !.runs[r].state = "Blocked",
                                          !.runs[r].finished = TRUE]
      /\ UNCHANGED <<m3, plans, staged, requests, grants, edits, consent>>
  BY DEF RunProvider, tables
<1>2. worker[r] # None
  BY <1>1, NoneIsNoRow
<1>3. /\ plans[r] # None /\ plans[r].binding.identity.account = None /\ staged[r] = None
      /\ catalog.runs[r].started /\ catalog.runs[r] # None
  BY <1>1, <1>2, Typed DEF WorkersInv, Works, PlansInv
<1>4. /\ worker' \in [RunId -> Maybe({"starting", "launched", "refused"})]
      /\ \A x \in RunId \ {r} : worker'[x] = worker[x]
      /\ \A x \in (RunId \cup RequestId) \ {r} : used'[x] = used[x]
      /\ used' = [x \in RunId \cup RequestId |-> used'[x]]
  BY <1>1, Typed DEF AuthorityInv, Maybe
<1>5. /\ Catalogs'
      /\ \A x \in RunId : catalog.runs[x] # None => catalog'.runs[x] # None
      /\ \A x \in RunId \ {r} : catalog'.runs[x] = catalog.runs[x]
  <2>1. CASE catalog' = catalog
    BY <1>1, <2>1, Typed DEF Catalogs
  <2>2. CASE catalog' = [catalog EXCEPT !.runs[r].state = "Blocked",
                                        !.runs[r].finished = TRUE]
    <3>1. "Blocked" \in {"Cancelled", "Blocked"}
      OBVIOUS
    <3>2. /\ Catalogs' /\ catalog'.runs[r] # None
          /\ \A x \in RunId \ {r} : catalog'.runs[x] = catalog.runs[x]
      BY <1>1, <1>3, <2>2, <3>1, Typed, RunEnded
    <3>3. QED
      BY <3>2
  <2>3. QED
    BY <1>1, <2>1, <2>2
<1>6. TypeOK'
  BY <1>1, <1>4, <1>5, Typed DEF TypeOK, Catalogs
<1>7. Kept
  BY <1>1, <1>5 DEF Kept
<1>8. \A x \in RequestId : x # r
  BY LaunchAuthorityAssumption
<1>9. ASSUME NEW x \in RequestId, grants'[x] # None PROVE Granted(x)'
  <2>1. used'[x] = used[x]
    BY <1>4, <1>8
  <2>2. grants'[x] = "spent" => used'[x] = consent[x]
    BY <1>1, <1>9, <2>1, Typed DEF GrantsInv, Granted
  <2>3. QED
    BY <1>1, <1>7, <1>9, <2>2, GrantKept
<1>10. Works(r)'
  <2>1. CASE /\ preflight_provider_launch(r) /\ validate_online_cli_requirements(plans[r])
             /\ worker' = [worker EXCEPT ![r] = "launched"]
             /\ used' = [used EXCEPT ![r] = Terms]
    <3>1. Terms = PlannedTerms(plans[r])
      BY <2>1, Typed, TermsPlanned DEF preflight_provider_launch
    <3>2. used'[r] = Terms /\ worker'[r] = "launched"
      BY <2>1, Typed DEF AuthorityInv
    <3>3. QED
      BY <1>1, <1>3, <2>1, <3>1, <3>2
         DEF Works, PlannedTerms, validate_online_cli_requirements, restrict
  <2>2. CASE worker' = [worker EXCEPT ![r] = "refused"]
    <3>1. worker'[r] = "refused"
      BY <2>2, Typed
    <3>2. QED
      BY <1>1, <1>3, <3>1 DEF Works
  <2>3. QED
    BY <1>1, <2>1, <2>2
<1>11. ASSUME NEW x \in RunId, worker'[x] # None PROVE Works(x)'
  <2>1. CASE x = r
    BY <1>10, <2>1
  <2>2. CASE x # r
    BY <1>1, <1>4, <1>5, <1>7, <1>11, <2>2, WorkerKept
  <2>3. QED
    BY <2>1, <2>2
<1>12. ASSUME NEW x \in RunId
       PROVE  /\ staged'[x] # None => plans'[x] # None
              /\ Undispatched(x)' => Waits(x, staged[x].request)'
  <2>1. staged'[x] # None => plans'[x] # None
    BY <1>1, Typed DEF StagedInv
  <2>2. ASSUME Undispatched(x)' PROVE Waits(x, staged[x].request)'
    <3>1. Undispatched(x) /\ staged'[x].request = staged[x].request
      BY <1>1, <2>2 DEF Undispatched
    <3>2. x # r
      BY <1>3, <3>1 DEF Undispatched
    <3>3. QED
      BY <1>5, <1>7, <3>1, <3>2, WaitKept
  <2>3. QED
    BY <2>1, <2>2
<1>13. GrantsInv' /\ WorkersInv' /\ StagedInv'
  BY <1>9, <1>11, <1>12 DEF GrantsInv, WorkersInv, StagedInv
<1>14. consent' = [x \in RunId \cup RequestId |-> consent'[x]]
  BY <1>1 DEF AuthorityInv
<1>15. QED
  BY <1>4, <1>6, <1>7, <1>13, <1>14, PlansKept DEF AuthorityInv

-----------------------------------------------------------------------------
(* The theorems.                                                           *)

\* The catalogs stay valid whoever edits them, and every plan, request, grant and
\* worker keeps to what was noted when it came to be (Store::replace_catalog,
\* begin_graph_node_run_inner, decide_approval, claim_staged_dispatch).
THEOREM AuthorityInvariant == Spec => []AuthorityInv
<1>1. Init => AuthorityInv
  BY AtFirst
<1>2. AuthorityInv /\ [Next]_vars => AuthorityInv'
  <2> SUFFICES ASSUME AuthorityInv, [Next]_vars PROVE AuthorityInv'
    OBVIOUS
  <2>1. ASSUME NEW new \in CatalogEdits, ReplaceCatalog(new) PROVE AuthorityInv'
    BY <2>1, ReplaceCatalogStep
  <2>2. ASSUME NEW new \in M3Edits, ReplaceM3Catalog(new) PROVE AuthorityInv'
    BY <2>2, ReplaceM3CatalogStep
  <2>3. ASSUME NEW r \in RunId, NEW q \in RequestId, Stage(r, q) PROVE AuthorityInv'
    BY <2>3, StageStep
  <2>4. ASSUME NEW r \in RunId, BeginDirect(r) \/ BeginManual(r) PROVE AuthorityInv'
    BY <2>4, BeginStep
  <2>5. ASSUME NEW r \in RunId, NEW q \in RequestId, NEW action \in ClientActions(r),
               CreateApproval(q, action)
        PROVE  AuthorityInv'
    BY <2>5, CreateApprovalStep
  <2>6. ASSUME NEW r \in RunId, ClaimDispatch(r) PROVE AuthorityInv'
    BY <2>6, SpendStep
  <2>7. ASSUME NEW r \in RunId, RunProvider(r) PROVE AuthorityInv'
    BY <2>7, RunProviderStep
  <2>8. ASSUME NEW q \in RequestId, Approve(q) PROVE AuthorityInv'
    BY <2>8, ApproveStep
  <2>9. ASSUME NEW q \in RequestId, DenyRequest(q) \/ Withdraw(q) PROVE AuthorityInv'
    BY <2>9, RefusalStep
  <2>10. ASSUME NEW q \in RequestId, ConsumeGrant(q) PROVE AuthorityInv'
    BY <2>10, SpendStep
  <2>11. CASE UNCHANGED vars
    <3>1. /\ UNCHANGED <<catalog, m3, edits>> /\ UNCHANGED <<tables, worker, history>>
      BY <2>11 DEF vars
    <3>2. Catalogs' /\ edits' \in 0..MaxEdits
      BY <3>1, Typed DEF Catalogs
    <3>3. QED
      BY <3>1, <3>2, EditKeeps
  <2>12. QED
    BY <2>1, <2>2, <2>3, <2>4, <2>5, <2>6, <2>7, <2>8, <2>9, <2>10, <2>11 DEF Next
<1>3. QED
  BY <1>1, <1>2, PTL DEF Spec

\* No edit of a catalog between an approval, or the begin of an attempt, and the
\* use that is made of it changes what is used.
THEOREM AuthorityUsedAsAgreed == Spec => []UsedAsAgreed
<1>1. AuthorityInv => UsedAsAgreed
  <2> SUFFICES ASSUME AuthorityInv PROVE UsedAsAgreed
    OBVIOUS
  <2>1. SpentAsConsented
    <3> SUFFICES ASSUME NEW q \in RequestId, grants[q] = "spent"
                 PROVE  LET r == requests[q].action.run
                        IN  /\ used[q] = consent[q] /\ used[q].permitted
                            /\ plans[r] # None =>
                                 /\ used[q].terms = consent[r].terms
                                 /\ used[q].credential = consent[r].credential
      BY DEF SpentAsConsented
    <3> DEFINE action == requests[q].action
               r == action.run
    <3>1. grants[q] # None
      BY NoneIsNoRow
    <3>2. /\ requests[q] # None /\ consent[q] = Agreed(action, plans[r])
          /\ plans[r] # None => ActionCredential(action) = PlannedCredential(plans[r])
          /\ used[q] = consent[q]
      BY <3>1, Typed DEF GrantsInv, Granted
    <3>3. r \in RunId
      <4>1. requests[q] \in Request
        BY <3>2, Typed DEF Maybe
      <4>2. QED
        BY <4>1 DEF Request, Action
    <3>4. plans[r] # None => consent[r] = [terms |-> PlannedTerms(plans[r]),
                                           credential |-> PlannedCredential(plans[r])]
      BY <3>3, Typed DEF PlansInv
    <3>5. /\ Agreed(action, plans[r]).permitted
          /\ Agreed(action, plans[r]).credential = ActionCredential(action)
          /\ plans[r] # None => Agreed(action, plans[r]).terms = PlannedTerms(plans[r])
      BY DEF Agreed
    <3> HIDE DEF action
    <3>6. QED
      BY <3>2, <3>4, <3>5 DEF action
  <2>2. LaunchedAsPlanned
    <3> SUFFICES ASSUME NEW r \in RunId, worker[r] = "launched"
                 PROVE  /\ used[r] = consent[r].terms /\ used[r].account = None
                        /\ \A f \in Field : OnlineCli.ceiling.level[f]
                                              <= used[r].role.policy.ceiling.level[f]
      BY DEF LaunchedAsPlanned
    <3>1. worker[r] # None
      BY NoneIsNoRow
    <3>2. /\ plans[r] # None /\ plans[r].binding.identity.account = None
          /\ used[r] = PlannedTerms(plans[r]) /\ validate_online_cli_requirements(plans[r])
      BY <3>1, Typed DEF WorkersInv, Works
    <3>3. consent[r].terms = PlannedTerms(plans[r])
      <4>1. consent[r] = [terms |-> PlannedTerms(plans[r]),
                          credential |-> PlannedCredential(plans[r])]
        BY <3>2, Typed DEF PlansInv
      <4>2. QED
        BY <4>1
    <3>4. /\ PlannedTerms(plans[r]).account = None
          /\ PlannedTerms(plans[r]).role.policy = plans[r].policy.role
      BY <3>2 DEF PlannedTerms
    <3>5. QED
      BY <3>2, <3>3, <3>4 DEF validate_online_cli_requirements, restrict
  <2>3. QED
    BY <2>1, <2>2 DEF UsedAsAgreed
<1>2. QED
  BY <1>1, AuthorityInvariant, PTL

\* The overlapping checks of a waiting launch come to exactly what they are for: the
\* catalogs say what they said when it was staged, and everybody is active.
THEOREM AuthorityChecksAreExact == Spec => []ChecksAreExact
<1>1. AuthorityInv => ChecksAreExact
  BY WaitingExact DEF ChecksAreExact
<1>2. QED
  BY <1>1, AuthorityInvariant, PTL
=============================================================================
