------------------------- MODULE MCLaunchAuthority -------------------------
(***************************************************************************)
(* A small instance of LaunchAuthority: two providers, accounts,           *)
(* credentials, agents and roles, of which one agent is assigned to the    *)
(* node's role and has an account.                                         *)
(***************************************************************************)
EXTENDS LaunchAuthority, TLC

CONSTANTS p1, p2, a1, a2, c1, c2, m1, g1, g2, j1, w1, w2

\* Everything, everything but credentials, and what the CLI needs at least.
Wide == [level |-> [f \in Field |-> Use], persistent |-> TRUE]

MCCeiling == {Wide, [Wide EXCEPT !.level["credential"] = Observe], OnlineCli.ceiling}

MCSeedCatalog ==
    [references |-> [c \in RefId |-> [active |-> TRUE, locator |-> "x"]],
     providers |-> [p \in ProviderId |-> [active |-> TRUE, adapter_kind |-> "x"]],
     accounts |-> [a \in AccountId |->
        [active |-> TRUE, provider |-> p1, identity |-> "x",
         reference |-> IF a = a1 THEN c1 ELSE c2]],
     models |-> [m \in ModelId |-> [active |-> TRUE, name |-> "x"]],
     agents |-> [g \in AgentId |->
        [active |-> TRUE, provider |-> p1, account |-> IF g = g1 THEN a1 ELSE None,
         model |-> m1]],
     projects |-> [j \in ProjectId |->
        [active |-> TRUE, root |-> "x", policy |-> [layer |-> Project, ceiling |-> Wide]]],
     roles |-> [w \in RoleId |->
        [active |-> TRUE, policy |-> [layer |-> RoleOrAgent, ceiling |-> OnlineCli.ceiling]]],
     runs |-> [r \in RunId |-> None]]

MCSeedM3 ==
    [assigned |-> [slot \in ProjectId \X RoleId |->
        IF slot[2] = NodeRole THEN [active |-> TRUE, agent |-> g1] ELSE None],
     baseline |-> "x"]

\* Runs and requests are interchangeable.
Symmetry == Permutations(RunId) \cup Permutations(RequestId)
=============================================================================
