--------------------------- MODULE MCStagedLaunch ---------------------------
(***************************************************************************)
(* The smallest valid workflow: two research branches, which may be staged *)
(* at the same time, and their join.                                       *)
(***************************************************************************)
EXTENDS StagedLaunch

CONSTANTS r1, r2, join

MCNode == {r1, r2, join}
MCKind == [n \in MCNode |-> IF n = join THEN "Join" ELSE "Research"]
MCNeeds == [n \in MCNode |-> IF n = join THEN {r1, r2} ELSE {}]
=============================================================================
