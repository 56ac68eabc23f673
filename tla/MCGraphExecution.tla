-------------------------- MODULE MCGraphExecution --------------------------
(***************************************************************************)
(* The smallest valid workflow with a level below the join: two research   *)
(* branches, their join, and a document that needs the join and one of the *)
(* branches.                                                               *)
(***************************************************************************)
EXTENDS GraphExecution

MCNode == {"r1", "r2", "join", "doc"}

MCKind == [n \in MCNode |->
    CASE n \in {"r1", "r2"} -> "Research" [] n = "join" -> "Join" [] OTHER -> "Document"]

MCNeeds == [n \in MCNode |->
    CASE n \in {"r1", "r2"} -> {}
      [] n = "join" -> {"r1", "r2"}
      [] OTHER -> {"r1", "join"}]
=============================================================================
