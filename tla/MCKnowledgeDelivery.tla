------------------------ MODULE MCKnowledgeDelivery ------------------------
(***************************************************************************)
(* Model values for KnowledgeDelivery: commands are interchangeable.       *)
(***************************************************************************)
EXTENDS KnowledgeDelivery, TLC

MCSymmetry == Permutations(Command)
=============================================================================
