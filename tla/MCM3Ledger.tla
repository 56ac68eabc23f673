----------------------------- MODULE MCM3Ledger -----------------------------
(***************************************************************************)
(* Model values for M3Ledger.  Clients, and the identities of executions,  *)
(* are interchangeable.                                                    *)
(***************************************************************************)
EXTENDS M3Ledger, TLC

MCSymmetry == Permutations(Client) \cup Permutations(Execution)
=============================================================================
