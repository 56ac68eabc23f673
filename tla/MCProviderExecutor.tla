------------------------- MODULE MCProviderExecutor -------------------------
(***************************************************************************)
(* Small instances of ProviderExecutor.                                    *)
(***************************************************************************)
EXTENDS ProviderExecutor, TLC

\* Runs and clients are interchangeable.  Used by the runs that check safety
\* only.
Symmetry == Permutations(Run) \cup Permutations(Client)
=============================================================================
