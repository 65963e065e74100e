------------------------------ MODULE MCPaidRuns ------------------------------
(***************************************************************************)
(* PaidRuns on a small instance.                                            *)
(***************************************************************************)
EXTENDS PaidRuns, TLC

\* For safety only: rows, Miners, handlers and credits are interchangeable.
Symmetry == Permutations(Runs) \union Permutations(Miners)
            \union Permutations(Requests) \union Permutations(Credits)
=============================================================================
