----------------------------- MODULE MCArenaRuns -----------------------------
(***************************************************************************)
(* ArenaRuns on small instances: two tabs and the entries of one player.    *)
(***************************************************************************)
EXTENDS ArenaRuns, TLC

OnePayer == [p \in Payments |-> CHOOSE w \in Wallets : TRUE]

\* For safety only: entries and handlers are interchangeable.
Symmetry == Permutations(Payments) \union Permutations(Requests)
=============================================================================
