-------------------------------- MODULE Sums --------------------------------
(***************************************************************************)
(* "total is the sum of f[1], ..., f[n]", said without recursion so that    *)
(* the provers can use it and TLC can evaluate it: there is a ladder of     *)
(* running totals that starts at 0, climbs by f[i] at rung i, never comes   *)
(* down and ends at total.  Every ledger of the project (a contract's total *)
(* reserve against its per-day reserves, a day's entries against what each  *)
(* wallet paid) is related to its parts with it.                            *)
(***************************************************************************)
EXTENDS Integers

IsLadder(h, f, n) ==
    /\ h[0] = 0
    /\ \A i \in 1..n : h[i] = h[i - 1] + f[i]
    /\ \A i, j \in 0..n : i <= j => h[i] <= h[j]

IsSum(f, n, total) ==
    \E h \in [0..n -> 0..total] : IsLadder(h, f, n) /\ h[n] = total
=============================================================================
