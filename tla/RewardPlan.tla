----------------------------- MODULE RewardPlan -----------------------------
(***************************************************************************)
(* reward-plan.js, createRewardPlan: how a board's pool is split among its  *)
(* eligible top ten.  Each place has a weight, the shares are the weights   *)
(* normalised over the places that qualified, rounded down in base units of *)
(* MATT, and the first place takes what the rounding left.                  *)
(***************************************************************************)
EXTENDS Integers, Sequences, Functions

CONSTANT Weights  \* REWARD_WEIGHTS_BPS, best place first

ASSUME WeightsFall ==
    /\ Weights \in Seq(Nat \ {0})
    /\ \A i \in DOMAIN Weights : i > 1 => Weights[i] <= Weights[i - 1]

EligibleWeight(places) == SumFunctionOnSet(Weights, 1..places)

Shares(pool, places) ==
    [i \in 1..places |-> (pool * Weights[i]) \div EligibleWeight(places)]

RoundingRemainder(pool, places) == pool - SumFunction(Shares(pool, places))

\* Mutant: the remainder is dropped.
Amounts_NoRemainder(pool, places) == Shares(pool, places)

\* The entries' amountRaw by place.
Amounts(pool, places) ==
    [Shares(pool, places) EXCEPT ![1] = @ + RoundingRemainder(pool, places)]
=============================================================================
