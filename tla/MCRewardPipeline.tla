-------------------------- MODULE MCRewardPipeline --------------------------
(***************************************************************************)
(* RewardPipeline on small instances: one board of two places, the first    *)
(* place's weight twice the second's.                                       *)
(***************************************************************************)
EXTENDS RewardPipeline

TwoPlaces   == <<2, 1>>
BothOrders  == {<<1, 2>>, <<2, 1>>, <<1>>}
LonelyBoard == {<<1>>}
=============================================================================
