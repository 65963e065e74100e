---------------------------- MODULE MCVrfRewards ----------------------------
EXTENDS VrfRewards

CONSTANTS chestAdapter, passiveAdapter, newChestAdapter, word, w1

Served == [a \in Adapters |-> IF a = passiveAdapter THEN "passive" ELSE "chest"]
First  == [c \in Consumers |-> IF c = "chest" THEN chestAdapter ELSE passiveAdapter]
Rates  == [w \in Words |-> 2]

\* The contracts meet only in the coordinator and the clock.
OneAtATime == {{"chest"}, {"passive"}}
=============================================================================
