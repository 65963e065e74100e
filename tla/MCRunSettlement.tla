-------------------------- MODULE MCRunSettlement --------------------------
EXTENDS RunSettlement

CONSTANTS armor, pack, map, deep, vault

SlotsOf == [i \in Items |-> IF i = armor THEN Armor ELSE Backpack]

(* The operator may tighten the withdrawal limits.                          *)
Wide  == [minimum |-> 1, wallet |-> 2, global |-> 3]
Tight == [minimum |-> 1, wallet |-> 1, global |-> 1]
OneLimit == {Wide}
TwoLimits == {Wide, Tight}

(* A map for standard runs and two Endless versions: "deep" keeps the XP of *)
(* failed runs, "vault" has a lower daily cap and does not.                 *)
Map  == [mineable |-> 3, rate |-> 1, maximumPayout |-> 2, timeout |-> 1]
Deep == [mineable |-> 3, rate |-> 1, maximumPayout |-> 2, timeout |-> 1,
         maximumDailyPayout |-> 3, maximumPhases |-> 2, phaseXp |-> 1, maximumRunXp |-> 2,
         walletXpPerDay |-> 2, minerXpPerDay |-> 3, failedRunsRetainXp |-> TRUE]
Vault == [Deep EXCEPT !.maximumDailyPayout = 1, !.walletXpPerDay = 3, !.minerXpPerDay = 2,
                      !.failedRunsRetainXp = FALSE]

VersionTerms == [v \in Versions |-> IF v = map THEN Map ELSE IF v = deep THEN Deep ELSE Vault]
=============================================================================
