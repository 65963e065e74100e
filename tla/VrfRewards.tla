----------------------------- MODULE VrfRewards -----------------------------
(***************************************************************************)
(* The two contracts that live on random words, with their adapters, one     *)
(* coordinator and one clock.  They share nothing else, so a behaviour may   *)
(* have only one of them deployed.                                           *)
(***************************************************************************)
EXTENDS Chests, PassiveRewards

CONSTANT Deployments    \* the sets of consumers that are explored

ASSUME DeploymentAssumption == Deployments \subseteq SUBSET Consumers

VARIABLE deployed

vars == <<now, paused, provider, requests, outstanding, chestVars, passiveVars, deployed>>

Init ==
    /\ deployed \in Deployments
    /\ AdapterInit /\ ChestInit /\ PassiveInit

\* What a consumer's call to another contract leaves alone.
OnlyChest   == UNCHANGED <<now, paused, provider, passiveVars, deployed>>
OnlyPassive == UNCHANGED <<now, paused, provider, chestVars, deployed>>

ConsumerOfRequest(n) == ConsumerOf[requests[n].adapter]

Takes(n) == IF ConsumerOfRequest(n) = "chest" THEN ChestTakes(n) ELSE PassiveTakes(n)

Consume(n, w) ==
    IF ConsumerOfRequest(n) = "chest" THEN OpenItem(n, w) /\ OnlyChest
    ELSE AssignPassiveRate(n, w) /\ OnlyPassive

\* The coordinator answers; what the consumer cannot take stays with the adapter.
Answer(n, w) ==
    \/ ~requests[n].cancelled /\ Takes(n) /\ Receive(n, w, TRUE) /\ Consume(n, w)
    \/ /\ (requests[n].cancelled \/ ~Takes(n)) /\ Receive(n, w, FALSE)
       /\ UNCHANGED <<now, paused, provider, chestVars, passiveVars, deployed>>

RetryFulfillment(n) == Takes(n) /\ Redeliver(n) /\ Consume(n, requests[n].word)

Tick ==
    /\ now < MaxTime
    /\ now' = now + 1
    /\ UNCHANGED <<paused, provider, adapterVars, chestVars, passiveVars, deployed>>

Involved(c) == c \in deployed \/ (c = Equipment /\ "chest" \in deployed)

Pausing(c) ==
    /\ Involved(c) /\ SetPaused(c)
    /\ UNCHANGED <<now, chestVars, passiveVars, deployed>>

Governance ==
    \/ \E c \in Pausable : Pausing(c)
    \/ /\ \E c \in deployed, a \in Adapters : SetRandomnessProvider(c, a)
       /\ UNCHANGED <<now, chestVars, passiveVars, deployed>>

Refund(n) == RefundExpiredRequest(n) /\ OnlyChest

ChestStep ==
    /\ "chest" \in deployed
    /\ \/ /\ \/ \E x \in Prices : SetChestPrice(x)
             \/ \E v \in Versions, pool \in Pools : ConfigureDefinitionPool(v, pool)
             \/ \E v \in Versions : ActivateDefinitionVersion(v)
             \/ \E t \in Treasuries : SetTreasury(t)
          /\ UNCHANGED adapterVars /\ OnlyChest
       \/ \E b \in Buyers, k \in 1..MaxBatch : OpenChests(b, k) /\ OnlyChest
       \/ \E n \in Asked : Refund(n)

Retry(m) == RequestQueuedRate(m) /\ OnlyPassive

PayOut(d, S, by) == ProcessPayouts(d, S, by) /\ UNCHANGED adapterVars /\ OnlyPassive

PassiveStep ==
    /\ "passive" \in deployed
    /\ \/ \E m \in Miners, w \in Wallets : TransferMiner(m, w) /\ UNCHANGED adapterVars /\ OnlyPassive
       \/ \E d \in Days, S \in SUBSET Miners \ {{}}, by \in Callers : PayOut(d, S, by)
       \/ \E m \in Miners, top \in BOOLEAN : SettlePlay(m, top) /\ OnlyPassive
       \/ \E m \in Miners : Retry(m)

VrfStep == \E n \in Asked : RetryFulfillment(n) \/ \E w \in Words : Answer(n, w)

Next == ChestStep \/ PassiveStep \/ VrfStep \/ Governance \/ Tick

Spec == Init /\ [][Next]_vars

-----------------------------------------------------------------------------
(* Buyers take back what they can, anyone retries a delivery and a payout,   *)
(* and pauses of the passive rewards and of the equipment end (they may come *)
(* again, so what they interrupt is tried again and again).  The coordinator *)
(* need not answer for a chest; the subscription of the passive rewards is   *)
(* kept funded (docs/NFT_V2_SPEC.md:148).                                    *)
Fairness ==
    /\ WF_vars(Tick)
    /\ \A c \in {Equipment, "passive"} : WF_vars(c \in paused /\ Pausing(c))
    /\ WF_vars(\E n \in Asked : Refund(n))
    /\ SF_vars(\E n \in Asked : RetryFulfillment(n))
    /\ WF_vars(\E n \in Asked, w \in Words : ConsumerOfRequest(n) = "passive" /\ Answer(n, w))
    /\ SF_vars(\E m \in Miners : Retry(m) /\ rateRequests'[m] = "requested")
    /\ SF_vars(\E d \in Days, m \in Miners : PayOut(d, {m}, "anyone"))

FairSpec == Spec /\ Fairness

-----------------------------------------------------------------------------
TypeOK ==
    /\ deployed \in Deployments
    /\ AdapterTypeOK /\ ChestTypeOK /\ PassiveTypeOK

(* The chests and their adapters agree on every chest that is not finished:  *)
(* its request can still be delivered or cancelled, exactly then its MATT is *)
(* in the contract, and the adapter counts it (fulfillRandomness and         *)
(* refundExpiredRequest against the adapter's flags, over pauses, price      *)
(* changes and a change of the adapter).  A refunded chest is never opened.  *)
EscrowMatchesRequests ==
    /\ \A n \in Ids : pending[n] # NoChest <=>
          n \in Asked /\ ConsumerOfRequest(n) = "chest" /\ Waiting(n)
    /\ IsSum(Held, MaxRequests, matt[Escrow])
    /\ \A a \in Adapters : IsSum(Counts(a), MaxRequests, outstanding[a])

(* An item is rolled from the definitions that its buyer could see when      *)
(* paying, whatever is configured and activated until the word comes         *)
(* (docs/NFT_V2_SPEC.md:139).                                                *)
RollIsPinned == \A n \in Ids : items[n] # NoItem => items[n].pool = items[n].seen

(* A chest that was paid for is opened or refunded, whether the word comes   *)
(* in time, late, while the equipment is paused, or never.                   *)
ChestsEnd == \A n \in Ids : pending[n] # NoChest ~> pending[n] = NoChest

(* What a Miner earned on a day that is over stands: no play, transfer, rate *)
(* or later payout changes how much processPayouts pays for it or to whom,   *)
(* so it does not matter when the keeper comes.                              *)
OwedStands ==
    [][\A d \in Days, m \in Miners : Boundary(d) < now /\ Payable(d, m) =>
          /\ Payout(d, m)' = Payout(d, m)
          /\ Payable(d, m)' \/ paid'[d][m] = Payout(d, m)]_vars

(* A day pays the Miner's rate for the seconds it was active after the rate  *)
(* was assigned: a play renews the activity for the window, once, without    *)
(* credit for the time it was away (recordActivity and eligibleSeconds       *)
(* against docs/NFT_V2_SPEC.md:264).                                         *)
ActiveSeconds(m) == UNION {t..(t + ActivityWindow - 1) : t \in played[m]}

PayoutIsEarned ==
    \A d \in Days, m \in Miners : paid[d][m] # NotPaid =>
        paid[d][m].amount =
            Crystals(m, Cardinality(ActiveSeconds(m) \cap EarnsFrom(d, m)..(Boundary(d) - 1)))

(* A Miner at level 100 gets its rate, and a day it earned something on is   *)
(* paid, though the coordinator refuses requests, the contract is paused and *)
(* the keeper never comes.                                                   *)
Due(d, m) == Payable(d, m) /\ now >= Opens(d, "anyone")

EarningsArrive ==
    \A m \in Miners :
        /\ m \in topLevel ~> rate[m] # 0
        /\ \A d \in Days : Due(d, m) ~> paid[d][m] # NotPaid
=============================================================================
