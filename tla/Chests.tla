------------------------------- MODULE Chests -------------------------------
(***************************************************************************)
(* MattV2Chest: a player pays MATT for a random piece of equipment.  The     *)
(* MATT stays in the contract until the word comes; then the item is minted  *)
(* and the MATT goes to the treasury.  After a day without a word the buyer  *)
(* may cancel the request and take the MATT back.                            *)
(*                                                                          *)
(* The definitions an item is rolled from are configured per version while   *)
(* the contract is paused and are frozen by the version's activation.  Slots *)
(* differ in price and pools only, so there is one; its pools of a version   *)
(* are one value.  The model starts where the deployment ends, with a price  *)
(* and a version configured and everything paused                            *)
(* (docs/NFT_V2_MAINNET_DEPLOYMENT.md:56).                                   *)
(***************************************************************************)
EXTENDS VrfAdapter

CONSTANTS
    Buyers, Treasuries, FirstTreasury,
    Prices, Versions, Pools,    \* what the operators may configure
    FirstPrice, FirstVersion, FirstPool,    \* what the deployment configures
    NoPool, NoChest, NoItem,
    Funds,                      \* MATT a buyer starts with
    Timeout,                    \* REQUEST_TIMEOUT
    MaxBatch                    \* MAX_CHESTS_PER_PURCHASE

Escrow == "chest"
Equipment == "equipment"    \* MattV2Equipment, for its pause
Holders == Buyers \cup Treasuries \cup {Escrow}
AllPools == Pools \cup {FirstPool}

PendingChests ==
    [buyer : Buyers, price : Prices, requestedAt : 0..MaxTime, version : Versions, seen : AllPools]

ASSUME ChestAssumption ==
    /\ Escrow \notin Buyers \cup Treasuries /\ NoChest \notin PendingChests
    /\ "chest" \in Consumers /\ "equipment" \in Pausable
    /\ Prices \subseteq Nat \ {0} /\ Funds \in Nat
    /\ FirstTreasury \in Treasuries
    /\ Timeout \in Nat \ {0} /\ MaxBatch \in Nat \ {0}
    /\ NoPool \notin Pools
    /\ FirstPrice \in Prices /\ FirstVersion \in Versions /\ FirstPool # NoPool

VARIABLES
    price, treasury,
    pools, frozen, activeVersion,   \* the definition versions
    pending,        \* pendingRequests
    items,          \* what was minted for a request
    matt            \* MATT of the buyers, the treasuries and the contract

chestVars == <<price, treasury, pools, frozen, activeVersion, pending, items, matt>>

ChestInit ==
    /\ price = FirstPrice /\ treasury = FirstTreasury
    /\ pools = [v \in Versions |-> IF v = FirstVersion THEN FirstPool ELSE NoPool]
    /\ frozen = {FirstVersion} /\ activeVersion = FirstVersion
    /\ pending = [n \in Ids |-> NoChest]
    /\ items = [n \in Ids |-> NoItem]
    /\ matt = [h \in Holders |-> IF h \in Buyers THEN Funds ELSE 0]

Pay(from, to, amount) == matt' = [matt EXCEPT ![from] = @ - amount, ![to] = @ + amount]

-----------------------------------------------------------------------------
(* Configuration.                                                           *)

SetChestPrice(x) ==
    /\ x # price
    /\ price' = x
    /\ UNCHANGED <<treasury, pools, frozen, activeVersion, pending, items, matt>>

ConfigureDefinitionPool(v, pool) ==
    /\ "chest" \in paused /\ v \notin frozen
    /\ pools' = [pools EXCEPT ![v] = pool]
    /\ UNCHANGED <<price, treasury, frozen, activeVersion, pending, items, matt>>

ActivateDefinitionVersion(v) ==
    /\ "chest" \in paused
    /\ pools[v] # NoPool
    /\ frozen' = frozen \cup {v} /\ activeVersion' = v
    /\ UNCHANGED <<price, treasury, pools, pending, items, matt>>

SetTreasury(t) ==
    /\ "chest" \in paused /\ t # treasury
    /\ treasury' = t
    /\ UNCHANGED <<price, pools, frozen, activeVersion, pending, items, matt>>

-----------------------------------------------------------------------------
(* A purchase and its two ends.                                             *)

\* openChest (k = 1) and openChests.
OpenChests(b, k) ==
    LET bought == (Len(requests) + 1)..(Len(requests) + k) IN
    /\ "chest" \notin paused /\ k \in 1..MaxBatch
    /\ price * k <= matt[b]
    /\ now + Timeout <= MaxTime
    /\ RequestWords(provider["chest"], k)
    /\ Pay(b, Escrow, price * k)
    /\ pending' = [n \in Ids |->
         IF n \in bought
         THEN [buyer |-> b, price |-> price, requestedAt |-> now, version |-> activeVersion,
               seen |-> pools[activeVersion]]
         ELSE pending[n]]
    /\ UNCHANGED <<price, treasury, pools, frozen, activeVersion, items>>

\* What fulfillRandomness and mintEquipment ask for.
ChestTakes(n) == pending[n] # NoChest /\ Equipment \notin paused

\* fulfillRandomness
OpenItem(n, w) ==
    /\ items' = [items EXCEPT ![n] =
         [owner |-> pending[n].buyer, pool |-> pools[pending[n].version], seen |-> pending[n].seen, word |-> w]]
    /\ Pay(Escrow, treasury, pending[n].price)
    /\ pending' = [pending EXCEPT ![n] = NoChest]
    /\ UNCHANGED <<price, treasury, pools, frozen, activeVersion>>

\* Mutant: a refund leaves the request with the adapter.
Withdrawn_Kept(n) == UNCHANGED adapterVars

Withdrawn(n) == CancelRequest(n)

\* Mutant: refunds stop while the contract is paused.
Expired_Unpaused(n) == now >= pending[n].requestedAt + Timeout /\ "chest" \notin paused

Expired(n) == now >= pending[n].requestedAt + Timeout

\* refundExpiredRequest: the adapter has to agree that no word has come.
RefundExpiredRequest(n) ==
    /\ pending[n] # NoChest /\ Expired(n)
    /\ ~Answered(n) /\ Withdrawn(n)
    /\ Pay(Escrow, pending[n].buyer, pending[n].price)
    /\ pending' = [pending EXCEPT ![n] = NoChest]
    /\ UNCHANGED <<price, treasury, pools, frozen, activeVersion, items>>

-----------------------------------------------------------------------------
ChestTypeOK ==
    /\ price \in Prices /\ treasury \in Treasuries
    /\ pools \in [Versions -> AllPools \cup {NoPool}]
    /\ frozen \subseteq Versions /\ activeVersion \in Versions
    /\ pending \in [Ids -> {NoChest} \cup PendingChests]
    /\ items \in [Ids -> {NoItem} \cup [owner : Buyers, pool : AllPools, seen : AllPools, word : Words]]
    /\ matt \in [Holders -> Nat]

\* What the contract holds for each request.
Held == [n \in Ids |-> IF pending[n] # NoChest THEN pending[n].price ELSE 0]
=============================================================================
