---------------------------- MODULE MineRewards ----------------------------
(***************************************************************************)
(* MattMineRewards.sol: the vault that pays the weekly boards.  The         *)
(* publisher fixes a reward epoch once (a Merkle root, a total, a           *)
(* deadline), its winners claim against the root until the deadline, then   *)
(* the treasury may close the epoch and take back what nobody claimed.      *)
(* Anyone may send the vault MATT; what no open epoch reserves can be       *)
(* recovered.                                                               *)
(*                                                                          *)
(* A transaction is atomic.  The Treasury Safe batches fundRewards and      *)
(* publishRewardEpoch in one transaction, so Publish takes the funding that *)
(* goes with it (0 for a bare publication).  Abstracted: role checks, ERC-20*)
(* allowances, events, and hashing: a Merkle root is the allocation it      *)
(* commits to, a proof is membership in it, and two proofs of one wallet do *)
(* not exist because reward-plan.js builds one leaf per wallet.             *)
(***************************************************************************)
EXTENDS Integers, Sums

CONSTANTS
    MaxEpoch,        \* bound: epoch keys (epoch, board) are 1..MaxEpoch
    MaxWallet,       \* bound: wallets are 1..MaxWallet
    Treasuries,      \* addresses that may become reserveTreasury
    Safe,            \* the Treasury Safe that funds and publishes
    MaxClaimWindow,  \* MAX_CLAIM_WINDOW, in ticks
    MaxTime,         \* bound: the last tick
    SafeMatt, OutsideMatt  \* MATT the Safe and everyone else start with

Epochs  == 1..MaxEpoch
Wallets == 1..MaxWallet

ASSUME RewardsConstants ==
    /\ MaxEpoch \in Nat /\ MaxWallet \in Nat
    /\ Safe \in Treasuries
    /\ MaxClaimWindow \in Nat /\ MaxTime \in Nat
    /\ SafeMatt \in Nat /\ OutsideMatt \in Nat

VARIABLES
    now,            \* block.timestamp
    \* _epochs, one variable per field of struct RewardEpoch
    root, total, claimedMatt, deadline, published, closed,
    hasClaimed,     \* _claims
    totalReserved,  \* totalReservedMatt
    paused, reserveTreasury,
    balance,        \* mattToken.balanceOf(vault)
    purse,          \* MATT each wallet has claimed
    treasury,       \* MATT of each treasury
    outside         \* MATT of everyone else

terms    == <<root, total, deadline, published>>
claims   == <<claimedMatt, hasClaimed>>
control  == <<paused, reserveTreasury>>
tokens   == <<balance, purse, treasury, outside>>
contract == <<terms, claims, closed, totalReserved, control, tokens>>

NoMatt  == [e \in Epochs |-> 0]
Nowhere == [e \in Epochs |-> FALSE]
NoRoot  == [w \in Wallets |-> 0]

ContractInit ==
    /\ now = 0
    /\ root = [e \in Epochs |-> NoRoot]
    /\ total = NoMatt /\ claimedMatt = NoMatt /\ deadline = NoMatt
    /\ published = Nowhere /\ closed = Nowhere
    /\ hasClaimed = [e \in Epochs |-> [w \in Wallets |-> FALSE]]
    /\ totalReserved = 0
    /\ paused = FALSE
    /\ reserveTreasury \in Treasuries
    /\ balance = 0
    /\ purse = [w \in Wallets |-> 0]
    /\ treasury = [t \in Treasuries |-> IF t = Safe THEN SafeMatt ELSE 0]
    /\ outside = OutsideMatt

Remaining(e) == total[e] - claimedMatt[e]
Open(e)      == published[e] /\ ~closed[e]

Available == IF balance > totalReserved THEN balance - totalReserved ELSE 0

-----------------------------------------------------------------------------

Tick ==
    /\ now < MaxTime
    /\ now' = now + 1
    /\ UNCHANGED contract

\* fundRewards by anyone, a raw transfer, or the share MattMineRuns routes here.
Deposit(amount) ==
    /\ amount \in 1..outside
    /\ outside' = outside - amount
    /\ balance' = balance + amount
    /\ UNCHANGED <<now, terms, claims, closed, totalReserved, control, purse, treasury>>

Funded(amount, funding) == balance + funding >= totalReserved + amount

Publishable(e) == ~published[e]

\* fundRewards(funding), when funding > 0, then publishRewardEpoch.
Publish(e, leaves, amount, end, funding) ==
    /\ ~paused
    /\ Publishable(e)
    /\ leaves # NoRoot /\ amount > 0
    /\ now < end /\ end <= now + MaxClaimWindow
    /\ funding \in 0..treasury[Safe]
    /\ Funded(amount, funding)
    /\ root' = [root EXCEPT ![e] = leaves]
    /\ total' = [total EXCEPT ![e] = amount]
    /\ deadline' = [deadline EXCEPT ![e] = end]
    /\ published' = [published EXCEPT ![e] = TRUE]
    /\ totalReserved' = totalReserved + amount
    /\ treasury' = [treasury EXCEPT ![Safe] = @ - funding]
    /\ balance' = balance + funding
    /\ UNCHANGED <<now, claims, closed, control, purse, outside>>

Claimable(e, w) == ~paused /\ Open(e) /\ now <= deadline[e] /\ ~hasClaimed[e][w]

BookClaim(e, w, amount) ==
    /\ hasClaimed' = [hasClaimed EXCEPT ![e][w] = TRUE]
    /\ claimedMatt' = [claimedMatt EXCEPT ![e] = @ + amount]
    /\ totalReserved' = totalReserved - amount

\* Mutant: the last winner's reward is refused.
WithinTotal_Strict(e, w) == root[e][w] < Remaining(e)

WithinTotal(e, w) == root[e][w] <= Remaining(e)

\* The only amount a proof can be given for is the wallet's leaf.
Claim(e, w) ==
    /\ Claimable(e, w)
    /\ root[e][w] > 0
    /\ WithinTotal(e, w)
    /\ BookClaim(e, w, root[e][w])
    /\ purse' = [purse EXCEPT ![w] = @ + root[e][w]]
    /\ balance' = balance - root[e][w]
    /\ UNCHANGED <<now, terms, closed, control, treasury, outside>>

Expired(e) == now > deadline[e]

Released(e) == Remaining(e)

RecoverExpiredRewards(e) ==
    /\ Open(e)
    /\ Expired(e)
    /\ closed' = [closed EXCEPT ![e] = TRUE]
    /\ totalReserved' = totalReserved - Released(e)
    /\ treasury' = [treasury EXCEPT ![reserveTreasury] = @ + Released(e)]
    /\ balance' = balance - Released(e)
    /\ UNCHANGED <<now, terms, claims, control, purse, outside>>

RecoverUnallocatedRewards(amount) ==
    /\ amount \in 1..Available
    /\ treasury' = [treasury EXCEPT ![reserveTreasury] = @ + amount]
    /\ balance' = balance - amount
    /\ UNCHANGED <<now, terms, claims, closed, totalReserved, control, purse, outside>>

SetReserveTreasury(t) ==
    /\ paused
    /\ reserveTreasury' = t
    /\ UNCHANGED <<now, terms, claims, closed, totalReserved, paused, tokens>>

SetPaused(p) ==
    /\ paused # p
    /\ paused' = p
    /\ UNCHANGED <<now, terms, claims, closed, totalReserved, reserveTreasury, tokens>>

\* What everyone but the publisher does.
Bystander ==
    \/ Tick
    \/ \E amount \in 1..outside : Deposit(amount)
    \/ \E e \in Epochs, w \in Wallets : Claim(e, w)
    \/ \E e \in Epochs : RecoverExpiredRewards(e)
    \/ \E amount \in 1..Available : RecoverUnallocatedRewards(amount)
    \/ \E t \in Treasuries : SetReserveTreasury(t)
    \/ \E p \in BOOLEAN : SetPaused(p)

\* The contract trusts its publisher with any allocation and any total.
ContractNext ==
    \/ Bystander
    \/ \E e \in Epochs, leaves \in [Wallets -> 0..SafeMatt + OutsideMatt],
          amount \in 1..SafeMatt + OutsideMatt,
          end \in now + 1..now + MaxClaimWindow, funding \in 0..treasury[Safe] :
            Publish(e, leaves, amount, end, funding)

contractVars == <<now, contract>>

ContractSpec == ContractInit /\ [][ContractNext]_contractVars

-----------------------------------------------------------------------------
(* What the vault promises, whatever its publisher publishes.               *)

ClaimedLeaves(e) == [w \in Wallets |-> IF hasClaimed[e][w] THEN root[e][w] ELSE 0]

Reserved == [e \in Epochs |-> IF Open(e) THEN Remaining(e) ELSE 0]

\* Types: no amount ever goes below zero.
TypeOK ==
    /\ now \in Nat
    /\ root \in [Epochs -> [Wallets -> Nat]]
    /\ total \in [Epochs -> Nat] /\ claimedMatt \in [Epochs -> Nat]
    /\ deadline \in [Epochs -> Nat]
    /\ published \in [Epochs -> BOOLEAN] /\ closed \in [Epochs -> BOOLEAN]
    /\ hasClaimed \in [Epochs -> [Wallets -> BOOLEAN]]
    /\ totalReserved \in Nat
    /\ paused \in BOOLEAN /\ reserveTreasury \in Treasuries
    /\ balance \in Nat /\ outside \in Nat
    /\ purse \in [Wallets -> Nat] /\ treasury \in [Treasuries -> Nat]

\* The MATT the vault holds covers everything its open epochs still owe.
Solvency == balance >= totalReserved

\* totalReservedMatt is exactly the sum of what the open epochs still owe.
ReservesBalance == IsSum(Reserved, MaxEpoch, totalReserved)

\* An epoch's claimedMatt is the sum of the leaves its claimants hold, and never
\* more than its total, also when its publisher promised more than that.
ClaimsBalance ==
    \A e \in Epochs :
        /\ IsSum(ClaimedLeaves(e), MaxWallet, claimedMatt[e])
        /\ claimedMatt[e] <= total[e]

\* The winners' window: nobody's remaining reward is taken while they may still
\* claim it, and nothing is paid once the deadline is past or the epoch closed.
WindowKept ==
    \A e \in Epochs :
        /\ closed[e]' # closed[e] => published[e] /\ now > deadline[e]
        /\ claimedMatt[e]' # claimedMatt[e] => Open(e) /\ now <= deadline[e]
WindowRespected == [][WindowKept]_contractVars

\* A published epoch is final: its root, total and deadline never change, a
\* closed epoch stays closed, a claim stays made.
FinalKept ==
    \A e \in Epochs :
        /\ published[e] => /\ published'[e] /\ root'[e] = root[e]
                           /\ total'[e] = total[e] /\ deadline'[e] = deadline[e]
        /\ closed[e] => closed'[e]
        /\ \A w \in Wallets : hasClaimed[e][w] => hasClaimed'[e][w]
PublishedFinal == [][FinalKept]_contractVars
=============================================================================
