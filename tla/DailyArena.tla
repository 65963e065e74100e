----------------------------- MODULE DailyArena -----------------------------
(***************************************************************************)
(* MattMineDailyArena.sol: the contract that holds the MATT of the daily    *)
(* contest.  A day is scheduled ahead with its entry fee, seeded by the     *)
(* treasury, entered by wallets until 25 minutes before its end, and then   *)
(* either settled (the whole pool is paid to its winners) or cancelled (the *)
(* seed goes back, every wallet claims its own fees).  The contract may     *)
(* also receive MATT nobody asked for, and gives that excess, and only      *)
(* that, to the treasury.                                                   *)
(*                                                                          *)
(* A transaction is atomic on the chain: each external function is one      *)
(* action, a revert is a disabled action.  Addresses are numbers, as on the *)
(* chain.  What is abstracted: role checks (any holder may call at any      *)
(* time), ERC-20 allowances (a missing one is a call that does not happen), *)
(* events, and the order of the winners of one settlement.                  *)
(***************************************************************************)
EXTENDS Integers, Sequences, FiniteSets, Sums

CONSTANTS
    MaxDay,         \* bound: day ids are 1..MaxDay, day 0 is deployment day
    MaxWallet,      \* bound: wallets are 1..MaxWallet
    Treasuries,     \* addresses that may become the seed treasury
    DayDuration,    \* DAY_DURATION, in ticks
    CutoffDuration, \* ENTRY_CUTOFF_DURATION, in ticks
    MaxTime,        \* bound: the last tick
    MinEntryFee, MaxEntryFee,  \* MIN_/MAX_ENTRY_FEE_MATT
    MaxDailySeed,   \* MAX_DAILY_SEED_MATT
    MaxWinners,     \* MAX_WINNERS
    WalletMatt, TreasuryMatt, OutsideMatt  \* MATT each account starts with

Days    == 1..MaxDay
Wallets == 1..MaxWallet

ASSUME ArenaConstants ==
    /\ MaxDay \in Nat /\ MaxWallet \in Nat
    /\ DayDuration \in Nat \ {0} /\ CutoffDuration \in 0..DayDuration
    /\ MaxTime \in Nat
    /\ MinEntryFee \in Nat \ {0} /\ MaxEntryFee \in Nat
    /\ MaxDailySeed \in Nat /\ MaxWinners \in Nat
    /\ WalletMatt \in Nat /\ TreasuryMatt \in Nat /\ OutsideMatt \in Nat
    /\ Treasuries # {}

VARIABLES
    now,              \* block.timestamp
    \* _days, one variable per field of struct Day
    status, fee, entryCount, entryMatt, seededMatt, reservedMatt, settledMatt, refundedMatt,
    \* _walletDays, one variable per field of struct WalletDay
    walletCount, walletPaid, walletRefunded,
    entries,          \* _entries; nextEntryNumber is Len(entries) + 1
    winners,          \* _winners[d] as a function wallet -> prize, 0 for none
    totalReserved,    \* totalReservedMatt
    entriesPaused, settlementPaused,
    seedTreasury,
    balance,          \* matt.balanceOf(arena)
    purse,            \* matt.balanceOf(wallet)
    vault,            \* matt.balanceOf(treasury)
    outside           \* MATT of everyone else

takings == <<fee, entryCount, entryMatt, seededMatt, walletCount, walletPaid, entries>>
refunds == <<refundedMatt, walletRefunded>>
payouts == <<settledMatt, winners>>
reserve == <<reservedMatt, totalReserved>>
books   == <<status, takings, refunds, payouts, reserve>>
admin   == <<entriesPaused, settlementPaused, seedTreasury>>
tokens  == <<balance, purse, vault, outside>>
vars    == <<now, books, admin, tokens>>

NoMatt   == [d \in Days |-> 0]
NoPrizes == [w \in Wallets |-> 0]
NoWallet == [d \in Days |-> [w \in Wallets |-> 0]]

Init ==
    /\ now = 0
    /\ status = [d \in Days |-> "Unscheduled"]
    /\ fee = NoMatt /\ entryCount = NoMatt /\ entryMatt = NoMatt /\ seededMatt = NoMatt
    /\ reservedMatt = NoMatt /\ settledMatt = NoMatt /\ refundedMatt = NoMatt
    /\ walletCount = NoWallet /\ walletPaid = NoWallet /\ walletRefunded = NoWallet
    /\ entries = << >>
    /\ winners = [d \in Days |-> NoPrizes]
    /\ totalReserved = 0
    /\ entriesPaused = TRUE
    /\ settlementPaused = FALSE
    /\ seedTreasury \in Treasuries
    /\ balance = 0
    /\ purse = [w \in Wallets |-> WalletMatt]
    /\ vault = [t \in Treasuries |-> TreasuryMatt]
    /\ outside = OutsideMatt

Today          == now \div DayDuration
DayEnd(d)      == (d + 1) * DayDuration
EntryCutoff(d) == DayEnd(d) - CutoffDuration
Scheduled(d)   == status[d] = "Scheduled"
Pool(d)        == entryMatt[d] + seededMatt[d]
Unclaimed(d)   == [w \in Wallets |-> walletPaid[d][w] - walletRefunded[d][w]]

\* refundableMatt
Refundable(d, w) == IF status[d] = "Cancelled" THEN Unclaimed(d)[w] ELSE 0

\* Mutant: the contract's whole balance counts as excess.
Excess_IsBalance == balance

\* availableExcessMatt
Excess == IF balance > totalReserved THEN balance - totalReserved ELSE 0

\* What every booking does to the day's reserve and to the contract's total.
AddReserve(d, amount) ==
    /\ reservedMatt' = [reservedMatt EXCEPT ![d] = @ + amount]
    /\ totalReserved' = totalReserved + amount

TakeReserve(d, amount) ==
    /\ reservedMatt' = [reservedMatt EXCEPT ![d] = @ - amount]
    /\ totalReserved' = totalReserved - amount

-----------------------------------------------------------------------------

Tick ==
    /\ now < MaxTime
    /\ now' = now + 1
    /\ UNCHANGED <<books, admin, tokens>>

Unpriced(d) == d > Today /\ status[d] = "Unscheduled"

ScheduleDay(d, price) ==
    /\ Unpriced(d)
    /\ price \in MinEntryFee..MaxEntryFee
    /\ status' = [status EXCEPT ![d] = "Scheduled"]
    /\ fee' = [fee EXCEPT ![d] = price]
    /\ UNCHANGED <<now, entryCount, entryMatt, seededMatt, walletCount, walletPaid,
                   entries, refunds, payouts, reserve, admin, tokens>>

\* _pullExact(seedTreasury, amount) reverts when the treasury is short.
SeedDay(d, amount) ==
    /\ amount > 0
    /\ Scheduled(d)
    /\ now < DayEnd(d)
    /\ seededMatt[d] + amount <= MaxDailySeed
    /\ vault[seedTreasury] >= amount
    /\ vault' = [vault EXCEPT ![seedTreasury] = @ - amount]
    /\ balance' = balance + amount
    /\ seededMatt' = [seededMatt EXCEPT ![d] = @ + amount]
    /\ AddReserve(d, amount)
    /\ UNCHANGED <<now, status, fee, entryCount, entryMatt, walletCount, walletPaid,
                   entries, refunds, payouts, admin, purse, outside>>

Enter(d, w) ==
    /\ ~entriesPaused
    /\ d = Today
    /\ Scheduled(d)
    /\ now <= EntryCutoff(d)
    /\ purse[w] >= fee[d]
    /\ purse' = [purse EXCEPT ![w] = @ - fee[d]]
    /\ balance' = balance + fee[d]
    /\ entries' = Append(entries, [day |-> d, wallet |-> w, paid |-> fee[d]])
    /\ entryCount' = [entryCount EXCEPT ![d] = @ + 1]
    /\ entryMatt' = [entryMatt EXCEPT ![d] = @ + fee[d]]
    /\ AddReserve(d, fee[d])
    /\ walletCount' = [walletCount EXCEPT ![d][w] = @ + 1]
    /\ walletPaid' = [walletPaid EXCEPT ![d][w] = @ + fee[d]]
    /\ UNCHANGED <<now, status, fee, seededMatt, refunds, payouts, admin, vault, outside>>

\* Mutant: a winner need not have entered.
ValidPrizes_AnyWallet(d, prizes) == IsSum(prizes, MaxWallet, Pool(d))

\* The winners are distinct entrants with positive prizes that use up the pool.
ValidPrizes(d, prizes) ==
    LET won == {w \in Wallets : prizes[w] > 0} IN
    /\ Cardinality(won) <= MaxWinners
    /\ \A w \in won : walletCount[d][w] > 0
    /\ IsSum(prizes, MaxWallet, Pool(d))

Settleable(d) == ~settlementPaused /\ Scheduled(d) /\ now >= DayEnd(d)

SettleDay(d, prizes) ==
    /\ Settleable(d)
    /\ ValidPrizes(d, prizes)
    /\ status' = [status EXCEPT ![d] = "Settled"]
    /\ settledMatt' = [settledMatt EXCEPT ![d] = Pool(d)]
    /\ winners' = [winners EXCEPT ![d] = prizes]
    /\ reservedMatt' = [reservedMatt EXCEPT ![d] = 0]
    /\ totalReserved' = totalReserved - Pool(d)
    /\ balance' = balance - Pool(d)
    /\ purse' = [w \in Wallets |-> purse[w] + prizes[w]]
    /\ UNCHANGED <<now, takings, refunds, admin, vault, outside>>

\* Mutant: only a day with entries can be cancelled.
Cancellable_WithEntries(d) == ~settlementPaused /\ Scheduled(d) /\ entryCount[d] > 0

\* Allowed at any moment while the day is scheduled, also while it runs.
Cancellable(d) == ~settlementPaused /\ Scheduled(d)

\* What cancelling takes out of the day's reserve: the fees stay.
Released(d) == seededMatt[d]

CancelDay(d) ==
    /\ Cancellable(d)
    /\ status' = [status EXCEPT ![d] = "Cancelled"]
    /\ TakeReserve(d, Released(d))
    /\ balance' = balance - seededMatt[d]
    /\ vault' = [vault EXCEPT ![seedTreasury] = @ + seededMatt[d]]
    /\ UNCHANGED <<now, takings, refunds, payouts, admin, purse, outside>>

\* Mutant: a settlement pause also stops refunds.
RefundOpen_Pausable(d) == status[d] = "Cancelled" /\ ~settlementPaused

\* The only payment that no pause stops.
RefundOpen(d) == status[d] = "Cancelled"

BookRefund(d, w, amount) ==
    /\ walletRefunded' = [walletRefunded EXCEPT ![d][w] = @ + amount]
    /\ refundedMatt' = [refundedMatt EXCEPT ![d] = @ + amount]
    /\ TakeReserve(d, amount)

ClaimEntryRefund(d, w) ==
    LET amount == Unclaimed(d)[w] IN
    /\ RefundOpen(d)
    /\ amount # 0
    /\ BookRefund(d, w, amount)
    /\ balance' = balance - amount
    /\ purse' = [purse EXCEPT ![w] = @ + amount]
    /\ UNCHANGED <<now, status, takings, payouts, admin, vault, outside>>

RecoverExcess(amount) ==
    /\ amount > 0
    /\ amount <= Excess
    /\ balance' = balance - amount
    /\ vault' = [vault EXCEPT ![seedTreasury] = @ + amount]
    /\ UNCHANGED <<now, books, admin, purse, outside>>

TreasuryMovable == entriesPaused /\ settlementPaused /\ totalReserved = 0

SetSeedTreasury(t) ==
    /\ TreasuryMovable
    /\ seedTreasury' = t
    /\ UNCHANGED <<now, books, entriesPaused, settlementPaused, tokens>>

SetEntriesPaused(flag) ==
    /\ entriesPaused # flag
    /\ entriesPaused' = flag
    /\ UNCHANGED <<now, books, settlementPaused, seedTreasury, tokens>>

SetSettlementPaused(flag) ==
    /\ settlementPaused # flag
    /\ settlementPaused' = flag
    /\ UNCHANGED <<now, books, entriesPaused, seedTreasury, tokens>>

\* Anyone may transfer MATT straight to the contract: an ERC-20 has no say.
StrayTransfer(amount) ==
    /\ amount \in 1..outside
    /\ outside' = outside - amount
    /\ balance' = balance + amount
    /\ UNCHANGED <<now, books, admin, purse, vault>>

-----------------------------------------------------------------------------

DayStep(d) ==
    \/ \E price \in MinEntryFee..MaxEntryFee : ScheduleDay(d, price)
    \/ \E amount \in 1..MaxDailySeed : SeedDay(d, amount)
    \/ \E w \in Wallets : Enter(d, w)
    \/ \E prizes \in [Wallets -> 0..Pool(d)] : SettleDay(d, prizes)
    \/ CancelDay(d)
    \/ \E w \in Wallets : ClaimEntryRefund(d, w)

ContractStep ==
    \/ \E amount \in 1..balance : RecoverExcess(amount)
    \/ \E t \in Treasuries : SetSeedTreasury(t)
    \/ \E flag \in BOOLEAN : SetEntriesPaused(flag)
    \/ \E flag \in BOOLEAN : SetSettlementPaused(flag)
    \/ \E amount \in 1..outside : StrayTransfer(amount)

Next ==
    \/ Tick
    \/ \E d \in Days : DayStep(d)
    \/ ContractStep

Spec == Init /\ [][Next]_vars

-----------------------------------------------------------------------------
(* What the contract promises.                                             *)

Amounts == [Days -> Nat]

\* Every variable has its type: nothing the contract subtracts underflows.
TypeOK ==
    /\ now \in Nat
    /\ status \in [Days -> {"Unscheduled", "Scheduled", "Settled", "Cancelled"}]
    /\ fee \in Amounts /\ entryCount \in Amounts /\ entryMatt \in Amounts
    /\ seededMatt \in Amounts /\ reservedMatt \in Amounts /\ settledMatt \in Amounts
    /\ refundedMatt \in Amounts
    /\ walletCount \in [Days -> [Wallets -> Nat]]
    /\ walletPaid \in [Days -> [Wallets -> Nat]]
    /\ walletRefunded \in [Days -> [Wallets -> Nat]]
    /\ entries \in Seq([day : Days, wallet : Wallets, paid : Nat])
    /\ winners \in [Days -> [Wallets -> Nat]]
    /\ totalReserved \in Nat
    /\ entriesPaused \in BOOLEAN /\ settlementPaused \in BOOLEAN
    /\ seedTreasury \in Treasuries
    /\ balance \in Nat /\ outside \in Nat
    /\ purse \in [Wallets -> Nat] /\ vault \in [Treasuries -> Nat]

\* The contract never holds less MATT than it has promised to open days and
\* unclaimed refunds, whatever mix of seeds, entries, payouts, stray transfers
\* and recoveries came before (recoverExcess trusts balanceOf).
Solvency == balance >= totalReserved

\* What a day still holds: its whole pool while scheduled, what wallets have
\* not yet taken back once cancelled, nothing otherwise.
Held(d) ==
    CASE status[d] = "Scheduled" -> Pool(d)
      [] status[d] = "Cancelled" -> entryMatt[d] - refundedMatt[d]
      [] OTHER -> 0

\* The three levels of the books agree: the contract's total is the sum of its
\* days, a day's entries and its unclaimed refunds are the sums over its
\* wallets, and each day reserves exactly what its status says it still holds.
BooksBalance ==
    /\ IsSum(reservedMatt, MaxDay, totalReserved)
    /\ \A d \in Days :
          /\ reservedMatt[d] = Held(d)
          /\ IsSum(walletPaid[d], MaxWallet, entryMatt[d])
          /\ IsSum(Unclaimed(d), MaxWallet, entryMatt[d] - refundedMatt[d])
          /\ Unclaimed(d) \in [Wallets -> Nat]

\* A wallet that entered a cancelled day can always be given its fees back: the
\* MATT is there, and set aside for that day.
RefundGuaranteed ==
    \A d \in Days, w \in Wallets :
        /\ Refundable(d, w) <= reservedMatt[d]
        /\ reservedMatt[d] <= balance

\* A settled day paid out the MATT of every entry and every seed it took, to
\* wallets that entered it, and gave nobody a refund.
PoolPaidOut ==
    \A d \in Days : status[d] = "Settled" =>
        /\ settledMatt[d] = Pool(d)
        /\ IsSum(winners[d], MaxWallet, Pool(d))
        /\ \A w \in Wallets : winners[d][w] > 0 => walletCount[d][w] > 0
        /\ refundedMatt[d] = 0

\* A closed day is final: never reopened, never closed a second way, its
\* takings never change and refunds only grow.
Closed(d) == status[d] \in {"Settled", "Cancelled"}
ClosedDayFinal ==
    [][\A d \in Days : Closed(d) =>
          /\ status'[d] = status[d]
          /\ entryMatt'[d] = entryMatt[d]
          /\ seededMatt'[d] = seededMatt[d]
          /\ settledMatt'[d] = settledMatt[d]
          /\ refundedMatt'[d] >= refundedMatt[d]]_vars

\* The seed of a cancelled day goes to the address the seed treasury then is:
\* that is the address that paid it, because the treasury never changes while a
\* scheduled day holds a seed.
SeedGoesHome ==
    [][(\E d \in Days : Scheduled(d) /\ seededMatt[d] > 0)
          => seedTreasury' = seedTreasury]_vars

-----------------------------------------------------------------------------
(* Fairness.  Time passes; the pauser lifts a settlement pause in the end;  *)
(* the settler, who is called by an hourly job, closes a day it can close   *)
(* again and again (cancelling is the close that is always possible); and a *)
(* wallet claims what it is owed.                                           *)

CloseDay(d) == CancelDay(d) \/ \E prizes \in [Wallets -> 0..Pool(d)] : SettleDay(d, prizes)

Fairness ==
    /\ WF_vars(Tick)
    /\ WF_vars(SetSettlementPaused(FALSE))
    /\ \A d \in Days : SF_vars(CloseDay(d))
    /\ \A d \in Days, w \in Wallets : WF_vars(ClaimEntryRefund(d, w))

FairSpec == Spec /\ Fairness

\* No scheduled day can be stuck with its players' MATT: also one with a seed
\* and no entrant, which has nobody to be settled to.
DaysClose == \A d \in Days : Scheduled(d) ~> Closed(d)

\* Every refund of a cancelled day is paid, however often settlements are
\* paused meanwhile: claimEntryRefund has no pause.
RefundsPaid == \A d \in Days : (status[d] = "Cancelled") ~> (reservedMatt[d] = 0)

-----------------------------------------------------------------------------
(* The contract implements PrizeEscrow: a day is a pool, what it reserves is *)
(* what the pool holds, and a wallet is owed what it paid and did not yet    *)
(* take back.                                                                *)

EscrowPhase == [Unscheduled |-> "idle", Scheduled |-> "open",
                Settled |-> "paid", Cancelled |-> "void"]

Phase == [d \in Days |-> EscrowPhase[status[d]]]
Owed  == [d \in Days |-> Unclaimed(d)]

Escrow == INSTANCE PrizeEscrow WITH
    MaxPool <- MaxDay,
    MaxPlayer <- MaxWallet,
    Stakes <- MinEntryFee..MaxEntryFee,
    Sponsorships <- 1..MaxDailySeed,
    phase <- Phase,
    held  <- reservedMatt,
    owed  <- Owed,
    prize <- winners

\* Whatever the clock, the pauses, the treasury and the token do, each day
\* behaves as an escrow that pays out all it holds or returns every stake.
ImplementsEscrow == Escrow!EscrowSpec
=============================================================================
