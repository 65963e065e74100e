\* One day in depth: two fees, several entries per wallet, split prizes, a seed.
SPECIFICATION FairSpec
CONSTANTS
    MaxDay = 1
    MaxWallet = 2
    Treasuries = {t1, t2}
    t1 = t1
    t2 = t2
    DayDuration = 2
    CutoffDuration = 2
    MaxTime = 4
    MinEntryFee = 1
    MaxEntryFee = 2
    MaxDailySeed = 2
    MaxWinners = 2
    WalletMatt = 2
    TreasuryMatt = 2
    OutsideMatt = 1
INVARIANTS
    Solvency
PROPERTIES
    ImplementsEscrow
    DaysClose
    RefundsPaid
