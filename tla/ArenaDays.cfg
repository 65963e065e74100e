\* Two requests meet on one day: entries, a top-up, late scores, a settlement.
CHECK_DEADLOCK FALSE
SPECIFICATION DaysSpec
SYMMETRY Symmetry
CONSTANTS
    MaxDay = 1
    MaxWallet = 2
    Treasuries = {t1}
    t1 = t1
    DayDuration = 1
    CutoffDuration = 0
    MaxTime = 2
    MinEntryFee = 1
    MaxEntryFee = 1
    MaxDailySeed = 1
    MaxWinners = 2
    WalletMatt = 1
    TreasuryMatt = 1
    OutsideMatt = 0
    Requests = {q1, q2}
    q1 = q1
    q2 = q2
    Prices = {1}
    Seeds = {0}
    TopUps = {1}
    Suspendable = {1}
    Weights <- TwoWeights
    MaxScore = 1
    NoDraft = NoDraft
INVARIANTS
    SettledByRanking
