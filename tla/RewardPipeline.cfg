\* One board in depth: its winners claim, the rest is recovered.
SPECIFICATION FairSpec
CONSTANTS
    MaxEpoch = 1
    MaxWallet = 2
    Treasuries = {safe, other}
    Safe = safe
    safe = safe
    other = other
    MaxClaimWindow = 2
    MaxTime = 3
    SafeMatt = 3
    OutsideMatt = 1
    Weights <- TwoPlaces
    Rankings <- BothOrders
    Pools = {2, 3}
    MaxClaimDays = 2
INVARIANTS
    OnlyApprovedPublished
    WinnersCovered
PROPERTIES
    ImplementsPayout
    ApprovedIsPublished
    WinnersPaid
