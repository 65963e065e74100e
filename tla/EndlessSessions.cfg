\* Two runs and two handlers: starts, phases and endings cross, nothing gets stuck.
CHECK_DEADLOCK FALSE
SPECIFICATION FairSpec
CONSTANTS
    Runs = {1, 2}
    Payments = {p1}
    p1 = p1
    Requests = {q1, q2}
    q1 = q1
    q2 = q2
    Plays = {d1, d2}
    d1 = d1
    d2 = d2
    MaxPhases = 2
    Outcomes <- TwoOutcomes
    MaxTokens = 1
    Rewards = TRUE
INVARIANTS
    RowFollowsChain
    OnlyBankedIsPaid
    PaymentStartsOneRun
    ClosedIsReleased
PROPERTIES
    MinerGetsFree
    QueueDrains
