\* Two chests of a changing price, treasury, version and adapter; one Miner over two days.
CHECK_DEADLOCK FALSE
SPECIFICATION FairSpec
CONSTANTS
    Adapters = {chestAdapter, newChestAdapter, passiveAdapter}
    chestAdapter = chestAdapter
    newChestAdapter = newChestAdapter
    passiveAdapter = passiveAdapter
    Consumers = {"chest", "passive"}
    Pausable = {"chest", "passive", "equipment"}
    ConsumerOf <- Served
    FirstProvider <- First
    Deployments <- OneAtATime
    Words = {word}
    word = word
    NoWord = NoWord
    MaxRequests = 2
    MaxTime = 4
    Buyers = {b1}
    t1 = t1
    Treasuries = {t1, t2}
    FirstTreasury = t1
    Prices = {1, 2}
    Versions = {v1, v2}
    Pools = {q2}
    NoPool = NoPool
    FirstVersion = v1
    v1 = v1
    FirstPool = q1
    q1 = q1
    FirstPrice = 1
    NoChest = NoChest
    NoItem = NoItem
    Funds = 2
    Timeout = 4
    MaxBatch = 2
    Wallets = {w1, w2}
    FirstOwner = w1
    w1 = w1
    Miners = {m1}
    NoMiner = NoMiner
    NotPaid = NotPaid
    RateOf <- Rates
    TokenUnit = 1
    HourLength = 1
    DayLength = 2
    ActivityWindow = 2
    CatchUpDelay = 1
INVARIANTS
    EscrowMatchesRequests
    PayoutIsEarned
PROPERTIES
    OwedStands
    ChestsEnd
    EarningsArrive
