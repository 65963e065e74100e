CONSTANTS
    armor = armor  pack = pack  map = map  deep = deep  vault = vault
    Slots = {"Armor", "Backpack"}  Armor = "Armor"  Backpack = "Backpack"
    SlotOf <- SlotsOf  Terms <- VersionTerms
    NoItem = NoItem  NoMiner = NoMiner
    Unminted = Unminted  Custody = Custody  Burnt = Burnt
    Players = {p1}
    Miners = {m1}
    Items = {pack}
    StandardVersions = {}
    EndlessVersions = {deep, vault}
    PhaseXpChoices = {1}
    Finds = {0, 3}
    Digests = {d1}
    Extracts = {1}
    Pausable = {"endless"}
    MaxPhases = 2
    BaseCarry = 2
    PackBonus = 1
    LowRetention = 1
    HighRetention = 2
    Bps = 2
    TopXp = 2
    ActivityWindow = 1
    LimitChoices <- TwoLimits
    DayLength = 2
    MaxNonce = 2
    MaxTime = 2
SPECIFICATION LiveSpec
INVARIANTS
    BankMatchesRuns
    EndlessDailyCaps
PROPERTIES
    MinersGetOut
CHECK_DEADLOCK FALSE
