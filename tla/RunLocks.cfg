CONSTANTS
    armor = armor  pack = pack  map = map  deep = deep  vault = vault
    Slots = {"Armor", "Backpack"}  Armor = "Armor"  Backpack = "Backpack"
    SlotOf <- SlotsOf  Terms <- VersionTerms
    NoItem = NoItem  NoMiner = NoMiner
    Unminted = Unminted  Custody = Custody  Burnt = Burnt
    Players = {p1, p2}
    Miners = {m1}
    Items = {armor, pack}
    StandardVersions = {map}
    EndlessVersions = {deep}
    PhaseXpChoices = {1, 2}
    Finds = {1}
    Digests = {d1}
    Extracts = {}
    Pausable = {}
    MaxPhases = 1
    BaseCarry = 2
    PackBonus = 1
    LowRetention = 1
    HighRetention = 2
    Bps = 2
    TopXp = 2
    ActivityWindow = 1
    LimitChoices <- OneLimit
    DayLength = 2
    MaxNonce = 1
    MaxTime = 1
SPECIFICATION Spec
INVARIANTS
    LockMeansOneRun
    RunSnapshotHolds
    CustodyAgrees
CHECK_DEADLOCK FALSE
