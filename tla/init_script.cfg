SPECIFICATION ScriptSpec
CONSTANTS
    root = root
    operator = ov
    ov = ov
    u1 = u1
    u2 = u2
    Account = {root, ov, u1}
    RaceType = {"Cyborg"}
    CareerType = {"RoboWarrior"}
    None = None
    U32Max = 2
    ExistentialDeposit = 1
    InitialFree <- ScriptInitialFree
    TransferAmounts = {}
    MaxCollections = 5
    CollectionCreators = {u1}
    Burners = {}
    MinBalanceToClaimSpirit = 9
    PrimeOriginOfShellPrice = 2
    MagicOriginOfShellPrice = 3
    LegendaryOriginOfShellPrice = 4
    IterLimit = 1
    InitialStock <- MCInitialStock
    Genesis <- EmptyGenesis
    Tickets = {}
    OverlordCandidates = {}
    AdminStatus = {}
    UpdateCounts = {}
    MaxBatch = 1
    FoodPerEra = 0
    MaxFoodFeedSelf = 1
    IncubationDurationSec = 0
    Reductions = {}
    AwakenedCollections = {}
    U64Max = 1
    SecondsPerEra = 1
    ClockGenesis <- NoClock
    StartTime = 1
    Gaps = {}
    MaxTime = 1
    PreparedFunds = 6
    CollectionDeposit = 2
    MaxRuns = 2
    MaxOtherTx = 1
INVARIANTS FinishedMeansSetUp
PROPERTIES EndsUnlessOvertaken
CHECK_DEADLOCK FALSE
