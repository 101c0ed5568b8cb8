SPECIFICATION WorldFromSale
CONSTANTS
    ov = ov
    u1 = u1
    u2 = u2
    Account = {ov, u1}
    RaceType = {"Cyborg"}
    CareerType = {"RoboWarrior"}
    None = None
    U32Max = 2
    ExistentialDeposit = 1
    InitialFree <- WorldInitialFree
    TransferAmounts = {}
    MaxCollections = 3
    CollectionCreators = {}
    Burners = {u1}
    MinBalanceToClaimSpirit = 9
    PrimeOriginOfShellPrice = 2
    MagicOriginOfShellPrice = 3
    LegendaryOriginOfShellPrice = 4
    IterLimit = 2
    InitialStock <- OneOfEach
    Genesis <- WorldGenesis
    Tickets = {}
    OverlordCandidates = {u1}
    AdminStatus = {}
    UpdateCounts <- MorePrimes
    MaxBatch = 2
    FoodPerEra = 0
    MaxFoodFeedSelf = 1
    IncubationDurationSec = 1
    Reductions = {}
    AwakenedCollections = {2}
    U64Max = 3
    SecondsPerEra = 2
    ClockGenesis <- NoClock
    StartTime = 0
    Gaps = {1, 2}
    MaxTime = 3
INVARIANTS WorldTypeOK RareSupplyCapped RareShellsCapped EraExact
PROPERTIES ImplementsIncubation
