SPECIFICATION LoopsFromSale
CONSTANTS
    ov = ov
    u1 = u1
    u2 = u2
    Account = {ov, u1}
    RaceType = {"Cyborg"}
    CareerType = {"RoboWarrior"}
    None = None
    U32Max = 3
    ExistentialDeposit = 1
    InitialFree <- LoopInitialFree
    TransferAmounts = {}
    MaxCollections = 2
    CollectionCreators = {}
    Burners = {u1}
    MinBalanceToClaimSpirit = 9
    PrimeOriginOfShellPrice = 2
    MagicOriginOfShellPrice = 3
    LegendaryOriginOfShellPrice = 4
    IterLimit = 2
    InitialStock <- NoGiftsInitialStock
    Genesis <- SaleGenesis
    Tickets = {}
    OverlordCandidates = {}
    AdminStatus = {"LastDayOfSale"}
    UpdateCounts = {}
    MaxBatch = 3
INVARIANTS FailsOnlyIfRefused
PROPERTIES ImplementsSettlement
CHECK_DEADLOCK FALSE
