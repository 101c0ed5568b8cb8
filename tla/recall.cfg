SPECIFICATION RecallSpec
CONSTANTS
    ov = ov
    u1 = u1
    u2 = u2
    Account = {ov, u1, u2}
    RaceType = {"Cyborg"}
    CareerType = {"RoboWarrior"}
    None = None
    U32Max = 2
    ExistentialDeposit = 1
    InitialFree <- MCInitialFree
    TransferAmounts = {}
    MaxCollections = 2
    CollectionCreators = {}
    Burners = {}
    MinBalanceToClaimSpirit = 3
    PrimeOriginOfShellPrice = 2
    MagicOriginOfShellPrice = 3
    LegendaryOriginOfShellPrice = 4
    IterLimit = 1
    InitialStock <- MCInitialStock
    Genesis <- SaleGenesis
    Tickets <- MCTickets
    OverlordCandidates = {}
    AdminStatus = {"LastDayOfSale"}
    UpdateCounts = {}
    MaxBatch = 2
INVARIANTS RecallContinues
CHECK_DEADLOCK FALSE
