SPECIFICATION Spec
CONSTANTS
    ov = ov
    u1 = u1
    u2 = u2
    Account = {ov, u1, u2}
    RaceType = {"Cyborg", "Pandroid"}
    CareerType = {"RoboWarrior"}
    None = None
    U32Max = 4
    ExistentialDeposit = 1
    InitialFree <- PoorInitialFree
    TransferAmounts = {}
    MaxCollections = 2
    CollectionCreators = {}
    Burners = {}
    MinBalanceToClaimSpirit = 3
    PrimeOriginOfShellPrice = 2
    MagicOriginOfShellPrice = 3
    LegendaryOriginOfShellPrice = 4
    IterLimit = 2
    InitialStock <- NoGiftsInitialStock
    Genesis <- SaleGenesis
    Tickets <- MCTickets
    OverlordCandidates = {}
    AdminStatus = {}
    UpdateCounts = {}
    MaxBatch = 3
INVARIANTS OnePreorderEachBeforeLastDay TwoShellsAtMostBeforeLastDay CountersMatchMints FundsConserved
PROPERTIES PreorderSettlement PreorderIdsAreFresh
CHECK_DEADLOCK FALSE
