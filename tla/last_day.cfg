SPECIFICATION Spec
CONSTANTS
    ov = ov
    u1 = u1
    u2 = u2
    Account = {ov, u1, u2}
    RaceType = {"Cyborg"}
    CareerType = {"RoboWarrior"}
    None = None
    U32Max = 2
    ExistentialDeposit = 1
    InitialFree <- MCInitialFree
    TransferAmounts = {4}
    MaxCollections = 2
    CollectionCreators = {}
    Burners = {}
    MinBalanceToClaimSpirit = 3
    PrimeOriginOfShellPrice = 2
    MagicOriginOfShellPrice = 3
    LegendaryOriginOfShellPrice = 4
    IterLimit = 2
    InitialStock <- MCInitialStock
    Genesis <- SaleGenesis
    Tickets <- MCTickets
    OverlordCandidates = {u1, ov}
    AdminStatus = {"LastDayOfSale"}
    UpdateCounts = {}
    MaxBatch = 3
INVARIANTS EscrowMatchesPreorders
PROPERTIES ShellsArePaidFor ImplementsEscrow
CHECK_DEADLOCK FALSE
