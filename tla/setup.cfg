SPECIFICATION Spec
CONSTANTS
    ov = ov
    u1 = u1
    u2 = u2
    Account = {ov, u1, u2}
    RaceType = {"Cyborg"}
    CareerType = {"RoboWarrior"}
    None = None
    U32Max = 3
    ExistentialDeposit = 1
    InitialFree <- MCInitialFree
    TransferAmounts = {}
    MaxCollections = 2
    CollectionCreators = {u2}
    Burners = {u2}
    MinBalanceToClaimSpirit = 3
    PrimeOriginOfShellPrice = 2
    MagicOriginOfShellPrice = 3
    LegendaryOriginOfShellPrice = 4
    IterLimit = 1
    InitialStock <- MCInitialStock
    Genesis <- EmptyGenesis
    Tickets <- MCTickets
    OverlordCandidates = {ov}
    AdminStatus = {"ClaimSpirits", "PreorderOriginOfShells"}
    UpdateCounts = {}
    MaxBatch = 2
INVARIANTS CountersMatchMints EscrowMatchesPreorders OneSpiritEach
CHECK_DEADLOCK FALSE
