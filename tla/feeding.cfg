SPECIFICATION Spec
CONSTANTS
    ov = ov
    a1 = a1
    a2 = a2
    Account = {ov, a1}
    RaceType = {"Cyborg"}
    CareerType = {"RoboWarrior"}
    None = None
    U32Max = 2
    MaxCollections = 2
    CollectionCreators = {}
    Burners = {}
    FoodPerEra = 3
    MaxFoodFeedSelf = 2
    IncubationDurationSec = 2
    U64Max = 4
    SecondsPerEra = 2
    ClockGenesis <- RunningClock
    StartTime = 0
    Gaps = {2, 4}
    MaxTime = 4
    Overlord = ov
    ShellCollection = 0
    OverlordCandidates = {}
    Sales <- PrimeShells
    Reductions = {}
    AwakenedCollections = {}
INVARIANTS FoodStatsMatchFeeders FoodWithinLimits
PROPERTIES PastErasFixed
