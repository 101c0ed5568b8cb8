SPECIFICATION Spec
CONSTANTS
    ov = ov
    a1 = a1
    a2 = a2
    Account = {ov, a1, a2}
    RaceType = {"Cyborg"}
    CareerType = {"RoboWarrior"}
    None = None
    U32Max = 2
    MaxCollections = 2
    CollectionCreators = {}
    Burners = {a1}
    FoodPerEra = 3
    MaxFoodFeedSelf = 2
    IncubationDurationSec = 3
    U64Max = 5
    SecondsPerEra = 2
    ClockGenesis <- RunningClock
    StartTime = 0
    Gaps = {1, 2}
    MaxTime = 5
    Overlord = ov
    ShellCollection = 0
    OverlordCandidates = {}
    Sales <- PrimeShells
    Reductions = {}
    AwakenedCollections = {}
PROPERTIES OnlyLiveShellsFed
