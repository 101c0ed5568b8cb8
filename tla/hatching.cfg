SPECIFICATION Spec
CONSTANTS
    ov = ov
    a1 = a1
    a2 = a2
    Account = {ov, a1, a2}
    RaceType = {"Cyborg"}
    CareerType = {"RoboWarrior"}
    None = None
    U32Max = 2
    MaxCollections = 2
    CollectionCreators = {}
    Burners = {a1}
    FoodPerEra = 0
    MaxFoodFeedSelf = 2
    IncubationDurationSec = 1
    U64Max = 4
    SecondsPerEra = 2
    ClockGenesis <- RunningClock
    StartTime = 0
    Gaps = {1, 2}
    MaxTime = 4
    Overlord = ov
    ShellCollection = 0
    OverlordCandidates = {ov, a1}
    Sales <- TwoKinds
    Reductions = {2}
    AwakenedCollections = {0, 1}
INVARIANTS TypeOK HatchByOfficialTime AwakenedOnce
PROPERTIES NoShellLost HatchTimesOnlyFall HatchTimeComes
