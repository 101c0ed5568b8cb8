SPECIFICATION LateOrNotStarted
CONSTANTS
    None = None
    U64Max = 90
    SecondsPerEra = 5
    Genesis <- LateGenesis
    StartTime = 0
    Gaps = {2, 17}
    MaxTime = 80
INVARIANTS NothingWraps EraNeverAhead
PROPERTIES EraCatchesUp
