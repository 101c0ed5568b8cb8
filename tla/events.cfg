SPECIFICATION Spec
CONSTANTS
    Account = {}
    RaceType = {}
    CareerType = {}
    None = None
    U32Max = 1
INVARIANTS EventsTellStatus
