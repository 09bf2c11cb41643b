SPECIFICATION Spec
CONSTANTS
    DevCount = 3
    ArmIrLength = 2
    IrLengths = {2, 3}
    DataBits = 2
    IdleCycles = {0, 1}
    Chains <- MCChains
INVARIANTS
    TypeOK
    Positions
    ScanReachesDevice
    OthersBypassed
    CacheHonest
    EndsIdle
