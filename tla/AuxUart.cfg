SPECIFICATION Spec
CONSTANTS
    FifoSize = 3
    QueueLen = 2
    Speeds = {"low", "high"}
INVARIANTS
    TypeOK
    NothingStranded
    SettingTakesEffect
