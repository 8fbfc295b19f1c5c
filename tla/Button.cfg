CONSTANTS
    Latency = 2
    Period = 4
    SemLimit = 2
    EarlyPress = TRUE
    ChargerEvents = TRUE
    BusFails = TRUE
    LockFails = TRUE
SPECIFICATION FairSpec
INVARIANTS
    NoLostWakeup
PROPERTIES
    OnlyLongPressKills
    LongPressKills
    FlagsCleared
