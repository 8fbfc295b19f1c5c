CONSTANTS
    Latency = 2
    Period = 4
    SemLimit = 2
    EarlyPress = FALSE
    ChargerEvents = TRUE
    BusFails = FALSE
    LockFails = FALSE
SPECIFICATION FairSpec
PROPERTIES
    EveryLongPressKills
