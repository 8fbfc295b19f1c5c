CONSTANTS
    Threads = {t1, t2}
    Low = {p1}
    High = {p2}
    MaxFaults = 2
SPECIFICATION Spec
INVARIANTS
    TypeOK
    ChipFollowsDriver
PROPERTIES
    NoLostUpdate
    NoGlitch
    LevelBeforeDrive
    AtomicCalls
