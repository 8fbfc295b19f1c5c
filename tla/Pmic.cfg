CONSTANTS
    Readings = {0, 8, 9, 114, 1421}
    MaxFaults = 2
SPECIFICATION Spec
INVARIANTS
    ConfigApplied
    WatchdogFollows
    MuxReturned
    DischargePercent
PROPERTIES
    EnabledAtVoltage
