CONSTANTS
    Boards = {"bme688", "scan", "camera", "led_test", "debug_test",
              "pmic_test", "ble_bootloader"}
    MaxFaults = 2
    MaxConn = 2
    Readings = {100, 3450, 4210}
SPECIFICATION Spec
INVARIANTS
    SensorBusPowered
    RunningMeansPowered
    LevelConsistent
    MeanOfAccepted
PROPERTIES
    Reachable
    Retried
CHECK_DEADLOCK FALSE
