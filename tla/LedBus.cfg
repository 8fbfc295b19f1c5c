CONSTANTS
    Boards = {"led_test"}
    MaxFaults = 0
    MaxConn = 1
    Readings = {3450}
SPECIFICATION Spec
INVARIANT
    BusGivenAway
CHECK_DEADLOCK FALSE
