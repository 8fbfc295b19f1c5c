CONSTANTS
    main = main
    app = app
    pwr = pwr
    none = none
    Clients <- OneClient
    Main <- main
    PwrThread <- pwr
    NoThread <- none
    NumRails = 1
    Samples = 1
    LockTries = 2
    MaxFaults = 1
    AppRails <- MCAppRails
    Gap9Values <- OnOff
SPECIFICATION FairSpec
PROPERTIES
    MutexReleased
    KillReboots
    ResetOncePerPress
    PressResets
