CONSTANTS
    main = main
    app = app
    pwr = pwr
    none = none
    Clients <- OneClient
    Main <- main
    PwrThread <- pwr
    NoThread <- none
    NumRails = 1
    Samples = 1
    LockTries = 1
    MaxFaults = 0
    AppRails <- MCAppRails
    Gap9Values <- OnOff
SPECIFICATION Spec
INVARIANT
    Gap9Agrees
