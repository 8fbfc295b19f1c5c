CONSTANTS
    main = main
    app = app
    pwr = pwr
    none = none
    Clients <- MCClients
    Main <- main
    PwrThread <- pwr
    NoThread <- none
    NumRails = 2
    Samples = 2
    LockTries = 2
    MaxFaults = 1
    AppRails <- MCAppRails
    Gap9Values <- OnOnly
SPECIFICATION Spec
INVARIANTS
    TypeOK
    PmicExclusive
    RebootSafe
    BatterySource
    Gap9Agrees
PROPERTY
    OnlyOwnerUnlocks
