CONSTANTS
    led = led
    ledDebug = ledDebug
    Devices = {led, ledDebug}
    Devicetrees <- MCDevicetrees
    MaxFaults = 1
    MaxRestarts = 1
SPECIFICATION Spec
INVARIANTS
    WholeColors
    ReadyMeansConfigured
    EndsDark
PROPERTY
    PressShown
