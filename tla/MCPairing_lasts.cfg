CONSTANTS
    HoldTime = 1
    Window = 4
    RedTime = 5
    GreenTime = 1
    FindBindDelay = 1
    FindBindTime = 5
    Delays <- MCDelays
    Identifies <- MCIdentifies
    MaxPresses = 3
    MaxFindBinds = 0
    MaxIdentify = 1
SPECIFICATION FairSpec
PROPERTIES
    WindowLasts
