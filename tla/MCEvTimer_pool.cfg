CONSTANTS
    led = led
    outdoor = outdoor
    button = button
    page = page
    Slot <- MCSlot
    Restarted <- MCRestarted
    Forgetful <- MCForgetful
    Periodic <- MCPeriodic
    OneShot <- MCOneShot
    Periods <- MCPeriods
    Nobody = Nobody
    NULL = NULL
    MaxBlock = 2
    MaxLost = 1
SPECIFICATION FairSpec
INVARIANTS
    PoolConsistent
    HandlesOwned
PROPERTIES
    ServiceImplemented
    EveryTimerCalled
