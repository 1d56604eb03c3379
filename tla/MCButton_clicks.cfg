CONSTANTS
    DEBOUNCE_BUTTON = 3
    Multi = 5
    HoldTime = 9
    MinStay = 2
    MaxTaps = 4
SPECIFICATION ButtonSpec
INVARIANTS
    ResetNeedsHold
    NeverStuck
PROPERTIES
    NoPhantomClick
