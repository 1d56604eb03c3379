CONSTANTS
    Readings <- MCReadings
    Blank = blank
    ClearTime <- MCClearTime
    MaxBusy = 1
    MaxTasks = 1
    MaxOrphans = 1
SPECIFICATION ScreenFairSpec
INVARIANTS
    NeverWithoutTimer
    OneCleaning
PROPERTIES
    ReadingsShown
