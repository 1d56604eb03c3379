CONSTANTS
    Pressure = {p1, p2}
    UnknownPressure = unknown
    DefaultPressure = default
    Correction <- MCCorrection
    Garbage <- MCGarbage
SPECIFICATION Scd4xSpec
INVARIANTS
    NeverNullCall
