CONSTANTS
    Gas = {co2, voc}
    Lowest <- MCLowest
    Highest <- MCHighest
    Value <- MCValue
    Reading <- MCReading
    Flag = {rotate}
    Absent = 99
    Empty = empty
    Environment = {"leave", "restart", "lose"}
SYMMETRY Symmetry
SPECIFICATION AirSpec
INVARIANTS
    LowBelowHigh
    NothingUnsaved
    ThresholdsShown
    RelayFollowsAir
PROPERTIES
    ControlImplemented
    NoChatter
