CONSTANTS
    Entry <- MCEntry
    Cluster <- TwoClusters
    Default <- OneFree
    Configs <- HubConfigs
    Values = {0, 1}
    InitValue = 0
    Erased = 9
    NoReport = 99
    NoTable = NoTable
    NotUsed = NotUsed
    Environment = {"gate"}
    Cap = 4
VIEW WithoutNv
SPECIFICATION Spec
INVARIANTS
    TypeOK
    TimerCoversCounters
    MaxIntervalKept
    MinIntervalKept
    ChangeLatencyBounded
