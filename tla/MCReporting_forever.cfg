CONSTANTS
    Entry <- MCEntry
    Cluster <- TwoClusters
    Default <- BothUsed
    Configs <- OneConfig
    Values = {0}
    InitValue = 0
    Erased = 9
    NoReport = 99
    NoTable = NoTable
    NotUsed = NotUsed
    Environment = {"bind", "restart"}
    Cap = 5
SPECIFICATION FairSpec
PROPERTIES
    ReportedForever
