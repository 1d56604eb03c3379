CONSTANTS
    NumEntries = 4
    FrameSize = 2
    NoReport = 99
    NoCluster = 99
    Entry <- MCEntry
    Cluster <- MCCluster
    Data <- MCData
    Tables <- MCTables
SPECIFICATION FairSpec
INVARIANTS
    OnePassEffect
    EachDueSentOnce
PROPERTIES
    Returns
