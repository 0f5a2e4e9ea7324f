SPECIFICATION TopicSpec
CONSTANTS
    k1 = k1
    c1 = c1
    c2 = c2
    east = east
    NoWatch = NoWatch
    NoSync = NoSync
    Keys <- MCOneKey
    Callers <- MCCallers
    Clusters <- MCClusters
    ClusterOf <- MCClusterOf
    MaxWatches = 1
    MaxSeq = 4
    Pages = 2
    MaxPanicRestarts = 2
    Released <- MCClusters
INVARIANTS
    ReplayHoldsTheList
CHECK_DEADLOCK FALSE
