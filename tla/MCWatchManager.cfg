SPECIFICATION Spec
CONSTANTS
    k1 = k1
    k2 = k2
    k3 = k3
    c1 = c1
    c2 = c2
    east = east
    west = west
    NoWatch = NoWatch
    Keys <- MCKeys
    Callers <- MCCallers
    Clusters <- MCClusters
    ClusterOf <- MCClusterOf
    MaxWatches = 2
    MaxSeq = 5
SYMMETRY Symmetry
INVARIANTS
    WatchesAreKept
PROPERTIES
    EvictionIsLRU
    ImplementsLease
