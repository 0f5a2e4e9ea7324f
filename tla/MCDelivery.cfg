SPECIFICATION MCSpec
CONSTANTS
    Machines = {"pass", "resync", "health", "subscription", "batcher"}
    Threads = {t1, t2, t3}
    MaxCalls = 5
    MaxPasses = 10
    Nobody = Nobody
    MaxReruns = 3
    MaxDrops = 6
    MaxOpens = 3
    LateClose = FALSE
    Conns = {c1}
    MaxMessages = 5
    Closes = TRUE
    Overlaps = FALSE
    o1 = o1
    o2 = o2
    NoFlusher = NoFlusher
    Objects = {o1, o2}
    Unkeyed = {o2}
    Holders = {h1}
    Flushers = {f1, f2}
    Size <- MCSize
    MaxBatch = 2
    Budget = 1
    MaxEvents = 2
    MaxBatches = 2
INVARIANTS
    PassesAreSound
    
    ChangeIsTold
    
    BatcherIsSound
PROPERTIES
    ImplementsSnapshotPass
    
CHECK_DEADLOCK FALSE
