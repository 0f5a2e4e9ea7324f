SPECIFICATION ResyncSpec
CONSTANTS
    MaxReruns = 3
    MaxDrops = 3
    MaxOpens = 2
    LateClose = TRUE
INVARIANTS
    NoSilentGap
CHECK_DEADLOCK FALSE
