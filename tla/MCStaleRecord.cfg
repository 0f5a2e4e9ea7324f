SPECIFICATION SubscriptionSpec
CONSTANTS
    Conns = {c1}
    MaxMessages = 3
    Closes = TRUE
    Overlaps = TRUE
INVARIANTS
    NoLeakedRef
CHECK_DEADLOCK FALSE
