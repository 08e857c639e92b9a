SPECIFICATION MCSpec
CONSTANTS
    Capacity = 2
    Retries = 1
    MaxOps = 4
    RingLimits = {0}
INVARIANT SummaryConsistent
