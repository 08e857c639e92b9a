SPECIFICATION MCSpec
CONSTANTS
    Capacity = 2
    Retries = 1
    MaxOps = 5
    RingLimits = {0, 1, 2}
INVARIANTS BlockSound SummaryAtomic WindowFaithful
