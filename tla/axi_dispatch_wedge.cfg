SPECIFICATION MCFairSpec
CONSTANTS
    DEPTH = 2
    Line = {"a", "b"}
    MaxTime = 12
    HostOps <- AllHostOps
    Event <- MCEvent
PROPERTY ActiveQueueMoves
