SPECIFICATION MCFairSpec
CONSTANTS
    DEPTH = 2
    Line = {"a", "b"}
    MaxTime = 12
    HostOps <- EnableFirst
    Event <- MCEvent
INVARIANT HandoverSound
PROPERTIES
    SafeEmptiesPipeline
    ImplementsService
    QueuedIsDispatched
