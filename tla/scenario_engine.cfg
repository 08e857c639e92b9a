SPECIFICATION MCSpec
CONSTANTS
    DEPTH = 3
    Line = {"a", "b"}
    SafeValue = {"b"}
    MaxTime = 6
    Event <- MCEvent
INVARIANTS
    QueueInv
    TimelineSound
    SafeIsFinal
PROPERTIES
    ImplementsFifo
    ServesItsInputs
    ReorderIsReported
    EngineImplementsService
