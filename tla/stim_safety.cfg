SPECIFICATION MCSpec
CONSTANTS
    Half = 4
    MinTransition = 3
    MaxStep = 1
    MaxRx = 1
    Default = 3
    Requests <- SafetyRequests
    Stops = {"FORCE_SAFE", "ABZ_STOP"}
INVARIANTS OneOwner OutputsMatchState ArmedOnTime
PROPERTIES GrayMotion NoBurst
