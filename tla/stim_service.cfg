SPECIFICATION MCFairSpec
CONSTANTS
    Half = 8
    MinTransition = 3
    MaxStep = 1
    MaxRx = 2
    Default = 3
    Requests <- ServeRequests
    Stops = {"FORCE_SAFE", "ABZ_STOP"}
INVARIANTS NoLostWakeup StoppedStaysSilent
PROPERTIES RequestServed ArmedFires
