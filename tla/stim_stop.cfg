SPECIFICATION MCSpec
CONSTANTS
    Half = 6
    MinTransition = 3
    MaxStep = 1
    MaxRx = 1
    Default = 3
    Requests <- StopRequests
    Stops = {"FORCE_SAFE", "ABZ_STOP", "HALL_STOP"}
INVARIANT StoppedStaysSilent
