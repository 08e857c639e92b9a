SPECIFICATION FairCanSpec
CONSTANTS
  MaxSteps = 5
  MaxFrames = 2
  MaxQueue = 1
  Remaps = {"csp"}
  Timeout = TRUE
INVARIANTS ReportIsReal EnableFromAnywhere PdoNeverTorn PdoDecodesAsConfigured
PROPERTY CanMethodReturns
CHECK_DEADLOCK FALSE
