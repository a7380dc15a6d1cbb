SPECIFICATION Spec
CONSTANTS
  InPorts <- MCNoPorts
  OutPorts <- MCNoPorts
  RetryCount = 2
  MaxCalls = 2
  Calls = {"ACTIVATE", "EXECUTE"}
  Faults = {"late"}
INVARIANT ExecutesOncePerCall
CHECK_DEADLOCK FALSE
