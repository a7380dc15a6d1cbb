SPECIFICATION FairSpec
CONSTANTS
  InPorts <- MCTwoInPorts
  OutPorts <- MCOutPorts
  RetryCount = 2
  MaxCalls = 2
  Calls = {"GET_STATE", "GET_CONTEXT_TYPE", "GET_PROFILE", "ACTIVATE", "DEACTIVATE", "EXECUTE", "SEND_DATA", "RECEIVE_DATA"}
  Faults = {"late", "damaged", "lost"}
INVARIANTS TypeOK StalenessBounded BacklogBounded ProfileIsSuffix
PROPERTIES CallReturns AtomicWhenTimely
CHECK_DEADLOCK FALSE
