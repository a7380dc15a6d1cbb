SPECIFICATION Spec
CONSTANTS
  N = 4
  MaxBytes = 5
  Threads = {first, second}
INVARIANT PushedIsStored
CHECK_DEADLOCK FALSE
