SPECIFICATION Spec
CONSTANTS
  N = 4
  MaxBytes = 9
  Forever = {}
  InOrderStores = TRUE
INVARIANT OnlyArrivedIsRead
CHECK_DEADLOCK FALSE
