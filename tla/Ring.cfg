SPECIFICATION FairSpec
CONSTANTS
  N = 4
  MaxBytes = 9
  Forever = {2}
  InOrderStores = FALSE
INVARIANTS TypeOK SizeIsStored SizeIsCongruent NothingUnarrived InOrder
PROPERTIES NeverShort ImplementsFifo ArrivedIsRead
CHECK_DEADLOCK FALSE
