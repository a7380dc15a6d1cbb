SPECIFICATION Spec
CONSTANTS
  M = 7
  Start = 2
  Packets <- MCPackets
  MaxPackets = 3
  MaxFaults = 2
INVARIANT TypeOK
PROPERTY ImplementsLink
CHECK_DEADLOCK FALSE
