SPECIFICATION Spec
CONSTANTS
  Clients = 1
  Width = 3
  MaxUp = 4
  MaxDown = 1
PROPERTY AllIsWritten
CHECK_DEADLOCK FALSE
