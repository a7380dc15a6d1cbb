SPECIFICATION FairSpec
CONSTANTS
  Clients = 2
  Width = 3
  MaxUp = 4
  MaxDown = 3
INVARIANTS TypeOK UpInOrder DownIsFresh
PROPERTY WaitingIsServed
CHECK_DEADLOCK FALSE
