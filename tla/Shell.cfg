SPECIFICATION FairSpec
CONSTANTS
  Components <- MCUnlike
  Words <- MCWords
  Number <- MCNumber
  Letter <- MCLetter
  Texts <- MCTexts
  Modes = {"whole", "interactive", "once"}
  Kinds = {"tcp", "serial"}
  Calls = {"ACTIVATE"}
  MaxOpens = 2
  MaxCommands = 2
INVARIANTS TypeOK ProtocolMatchesDevice ForeignOnlyFromDropped ScalarInjectIsKept
PROPERTY EndOfInputEnds
CHECK_DEADLOCK FALSE
