SPECIFICATION Spec
CONSTANTS
  Components <- MCLong
  Words <- MCWords
  Number <- MCNumber
  Letter <- MCLetter
  Texts <- MCTexts
  Modes = {"whole", "interactive", "once"}
  Kinds = {"tcp", "serial"}
  Calls = {"ACTIVATE"}
  MaxOpens = 1
  MaxCommands = 1
INVARIANT NeverAborts
CHECK_DEADLOCK FALSE
