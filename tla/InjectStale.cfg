SPECIFICATION Spec
CONSTANTS
  Components <- MCLong
  Words <- MCWords
  Number <- MCNumber
  Letter <- MCLetter
  Texts <- MCTexts
  Modes = {"whole"}
  Kinds = {"tcp", "serial"}
  Calls = {"ACTIVATE"}
  MaxOpens = 2
  MaxCommands = 2
INVARIANT InjectOkMeansSent
CHECK_DEADLOCK FALSE
