SPECIFICATION Spec
CONSTANTS
  Documents <- MCDocuments
  MAX_BLS_ADDRESS = 2
  MAX_SIG_ADDRESS = 3
INVARIANTS
  NothingIsMistaken
  OnlyTheLastIsShort
  WholeIsAccepted
PROPERTIES
  Returns
CHECK_DEADLOCK FALSE
