SPECIFICATION Spec
CONSTANTS
  ScrolledFlows = {"create"}
  NameLengths = {20}
  AmountLengths = {20}
  TextLengths = {40}
  KeyCounts = {10}
INVARIANT WindowInString
CHECK_DEADLOCK FALSE
