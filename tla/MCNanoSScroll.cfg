SPECIFICATION Spec
CONSTANTS
  ScrolledFlows = {"address", "tx", "create", "edit", "delegate", "collect"}
  NameLengths = {5, 12, 13, 30}
  AmountLengths = {13, 20, 78}
  TextLengths = {6, 12, 20, 132}
  KeyCounts = {1, 10, 11}
INVARIANTS
  AddressesAndAmountsStayInWindow
  NothingIsOutOfReach
  WindowInRoom
CHECK_DEADLOCK FALSE
