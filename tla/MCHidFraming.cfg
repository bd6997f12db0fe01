SPECIFICATION Spec
CONSTANTS
  Room = 7
  Kinds = {"version", "address", "sign"}
  Exact = {"version"}
  Size <- MCSize
  Packets <- MCPackets
  Content <- MCContent
  MaxExchanges = 4
  MaxLost = 1
INVARIANTS
  ReturnedIsOneReply
PROPERTIES
  ExchangeEnds
CHECK_DEADLOCK FALSE
