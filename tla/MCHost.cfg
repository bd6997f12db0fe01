SPECIFICATION HostSpec
CONSTANTS
  b1 = b1
  b2 = b2
  transfer = transfer
  toolong = toolong
  delegation = delegation
  collection = collection
  Byte = {b1, b2}
  Foreign = foreign
  CmdBufferSize = 2
  PkOverlay = 1
  SyscallFaults = {}
  Calls = {transfer, toolong, delegation, collection}
  Kind <- MCKind
  Message <- MCMessage
INVARIANTS
  SignaturesAreOwn
PROPERTIES
  TurnedAwayOnlyByOthers
  EveryCallReturns
