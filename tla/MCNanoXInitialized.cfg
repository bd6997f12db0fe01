SPECIFICATION Spec
CONSTANTS
  Byte = {b1, b2}
  Foreign = foreign
  CmdBufferSize = 1
  PkOverlay = 1
  SyscallFaults = {}
PROPERTY ContinuationNeedsInitialized
