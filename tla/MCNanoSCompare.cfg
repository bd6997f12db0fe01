SPECIFICATION Spec
CONSTANTS
  Byte = {b1}
  Foreign = foreign
  CmdBufferSize = 1
  PkOverlay = 1
  SeekOverlay = {1}
  SyscallFaults = {}
INVARIANT ComparesTheAddress
