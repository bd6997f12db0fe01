SPECIFICATION Spec
CONSTANTS
  Byte = {b1}
  Foreign = foreign
  CmdBufferSize = 1
  PkOverlay = 1
  SyscallFaults = {5}
INVARIANT IdleWhenAnswered
