SPECIFICATION FairSpec
CONSTANTS
  Byte = {b1}
  Foreign = foreign
  CmdBufferSize = 1
  PkOverlay = 1
  SeekOverlay = {1}
  SyscallFaults = {5}
INVARIANTS
  TypeOK
  CommandIsServed
PROPERTIES
  ImplementsService
  SignedIsReviewed
  ContentIsSeenBeforeSigning
  StakingIsCompleteWhenSigned
  EveryCommandIsAnswered
