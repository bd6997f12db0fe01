SPECIFICATION FairSpec
CONSTANTS
  Byte = {b1, b2}
  Foreign = foreign
  CmdBufferSize = 1
  PkOverlay = 1
  SyscallFaults = {}
INVARIANTS
  TypeOK
  CommandIsServed
  RepliesOnlyWhenAsked
  AddressIsDelivered
  StatusWordsAreValid
PROPERTIES
  ImplementsService
  SignedIsReviewed
  ContentIsSeenBeforeSigning
  StakingIsCompleteWhenSigned
  EveryCommandIsAnswered
