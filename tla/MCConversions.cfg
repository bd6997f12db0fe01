SPECIFICATION Spec
CONSTANTS
  WordBits = 4
  Base = 3
  NanoDigits = 2
  BufferSize = 11
  SizeLimit = 11
  Amounts <- MCNumbers
  Rates <- MCNumbers
  AddressBytes <- MCAddressBytes
  KnownAddresses <- MCKnownAddresses
  Size = 6
  TlvSize = 22
  Lengths = {2, 3, 4, 5, 6, 7}
INVARIANTS
  NumbersAreExact
  AmountHasRoom
  DivisionKeepsTheSum
  AddressReadsBack
  AddressIsAgreedOn
  PartsAreInPlace
PROPERTIES
  ConversionReturns
CHECK_DEADLOCK FALSE
