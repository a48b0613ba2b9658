SPECIFICATION Spec
CONSTANTS
  NumPreKeys = 2
  IdMax = 3
  OneByteMax = 2
  MaxKeys = 6
  MaxBoot = 3
INVARIANTS
  TypeOK
  IdsDistinct
  OfferNamesItsKey
  SignedPreKeyRetained
  WholeOrNothing
PROPERTIES
  LivePreKeysKept
CHECK_DEADLOCK FALSE
