SPECIFICATION Spec
CONSTANTS
  NumPreKeys = 2
  IdMax = 3
  OneByteMax = 2
  MaxKeys = 5
  MaxBoot = 2
INVARIANTS
  SavedStoreLoads
CHECK_DEADLOCK FALSE
