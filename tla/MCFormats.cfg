CONSTANTS
  KeyLen = 32
  Width = 30
  Wraps = TRUE
  Numbers = {0, 127, 128, 16383, 16384, 2097152, 268435455, 268435456, 1073741823}
  KeySizes = {0, 1, 15, 16, 31, 32, 33, 47, 48}
  PayloadSizes = {0, 1, 15, 16, 17, 32, 40}
SPECIFICATION Spec
INVARIANTS
  MessageRoundTrip PreKeyRoundTrip BuffersHold
  SessionRoundTrip StoreRoundTrip
CHECK_DEADLOCK FALSE
