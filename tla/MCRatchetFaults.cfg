SPECIFICATION LiveSpec
CONSTANTS
  Device = {a, b}
  Initiators = {a}
  Faults = {"random", "crypto"}
  Noise = {"mac", "n"}
  Rollback = TRUE
  NumPreKeys = 1
  IdMax = 3
  OneByteMax = 3
  HeartbeatAt = 2
  Callbacks = "array"
  MaxSkip = 1
  MaxSend = 3
  MaxMade = 1
  MaxSigned = 1
INVARIANTS
  TypeOK
  SkippedKeysPending
  NothingLost
  WithinLimitNotRefused
PROPERTIES
  ImplementsLiveChannel
CHECK_DEADLOCK FALSE
