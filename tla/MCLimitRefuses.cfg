SPECIFICATION Spec
CONSTANTS
  Device = {a, b}
  Initiators = {a}
  Faults = {}
  Noise = {}
  Rollback = TRUE
  NumPreKeys = 1
  IdMax = 3
  OneByteMax = 3
  HeartbeatAt = 2
  Callbacks = "limit"
  MaxSkip = 3
  MaxSend = 3
  MaxMade = 1
  MaxSigned = 1
INVARIANTS
  WithinLimitNotRefused
CHECK_DEADLOCK FALSE
