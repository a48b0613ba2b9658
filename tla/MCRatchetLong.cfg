SPECIFICATION Spec
CONSTANTS
  Device = {a, b}
  Initiators = {a}
  Faults = {}
  Noise = {}
  Rollback = TRUE
  NumPreKeys = 1
  IdMax = 3
  OneByteMax = 3
  HeartbeatAt = 2
  Callbacks = "array"
  MaxSkip = 2
  MaxSend = 4
  MaxMade = 1
  MaxSigned = 1
INVARIANTS
  KeysNeverReused
  ChainAgreement
  HeartbeatsAnswered
PROPERTIES
  ImplementsChannel
CHECK_DEADLOCK FALSE
