SPECIFICATION Spec
CONSTANTS
  Device = {a, b}
  Initiators = {a, b}
  Faults = {"random", "derive"}
  Noise = {"bundle"}
  Rollback = TRUE
  NumPreKeys = 1
  IdMax = 3
  OneByteMax = 3
  HeartbeatAt = 2
  Callbacks = "limit"
  MaxSkip = 1
  MaxSend = 2
  MaxMade = 2
  MaxSigned = 3
INVARIANTS
  PreKeyMessageOpens
  UsedIdIsOwn
CHECK_DEADLOCK FALSE
