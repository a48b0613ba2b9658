CONSTANTS
  Im = im
  Peer = peer
  Device = {im, peer}
  IdMax = 3
  OneByteMax = 3
  NumPreKeys = 1
  HeartbeatAt = 2
  MaxSkip = 1
  Callbacks = "refuse"
  Builds = {"zero", "load"}
  FirstIds = {0, 1}
  Faults = {"random", "crypto", "load"}
  MaxSend = 2
  MaxCommands = 1
  MaxTrouble = 1
SPECIFICATION Spec
INVARIANTS KeysNeverReused ShownOnce NextOpens CrossedIsDeaf
PROPERTIES RequestsEnd
CHECK_DEADLOCK FALSE
