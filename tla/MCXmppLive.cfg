SPECIFICATION EspSpec
CONSTANTS
  OptSets = {{}}
  Offers = {{"STARTTLS", "SCRAMSHA1", "PLAIN"}}
  Sizes = {2}
  OutSize = 2
  InCap = 12
  OutCap = 8
  Survives = {"EPASS", "ESKIP"}
  ServerMay = {"iqerror"}
  AppMay = {}
  MaxFrom = 0
  MaxTo = 2
  MaxRetry = 1
INVARIANTS StationPersists
PROPERTIES NegotiationEnds AckArrives
CHECK_DEADLOCK FALSE
