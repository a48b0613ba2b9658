SPECIFICATION Spec
CONSTANTS
  OptSets = {{}}
  Offers = {{"STARTTLS", "SCRAMSHA1", "PLAIN"}}
  Sizes = {2, 4}
  OutSize = 1
  InCap = 3
  OutCap = 8
  Survives = {"EPASS", "ESKIP"}
  ServerMay = {"fail", "nosm", "iqerror", "close"}
  AppMay = {"end", "resume"}
  MaxFrom = 2
  MaxTo = 1
INVARIANTS TypeOK DeliveredInOrder
CHECK_DEADLOCK FALSE
