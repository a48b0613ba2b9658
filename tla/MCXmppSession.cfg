SPECIFICATION Spec
CONSTANTS
  OptSets = {{}, {"ALLOWUNENCRYPTED"}, {"FORCEUNENCRYPTED"}, {"FORCESCRAM"}, {"FORCEPLAIN"},
             {"ALLOWUNENCRYPTED", "ALLOWUNENCRYPTEDPLAIN"}, {"FORCEUNENCRYPTED", "ALLOWUNENCRYPTEDPLAIN"},
             {"ALLOWUNENCRYPTED", "FORCEPLAIN"}, {"FORCESCRAM", "DISABLESMACKS"}}
  Offers = {{"STARTTLS", "SCRAMSHA1", "PLAIN"}, {"STARTTLS", "PLAIN"}, {"SCRAMSHA1"}, {"PLAIN"}, {"STARTTLS"}}
  Sizes = {2}
  OutSize = 1
  InCap = 3
  OutCap = 8
  Survives = {"EPASS", "ESKIP"}
  ServerMay = {"fail", "unsolvable", "nosm"}
  AppMay = {"end"}
  MaxFrom = 1
  MaxTo = 2
INVARIANTS OptionsHonoured CountsAgree ReadyMeansNegotiated
CHECK_DEADLOCK FALSE
