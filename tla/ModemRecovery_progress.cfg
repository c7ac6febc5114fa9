SPECIFICATION FairSpec
CONSTANTS
  s1 = s1
  s2 = s2
  Slots = {s1}
  Action = "power_cycle"
  Limit = 1
  Threshold = 1
  GoodNeeded = 1
  Cooldown = 1
  Verify = 1
  Grace = 0
  Hour = 0
  MaxCycles = 0
  RxErrors = FALSE
  Faults = FALSE
  Kills = TRUE
  Admin = TRUE
  Manual = FALSE
PROPERTIES PulseRestored Escalates
