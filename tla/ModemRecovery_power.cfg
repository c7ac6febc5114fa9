SPECIFICATION Spec
CONSTANTS
  s1 = s1
  s2 = s2
  Slots = {s1}
  Action = "power_cycle"
  Limit = 1
  Threshold = 1
  GoodNeeded = 1
  Cooldown = 0
  Verify = 0
  Grace = 0
  Hour = 0
  MaxCycles = 0
  RxErrors = TRUE
  Faults = TRUE
  Kills = TRUE
  Admin = FALSE
  Manual = TRUE
INVARIANTS PulseOwned NothingDialing
