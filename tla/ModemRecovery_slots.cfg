SPECIFICATION Spec
CONSTANTS
  s1 = s1
  s2 = s2
  Slots = {s1, s2}
  Action = "redial"
  Limit = 0
  Threshold = 1
  GoodNeeded = 1
  Cooldown = 0
  Verify = 0
  Grace = 0
  Hour = 0
  MaxCycles = 0
  RxErrors = FALSE
  Faults = FALSE
  Kills = TRUE
  Admin = FALSE
  Manual = FALSE
SYMMETRY Symmetric
INVARIANTS OneTeardown
