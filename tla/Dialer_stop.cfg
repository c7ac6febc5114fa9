SPECIFICATION FairSpec
CONSTANTS
  Enabled <- Ipv4
  Addresses = {a}
  NoAddress = none
  allow_time <- Delays
  HasPassword = FALSE
  MaxQueued = 2
  MaxFaults = 0
  MaxChanges = 1
  Signals = TRUE
PROPERTIES StopHonoured
CHECK_DEADLOCK FALSE
