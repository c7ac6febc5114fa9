SPECIFICATION FairSpec
CONSTANTS
  Enabled <- Dual
  Addresses = {a, b}
  NoAddress = none
  allow_time <- Delays
  HasPassword = TRUE
  MaxQueued = 2
  MaxFaults = 1
  MaxChanges = 1
  Signals = TRUE
INVARIANTS TypeOK LinkHasCall InterfaceCurrent HungUp
PROPERTIES Connects StopEnds
CHECK_DEADLOCK FALSE
