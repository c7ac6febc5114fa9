SPECIFICATION FairSpec
CONSTANTS
  RX_QLEN = 1
  TX_QLEN = 1
  Batch = 1
  MaxDone = 1
  Leftovers = {"start"}
  OpenRaces = {FALSE}
  Budgets <- OneOfEach
INVARIANTS
  TypeOK
  AsleepQuiet
  QuietAfterStop
  FreedUnused
  
  TrafficCovered
PROPERTIES
  StopReturns
CHECK_DEADLOCK FALSE
