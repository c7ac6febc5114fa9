SPECIFICATION Spec
CONSTANTS
  Jobs = {j1, j2}
  Copies = {c1}
  StorageFaults = TRUE
  Kills = TRUE
  NoJob = NoJob
INVARIANTS  FlashIsolated
 
