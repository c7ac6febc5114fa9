SPECIFICATION FairSpec
CONSTANTS
  Slots <- OneSlot
  Boots <- AutoBoot
  UserRats <- None
  Choices <- AdaptiveOnly
  Edits <- None
  MaxKills = 1
  MaxTests = 0
  KillBare = FALSE
PROPERTIES TrialEnds
CHECK_DEADLOCK TRUE
