SPECIFICATION Spec
CONSTANTS
  Slots <- OneSlot
  Boots <- AnyBoot
  UserRats <- OneRat
  Choices <- AnyChoice
  Edits <- AnyEdit
  MaxKills = 1
  MaxTests = 1
  KillBare = FALSE
INVARIANTS JournalCovers MaintCovered
PROPERTIES VerifiedReached
CHECK_DEADLOCK TRUE
