SPECIFICATION Spec
SYMMETRY Symmetric
CONSTANTS
  Urbs = {u1, u2}
  NoUrb = NoUrb
  NumSegs = 2
  TRBS_PER_SEGMENT = 4
  Sizes = {2}
  MAX_SOFT_RETRY = 0
  StallPasts = {FALSE}
  HaltRaces = {FALSE}
  Cases <- AllocAndTimeouts
INVARIANTS
  TypeOK
  RingAgrees
  GivenBackUnused
  DequeueSetWhileStopped
  Covered
PROPERTIES
  OutcomesAreOwn
CHECK_DEADLOCK FALSE
