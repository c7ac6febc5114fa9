SPECIFICATION Spec
CONSTANTS
  Writers = {v, w}
  Ids = {i, j}
  NoId = none
  Usb3 = FALSE
  Separate = TRUE
  Overlap = FALSE
SYMMETRY Symmetric
INVARIANTS TypeOK FlagsTell FixedUpInMode SlaveAlive 
CHECK_DEADLOCK FALSE
