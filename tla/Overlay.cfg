CONSTANTS
  NameCount = 3
  MaxIno = 3
  Data = {0, 1}
  Blank = 0
  MaxOpens = 1
  MaxBoots = 1
  CrossBorder = FALSE
SPECIFICATION OverlaySpec
INVARIANTS LiveTree ReplayRebuilds
PROPERTY OpenStays
CHECK_DEADLOCK FALSE
