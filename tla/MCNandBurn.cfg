CONSTANTS
  PageSize = 2
  SysInfo = 1
  Step = 4
  BlockSize = 8
  BootMin = 6
  NBlocks = 5
  SkipMax = 1
  Devs = {"bnd", "nnd", "fnd", "mmc"}
  Offsets = {4, 8}
  Lengths = {3, 8, 15}
  Maxes = {8, 16, 24}
  MaxIoErrors = 1
SPECIFICATION FairSpec
INVARIANTS TypeOK Accounting RefusesOnlyWhenFull
PROPERTIES StaysInRange NeverProgramsBad BurnEnds ImplementsSlot
CHECK_DEADLOCK FALSE
