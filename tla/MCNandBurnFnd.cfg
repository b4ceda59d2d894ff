CONSTANTS
  PageSize = 2
  SysInfo = 1
  Step = 4
  BlockSize = 8
  BootMin = 6
  NBlocks = 5
  SkipMax = 1
  Devs = {"fnd"}
  Offsets = {8}
  Lengths = {15}
  Maxes = {24}
  MaxIoErrors = 0
SPECIFICATION Spec
INVARIANT FndBurnedLayout
CHECK_DEADLOCK FALSE
