CONSTANTS
  Full = 4
  Iodivs = {1, 2, 4}
  Images <- MCImages
  PartBlocks = 5
  PagesPerBlock = 2
  PageSize = 4
  SysInfo = 1
  MaxBad = 2
SPECIFICATION Spec
INVARIANTS ConversionInv OnFlash
CHECK_DEADLOCK FALSE
