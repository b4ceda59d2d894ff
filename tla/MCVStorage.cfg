CONSTANTS
  Sector = 4
  Page = 8
  SysInfo = 1
  Devs = {"nnd", "fnd", "hd", "mmc1", "ram"}
  DevSize = 40
  IUS_DEFAULT_LOCATION = 8
  Starts = {0, 3, 4, 6, 8}
  Lengths = {0, 1, 5, 8, 18}
  MaxOps = 3
  MaxIoErrors = 1
SPECIFICATION Spec
INVARIANTS  HonestResult
CHECK_DEADLOCK FALSE
