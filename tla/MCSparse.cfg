CONSTANTS
  Sector = 4
  Page = 8
  SysInfo = 1
  Step = 16
  BufSize = 64
  HeaderLen = 4
  ChunkLen = 3
  ValueLen = 2
  Srcs = {"mmc1", "ram"}
  Images <- MCImages
  FillRoom = 2
  MaxIoErrors = 2
SPECIFICATION FairSpec
INVARIANTS StreamInv  LostOnlyAstray
PROPERTIES StaysInTarget BurnEnds
CHECK_DEADLOCK FALSE
