CONSTANTS
  Sizes = {0, 1, 2, 3, 4}
  BufSize = 3
  PageSize = 2
  Piece = 2
  Kinds = {"uimage", "isi", "bootimg"}
  MaxCmds = 4
  Faults = {"short", "abort", "write", "bootl"}
SPECIFICATION FairSpec
INVARIANTS TypeOK OkayMeansFlashed NeverBothWriting
PROPERTIES FlashesLatest CommandAnswered
CHECK_DEADLOCK FALSE
