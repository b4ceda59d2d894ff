CONSTANTS
  Multip = 64
  Word = 16777216
  Absent = Absent
  Configs <- MCConfigs
  Disks <- MCDisks
  Junk <- MCJunk
  MaxStarts = 1
  MaxIoErrors = 0
SPECIFICATION Spec
INVARIANTS InsideDisk
CHECK_DEADLOCK FALSE
