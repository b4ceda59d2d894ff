CONSTANTS
  Multip = 64
  Word = 16777216
  Absent = Absent
  Configs <- MCConfigs
  Disks <- MCDisks
  Junk <- MCJunk
  MaxStarts = 2
  MaxIoErrors = 1
SPECIFICATION Spec
INVARIANTS TablesInv SoundLayout RecordedBases
CHECK_DEADLOCK FALSE
