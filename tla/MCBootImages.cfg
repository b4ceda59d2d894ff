CONSTANTS
  Configs <- OneConfig
  FileSets <- MCFileSets
  MaxBoots = 2
  MaxFaults = 2
  BodyFaults = TRUE
  UsbCable = FALSE
SPECIFICATION FairSpec
INVARIANTS HaltsOnlyOnBadImages RenewedRecoveryStarts
PROPERTIES BootSettles
CHECK_DEADLOCK FALSE
