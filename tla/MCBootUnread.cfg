CONSTANTS
  Configs <- OneConfig
  FileSets <- MCFileSets
  MaxBoots = 1
  MaxFaults = 1
  BodyFaults = TRUE
  UsbCable = FALSE
SPECIFICATION Spec
PROPERTY StartsReadImages
CHECK_DEADLOCK FALSE
