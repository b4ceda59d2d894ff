CONSTANTS
  Configs <- FewConfigs
  FileSets <- FewFileSets
  MaxBoots = 3
  MaxFaults = 1
  BodyFaults = FALSE
  UsbCable = TRUE
SPECIFICATION Spec
INVARIANTS TypeOK RecoveryHonoured ChargerModeExplained TagStopsOneBoot
PROPERTIES NoRepeatedBurn CheckedUnlessReset
CHECK_DEADLOCK FALSE
