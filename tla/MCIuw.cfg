CONSTANTS
  Ops = {"wr", "rd", "hash", "enckey", "enc", "extra", "identify", "jump"}
  Lengths = {1, 2}
  MaxCmds = 3
  Faults = {"refuse", "runout", "io", "noconfig", "cancel"}
SPECIFICATION FairSpec
INVARIANTS SessionInv StoresWhatWasSent ResultsMatchInput RefusedUntouched DataNeverDispatched NeverBothWriting
PROPERTIES SessionEnds
CHECK_DEADLOCK FALSE
