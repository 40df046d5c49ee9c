SPECIFICATION FairSpec
CONSTANTS
  Mode = {"plain", "auto", "tui"}
  WarningLimit = 1
  MaxWarnings = 2
  MaxSignals = 3
INVARIANT ForcedExitRestores
CHECK_DEADLOCK FALSE
