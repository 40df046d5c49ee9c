SPECIFICATION Spec
CONSTANTS
  Manifest = {1, 2, 3}
  MayList <- SharedChild
  Options <- Registries
  PageSize = 1
  MaxWrites = 3
INVARIANTS OthersAreUnharmed
PROPERTY DeletesOnlyWhatWasInspected
CHECK_DEADLOCK FALSE
