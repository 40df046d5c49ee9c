SPECIFICATION PlanSpec
CONSTANTS
  Repositories = 3
  Manifest = {m1, m2}
  Modes = {"live", "dry", "preview"}
  Caller = {1, 2}
  MaxWrites = 1
INVARIANTS ExecutesOnceOrNever ReportsAreTrue
PROPERTY HardFailureEndsTheRun DeletesOnlyWhatWasReviewed
CHECK_DEADLOCK FALSE
