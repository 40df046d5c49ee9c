SPECIFICATION MCSpec
CONSTANTS
  Manifest = {1, 2, 3, 4}
  Missing = {0}
  None = None
  MayList <- NestedLists
  MaySubject <- Subjects
  MayTag = {1, 2}
  Classes = {"free"}
  Options <- AnyOption
INVARIANTS FlagsAreTheOrphans
PROPERTY Terminates
CHECK_DEADLOCK FALSE
