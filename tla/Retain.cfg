SPECIFICATION MCSpec
CONSTANTS
  Manifest = {1, 2, 3}
  Missing = {0}
  None = None
  MayList <- AnyList
  MaySubject <- AnySubject
  MayTag = {1, 2, 3}
  Classes = {"free", "kept", "aged", "pinned", "taglocked", "aged+taglocked"}
  Options <- AnyOptions
INVARIANTS KeepsWhatItMust DeletesOnlyUnprotected MustDeleteEverythingIsAllOrNothing LastTagSurvives SelectionIsTheLimit
CHECK_DEADLOCK FALSE
