SPECIFICATION MCSpec
CONSTANTS
  t1 = t1
  Manifest = {1, 2, 3}
  Tag = {t1}
  MayLock <- WholeLocks
  Unlock = TRUE
  Parallelism = 2
  MayList <- NewerListsOlder
  MaySubject <- AnySubject
  None = None
INVARIANTS DependenciesOutliveParents FailuresAreContained LocksAreSafe
PROPERTY RepositoryLocksAreSafe ImplementsOrderedDeletion DeletionEnds
CHECK_DEADLOCK FALSE
