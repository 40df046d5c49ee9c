SPECIFICATION MCSpec
CONSTANTS
  Digest = {1, 2, 3}
  Limit = 2
  IgnoreMissing = {TRUE, FALSE}
  MaxListed = 4
  Writer = {1, 2}
  Uses = {"cache", "file"}
  MaxFiles = 3
  MaxCrashes = 2
INVARIANTS ContentsAreComplete EndsAsItDid NothingIsTorn
CHECK_DEADLOCK FALSE
