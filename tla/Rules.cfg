SPECIFICATION MCSpec
CONSTANTS
  a = 1
  b = 2
  v = v
  w = w
  x = x
  y = y
  layer = layer
  amd64 = amd64
  linux = linux
  Unknown = Unknown
  Name = {1, 2}
  Tag = {v, w}
  Latest = v
  Manifest = {1, 2, 3}
  MaxInt = 3
  Now = 2
  Inputs <- AnyInput
  Repositories = 2
  Manifests = {x, y}
  Parts <- Layers
  Size <- Bytes
  TagSets <- AnyTags
  Lists <- AnyList
INVARIANTS OnlyTheFirstRuleApplies NewestSelects NoTagIsLost ChargedToTheFirst RunningIsListed
CHECK_DEADLOCK FALSE
