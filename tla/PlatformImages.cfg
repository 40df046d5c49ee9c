SPECIFICATION Spec
CONSTANTS
  a = 1
  b = 2
  v = v
  w = w
  amd64 = amd64
  linux = linux
  Unknown = Unknown
  Name = {1, 2}
  Tag = {v, w}
  Latest = v
  Manifest = {1, 2, 3}
  MaxInt = 3
  Now = 2
  Inputs <- AnyInput
INVARIANT PlatformImagesFollow
CHECK_DEADLOCK FALSE
