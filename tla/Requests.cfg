SPECIFICATION MCSpec
CONSTANTS
  Request = {1, 2}
  Context = {a, b}
  MaxRevoked = 2
  MaxFailed = 1
  MaxThrottle = 7
  MaxAttempts = 2
  MaxBackoff = 1
  Guidance = {{}, {2, 8}}
  Latency = 2
  Persist = 3
  MaxLimits = 1
  Action = {pull}
  MaxRetries = 4
  Delay = 3
  MaxDelay = 11
  RetryAfter = {0, 15}
  Width = 4
INVARIANTS LimitsAreRiddenOut TokensAreShared
PROPERTY PausedForAll BacksOff
CHECK_DEADLOCK FALSE
