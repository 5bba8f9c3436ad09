CONSTANTS
  r1 = r1
  r2 = r2
  r3 = r3
  r4 = r4
  o1 = o1
  Requests <- FourRequests
  Origins <- OneOrigin
  OriginOf <- SameOrigin
  MaxConcurrent = 4
  Burst = 1
  Unit = 1
  Rate = 1
  LeaseDuration = 5
  Latency = 1
  Timeout = 4
  BusyRetry = 1
  RetryAfters = {}
  LastStart = 1
  MaxClock = 6
SPECIFICATION Spec
INVARIANT GrantsWithinBudget
