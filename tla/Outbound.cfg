SPECIFICATION PartSpec
CONSTANTS
  r1 = r1
  r2 = r2
  r3 = r3
  r4 = r4
  o1 = o1
  Requests <- TwoRequests
  Origins <- OneOrigin
  OriginOf <- SameOrigin
  MaxConcurrent = 1
  Burst = 2
  Unit = 2
  Rate = 1
  LeaseDuration = 5
  Latency = 1
  Timeout = 6
  BusyRetry = 1
  RetryAfters = {2}
  LastStart = 2
  MaxClock = 20
  c1 = c1  c2 = c2  c3 = c3
  k1 = k1  Nil = Nil
  Callers = {c1, c2, c3}
  Keys = {k1}
  KeyOf <- OneKey
  Ttl <- LoadTtl
  HtmlTtl = 1
  StructuredTtl = 2
  IMAGE_CACHE_TTL = 1
  SuggestionTtl = 1
  MAX_REDIRECT_HOPS = 1
  MaxImageBytes = 1
  Backends = {"disabled", "google", "sogou"}
  LastSecond = 1
INVARIANTS TypeOK InFlightWithinLimit
           OneLoadPerKey WaitersHaveLeader OldAnswersAreFresh ProducerReportsDuration
PROPERTIES RetryAfterHonoured ImplementsPermitPool EveryRequestReturns LeaseReclaimed
           CallersReturn
CHECK_DEADLOCK FALSE
