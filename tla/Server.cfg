SPECIFICATION PartSpec
CONSTANTS
  e1 = e1  e2 = e2  e3 = e3
  Engines = {e1, e2, e3}
  Panicking = {e3}
  TimeoutOf <- ThreeTimeouts
  RequestTimeout = 3
  StartDelay = 3
  LastStart = 2
  MaxClock = 6
  Requests = {r1, r2, r3}
  None = None
  Grace = 2
  LastTick = 2
  c1 = c1  c2 = c2  c3 = c3  a1 = a1  a2 = a2  i1 = i1  i2 = i2  i3 = i3
  Lookups = {c1, c2, c3}
  Authorities = {a1, a2}
  AuthorityOf <- TwoAuthorities
  Icons = {i1, i2, i3}
  SizeOf <- Sizes
  MaxBlob = 2
  MaxTotal = 2
  Answers = {i1, i2, i3, "missing", "error"}
  StorageMayFail = TRUE
  RowsMayGo = TRUE
INVARIANTS AnswersByDeadline AnswersReported BlameTrue TablesAgree
PROPERTIES SearchEnds NeverReadyAgain CutOnlyAfterGrace SignalEnds OutageSeen LookupsReturn
CHECK_DEADLOCK FALSE
