CONSTANTS
  c1 = c1
  c2 = c2
  c3 = c3
  a1 = a1
  a2 = a2
  i1 = i1
  i2 = i2
  i3 = i3
  SizeOf <- Sizes
  MaxBlob = 2
  MaxTotal = 2
  Lookups = {c1, c2, c3}
  Authorities = {a1}
  AuthorityOf <- OneAuthority
  Icons = {i1, i2}
  Answers = {i1, i2, "missing", "error"}
  StorageMayFail = FALSE
  RowsMayGo = FALSE
SPECIFICATION LookupSpec
INVARIANT SingleFlight
CHECK_DEADLOCK FALSE
