SPECIFICATION Spec
CONSTANTS
  Requests = {r1, r2, r3}
  alice = alice  alice6 = alice6  bob = bob  p1 = p1  p2 = p2
  Clients = {alice, alice6}
  Addrs = {alice, alice6, bob, p1, p2}
  Mapped <- MCMapped
  Trusted = {p1, p2}
  Garbage = Garbage
  None = None
  MaxTyped = 2
  MaxHops = 2
  Features <- Mixed
  Config <- MCConfig
  Capacity = 4
  Refill = 2
  SuspiciousCapacity = 2
  SuspiciousRefill = 1
  Cost = 2
  StateCapacity = 1
  Idle = 2
  Skew = 1
  MaxClock = 2
SYMMETRY RequestSymmetry
INVARIANTS GrantsWithinRate UnverifiedWithinSuspiciousRate OwnAddress
PROPERTIES BrowsersServed
CHECK_DEADLOCK FALSE
