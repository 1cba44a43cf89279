\* One token is used on a TCP connection before its key is known.
CONSTANTS
  c1 = c1
  c2 = c2
  c3 = c3
  t1 = t1
  w1 = w1
  a1 = a1
  b1 = b1
  x1 = x1
  alice = alice
  bob = bob
  phone = phone
  laptop = laptop
  Invalid = Invalid
  Call = {c1, c2, c3}
  Tcp = {t1}
  Ws = {w1}
  Token = {a1, b1, x1}
  Principal = {alice, bob}
  Client = {phone, laptop}
  Owner <- MCOwner
  Clients <- MCClients
  Rotates = {b1}
  Malformed = {x1}
  Requests = 1
  Window = 2
  Second = 1
  MaxTime = 2
  LimiterKeys = {alice, bob}
  Budget = 2
  Length = 3
  Unit = 2
  Horizon = 8
  Secret = {"t1", "t2", "t3"}
  Tenant = {"acme"}
  Configs <- MCConfigs
  Claims <- MCClaims
  Roles = {"authenticated"}
  MaxStarts = 2
  Parts = {"calls"}
  Calling = {b1}

SPECIFICATION MCSpec

INVARIANTS
  RememberedIsTerminal

\* All calls may have been answered.
CHECK_DEADLOCK FALSE
