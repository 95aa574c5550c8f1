\* Three calls of the cache, three connections of two tenants, two messages.
CONSTANTS
  c1 = c1
  c2 = c2
  c3 = c3
  w1 = w1
  w2 = w2
  w3 = w3
  t1 = t1
  t2 = t2
  Callers = {c1, c2, c3}
  Sockets = {w1, w2, w3}
  Tenants = {t1, t2}
  TenantOf <- SmallTenantOf
  MaxPublished = 2
  Loads <- SmallLoads
  NoTenant = NoTenant
  Scans = {c3}
  NoClient = NoClient
SPECIFICATION ProcessSpec
INVARIANTS
  ServedMissNothing
  RaiseNeedsCrossing
