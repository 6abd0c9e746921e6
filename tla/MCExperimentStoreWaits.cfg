SPECIFICATION FairSpec
CONSTANTS
  c1 = c1
  c2 = c2
  r1 = r1
  r2 = r2
  q1 = q1
  q2 = q2
  m1 = m1
  m1b = m1b
  m2 = m2
  dev = dev
  diag = diag
  None = None
  Clients = {c1, c2}
  Runs = {r1, r2}
  Metas = {m1, m2}
  Roles = {dev, diag}
  Questions = {q1, q2}
  Events <- CrossingEvents
  Exports <- CrossingExports
  RunOf <- MCRunOf
  Admits <- MCAdmits
  Plan <- MCPlan
  Warmups <- MCWarmups
  FullSize <- MCFullSize
  Conforms <- CrossingConforms
INVARIANTS
  DeadlockNeedsTwoImports
PROPERTIES
  EveryTransactionEnds
