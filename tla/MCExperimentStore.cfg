SPECIFICATION Spec
CONSTANTS
  c1 = c1
  c2 = c2
  r1 = r1
  r2 = r2
  q1 = q1
  q2 = q2
  m1 = m1
  m1b = m1b
  m2 = m2
  dev = dev
  diag = diag
  None = None
  Clients = {c1, c2}
  Runs = {r1, r2}
  Metas = {m1, m1b, m2}
  Roles = {dev}
  Questions = {q1, q2}
  Events <- MCEvents
  Exports <- MCExports
  RunOf <- MCRunOf
  Admits <- MCAdmits
  Plan <- MCPlan
  Warmups <- MCWarmups
  FullSize <- MCFullSize
  Conforms <- MCConforms
SYMMETRY Symmetry
INVARIANTS
  TypeOK
  EventKeysUnique
  LogWellFormed
  ProjectionsMatchLog
  ResultsInPlanOrder
  FinalSummaryHonest
  ImportsAreWhole
  AcknowledgedIsStored
PROPERTIES
  FinalizedFrozen
  LedgerSpec
