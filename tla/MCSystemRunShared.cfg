SPECIFICATION Spec
CONSTANTS
  Workers <- TwoWorkers
  Metas <- SmallPlan
  MaxCrashes = 0
  Questions <- QuestionSet
  Systems <- SystemSet
  Hops <- HopSet
  Errors <- ErrorSet
  None = None
  Torn = Torn
  w1 = w1
  w2 = w2
  q1 = q1
  q2 = q2
  fixed = fixed
  epsa = epsa
  h1 = h1
  h2 = h2
  timeout = timeout
  refused = refused
INVARIANTS
  InventoryHolds
