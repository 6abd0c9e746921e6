SPECIFICATION FairSpec
CONSTANTS
  p1 = p1
  p2 = p2
  q1 = q1
  q2 = q2
  q3 = q3
  t1 = t1
  t2 = t2
  d1 = d1
  d2 = d2
  None = None
  Torn = Torn
  Processes = {p1, p2}
  Questions = {q1, q2, q3}
  Text <- MCText
  Vectors = {1, 2}
  Datasets <- MCDatasets
  MaxCrashes = 1
INVARIANTS
  ReturnedIsStored
PROPERTIES
  ImplementsMap
  CallsEnd
