SPECIFICATION Spec
CONSTANTS
  q1 = q1
  q2 = q2
  q3 = q3
  t1 = t1
  t2 = t2
  None = None
  Torn = Torn
  TheRun = TheRun
  TheRole = TheRole
  Questions = {q1, q2, q3}
  Scores = {0, 1}
  Text <- MCText
  Configs <- MCConfigs
INVARIANTS
  FailuresAreStructured
