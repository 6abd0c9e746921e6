---------------------------- MODULE MCRetrievalRun ----------------------------
(***************************************************************************)
(* Four configurations of one run ID: with and without observations,       *)
(* warmups and a downstream sink, a selection smaller than the benchmark,  *)
(* and a benchmark without labels.  q1 and q3 have the same text.          *)
(***************************************************************************)
EXTENDS RetrievalStorage

CONSTANTS q1, q2, q3, t1, t2

MCText == [q \in Questions |-> IF q = q2 THEN t2 ELSE t1]

Config(plan, warmups, full, observed, downstream, labelled) ==
  [plan |-> plan, warmups |-> warmups, full |-> full, observed |-> observed,
   downstream |-> downstream, labelled |-> labelled]

MCConfigs ==
  {Config(<<q1, q2, q3>>, 1, 3, TRUE, TRUE, TRUE),
   Config(<<q1, q3>>, 2, 3, TRUE, FALSE, TRUE),
   Config(<<q2, q1>>, 0, 2, FALSE, TRUE, TRUE),
   Config(<<q1>>, 0, 1, TRUE, TRUE, FALSE)}
=============================================================================
