----------------------------- MODULE MCQueryCache -----------------------------
(***************************************************************************)
(* Two processes; q1 and q3 have the same text; two datasets under one     *)
(* version, of which one repeats a text.                                   *)
(***************************************************************************)
EXTENDS QueryCache

CONSTANTS p1, p2, q1, q2, q3, t1, t2, d1, d2

MCText == [q \in Questions |-> IF q = q2 THEN t2 ELSE t1]

MCDatasets ==
  {[version |-> "v1", digest |-> d1, questions |-> <<q1, q2>>],
   [version |-> "v1", digest |-> d2, questions |-> <<q1, q3>>]}
=============================================================================
