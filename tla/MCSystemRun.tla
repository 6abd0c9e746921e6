---------------------------- MODULE MCSystemRun ----------------------------
(***************************************************************************)
(* One run ID with rival plans: two questions under two systems, and one   *)
(* question under two systems and two top_ks.                              *)
(***************************************************************************)
EXTENDS SystemRun

CONSTANTS w1, w2, q1, q2, fixed, epsa, h1, h2, timeout, refused

OneWorker == {w1}
TwoWorkers == {w1, w2}

QuestionSet == {q1, q2}
SystemSet == {fixed, epsa}
HopSet == {h1, h2}
OneError == {timeout}
ErrorSet == {timeout, refused}

Wide == [questions |-> <<q1, q2>>, systems |-> <<fixed, epsa>>, top_ks |-> <<5>>]
Deep == [questions |-> <<q1>>, systems |-> <<fixed, epsa>>, top_ks |-> <<5, 10>>]
Small == [questions |-> <<q1>>, systems |-> <<epsa>>, top_ks |-> <<5>>]

RivalPlans == {Wide, Deep}
SmallPlan == {Small}
=============================================================================
