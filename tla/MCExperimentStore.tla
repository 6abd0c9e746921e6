-------------------------- MODULE MCExperimentStore --------------------------
(***************************************************************************)
(* Two deliverers, two runs.  r1 plans two questions and has two rival     *)
(* metadata payloads; r2 plans one question and reuses an event ID of r1.  *)
(* Events with equal IDs and different content, wrong outcomes, dishonest  *)
(* summaries and a diagnostic event are among the events.                  *)
(***************************************************************************)
EXTENDS ExperimentStoreLedger, TLC

CONSTANTS c1, c2, r1, r2, q1, q2, m1, m1b, m2, dev, diag

\* The value belonging to the metadata m among those of m1, m1b and m2.
For(m, of1, of1b, of2) == IF m = m1 THEN of1 ELSE IF m = m1b THEN of1b ELSE of2

MCPlan == [m \in Metas |-> For(m, <<q1, q2>>, <<q2>>, <<q1>>)]
MCRunOf == [m \in Metas |-> For(m, r1, r1, r2)]
MCAdmits == [m \in Metas |-> For(m, {dev, diag}, {dev, diag}, {dev})]
MCWarmups == [m \in Metas |-> For(m, 1, 0, 0)]
MCFullSize == [m \in Metas |-> 2]

Ev(id, run, kind, qid, body) ==
  [id |-> id, run |-> run, kind |-> kind, qid |-> qid, body |-> body]
Out(status, score) == [status |-> status, score |-> score]
Sum(meta, status, completed, failed, warm, full, total) ==
  [meta |-> meta, status |-> status, completed |-> completed, failed |-> failed,
   warm |-> warm, full |-> full, total |-> total]

S1 == Ev(1, r1, "START", None, m1)
A1 == Ev(2, r1, "QUESTION", q1, Out("completed", 1))
A1b == Ev(2, r1, "QUESTION", q1, Out("completed", 0))
A2 == Ev(3, r1, "QUESTION", q2, Out("completed", 0))
A2f == Ev(12, r1, "QUESTION", q2, Out("failed", 0))
Good == Sum(m1, "completed", 2, 0, 1, TRUE, 1)
Bad == Sum(m1, "failed", 1, 1, 1, FALSE, 1)
F1 == Ev(4, r1, "FINISH", None, Good)
F1f == Ev(13, r1, "FINISH", None, Bad)
D1 == Ev(5, r1, "DIAGNOSTIC", q1, None)
S2 == Ev(6, r2, "START", None, m2)
A2r == Ev(3, r2, "QUESTION", q1, Out("completed", 1))
F2 == Ev(7, r2, "FINISH", None, Sum(m2, "completed", 1, 0, 0, FALSE, 1))

MCEvents == {S1, A1, A1b, A2, A2f, F1, F1f, D1, S2, A2r, F2}
MCConforms == [m \in Metas |-> {e \in MCEvents : e.run = MCRunOf[m]}]

Export(run, events, summary, intact) ==
  [run |-> run, events |-> events, summary |-> summary, intact |-> intact]
MCExports ==
  {Export(r1, <<S1, A1, A2, F1>>, Good, TRUE),
   Export(r1, <<S1, A1, A2f>>, Bad, TRUE),
   Export(r1, <<S1, A1, A2f, F1f>>, Bad, FALSE),
   Export(r2, <<S2, A2r, F2>>, F2.body, TRUE)}

\* Two exports that claim the event IDs 2 and 3 in opposite orders.
F2x == Ev(2, r2, "FINISH", None, F2.body)
CrossingEvents == {S1, A1, A2, F1, S2, A2r, F2x}
CrossingConforms == [m \in Metas |-> {e \in CrossingEvents : e.run = MCRunOf[m]}]
CrossingExports ==
  {Export(r1, <<S1, A1, A2, F1>>, Good, TRUE),
   Export(r2, <<S2, A2r, F2x>>, F2.body, TRUE)}

Symmetry == Permutations({c1, c2})
=============================================================================
