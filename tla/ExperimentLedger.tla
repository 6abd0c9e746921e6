-------------------------- MODULE ExperimentLedger --------------------------
(***************************************************************************)
(* What the experiment store promises, without tables, locks or            *)
(* projections: one book per registered run, holding its registration and  *)
(* the log of its events.  A book only grows, by the events of one call at *)
(* once, and every rule about it is a rule about its log.                  *)
(***************************************************************************)
EXTENDS Integers, Sequences, FiniteSets, SequencesExt

CONSTANTS Runs, Metas, Roles, Events, Exports, RunOf, Admits, Plan, Warmups,
          FullSize, Conforms, None

VARIABLE book   \* book[r]: None, or [meta, role, log]

Asked(log) == {i \in DOMAIN log : log[i].kind = "QUESTION"}
Answered(log) == {log[i].qid : i \in Asked(log)}
Failures(log) == {log[i].qid : i \in {n \in Asked(log) : log[n].body.status = "failed"}}
Finished(log) == \E i \in DOMAIN log : log[i].kind = "FINISH"

\* The points of all questions: as many as their scores add up to.
Points(log) == UNION {{log[i].qid} \X (1..log[i].body.score) : i \in Asked(log)}

\* The summary says of the log what the log says of itself.
Honest(meta, log, s) ==
  LET attempted == Cardinality(Answered(log))
      failed == Cardinality(Failures(log))
  IN /\ s.meta = meta
     /\ s.completed = attempted - failed
     /\ s.failed = failed
     /\ s.status = "completed" => failed = 0 /\ attempted = Len(Plan[meta])
     /\ s.status = "failed" => failed > 0 \/ attempted = 0
     /\ s.warm <= Warmups[meta]
     /\ s.status = "completed" \/ attempted > 0 => s.warm = Warmups[meta]
     /\ s.full = (s.status = "completed" /\ attempted = FullSize[meta])
     /\ s.total = Cardinality(Points(log))

\* e may follow log in a run registered with meta.
MayFollow(meta, log, e) ==
  /\ ~Finished(log)
  /\ log = <<>> <=> e.kind = "START"
  /\ e.kind # "DIAGNOSTIC" => e \in Conforms[meta]
  /\ e.kind = "START" => e.body = meta
  /\ e.kind = "QUESTION" =>
       /\ Failures(log) = {}
       /\ Cardinality(Answered(log)) < Len(Plan[meta])
       /\ e.qid = Plan[meta][Cardinality(Answered(log)) + 1]
  /\ e.kind = "DIAGNOSTIC" => e.qid = None \/ e.qid \in ToSet(Plan[meta])
  /\ e.kind = "FINISH" => Honest(meta, log, e.body)

IdsIn(log) == {log[i].id : i \in DOMAIN log}
Books == {r \in Runs : book[r] # None}
AllIds == UNION {IdsIn(book[r].log) : r \in Books}

\* Run r, registered under meta and role, takes the events of new, in order.
Write(r, meta, role, new) ==
  LET old == IF book[r] = None THEN <<>> ELSE book[r].log IN
  /\ book[r] # None => book[r].meta = meta /\ book[r].role = role
  /\ RunOf[meta] = r /\ role \in Admits[meta]
  /\ \A i \in DOMAIN new :
       /\ new[i].run = r
       /\ new[i].id \notin AllIds \cup IdsIn(SubSeq(new, 1, i - 1))
       /\ MayFollow(meta, old \o SubSeq(new, 1, i - 1), new[i])
  /\ book' = [book EXCEPT ![r] = [meta |-> meta, role |-> role, log |-> old \o new]]

\* Those of an export's events that a log lacks, in the order of the export: the
\* n-th of them is the one with n of them up to its place.
Missing(events, log) ==
  LET at == {i \in DOMAIN events : events[i] \notin ToSet(log)} IN
  [n \in 1..Cardinality(at) |->
     events[CHOOSE i \in at : Cardinality({k \in at : k <= i}) = n]]

Init == book = [r \in Runs |-> None]

Register(r) == \E meta \in Metas, role \in Roles : Write(r, meta, role, <<>>)

Deliver(r) ==
  \E e \in Events, meta \in Metas, role \in Roles : Write(r, meta, role, <<e>>)

\* An import brings what the book misses of one intact, finished export.
Import(r) ==
  \E x \in Exports, role \in Roles :
    LET log == IF book[r] = None THEN <<>> ELSE book[r].log IN
    /\ x.intact /\ x.run = r /\ Finished(x.events)
    /\ Write(r, x.summary.meta, role, Missing(x.events, log))

Next == \E r \in Runs : Register(r) \/ Deliver(r) \/ Import(r)

Spec == Init /\ [][Next]_book
=============================================================================
