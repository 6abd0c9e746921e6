------------------------ MODULE ExperimentStoreLedger ------------------------
(***************************************************************************)
(* The experiment store implements the ledger: the book of a run is its    *)
(* registration and the events of its committed rows, by sequence.         *)
(***************************************************************************)
EXTENDS ExperimentStore

\* The first n events of a run with these rows.
FirstEvents(rows, n) == [k \in 1..n |-> (CHOOSE x \in rows : x.sequence = k).event]

LogOf(r) == FirstEvents(Log(r), runs[r].event_count)

\* A run without a book is told from one with a book.
ASSUME BookAssumption == None \notin [meta : Metas, role : Roles, log : Seq(Events)]

BookOf(r) ==
  IF Stored(r)
  THEN [meta |-> runs[r].meta, role |-> runs[r].role, log |-> LogOf(r)]
  ELSE None

Ledger == INSTANCE ExperimentLedger WITH book <- [r \in Runs |-> BookOf(r)]

\* Every committed transaction appends its events to one book, all of them or
\* none, by the rules the log alone determines: the counters, question rows and
\* locks of the store are an implementation of that.
LedgerSpec == Ledger!Spec
=============================================================================
