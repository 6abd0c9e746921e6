--------------------------- MODULE RetrievalStorage ---------------------------
(***************************************************************************)
(* A retrieval run against the rules of the experiment ledger: the events  *)
(* a run delivers or an import brings are such that the store takes them.  *)
(***************************************************************************)
EXTENDS RetrievalRun

CONSTANTS TheRun, TheRole

\* The event as the ledger sees it: its ID is fresh, like its place in the log.
EventAt(s, i) ==
  [id |-> i, run |-> TheRun, kind |-> s[i].kind, qid |-> s[i].qid, body |-> s[i].body]
AsEvents(s) == [i \in DOMAIN s |-> EventAt(s, i)]

LedgerEvents ==
  [id : Nat, run : {TheRun}, kind : {"START", "QUESTION", "FINISH"},
   qid : Questions \cup {None}, body : Bodies]

\* No question, and no book, is taken for a missing one.
ASSUME StorageAssumption ==
  /\ None \notin Questions
  /\ None \notin [meta : Configs, role : {TheRole}, log : Seq(LedgerEvents)]

\* Payloads the store accepts for metadata c: QuestionTrace and RunSummary.
Fits(c) ==
  {e \in LedgerEvents :
     /\ e.kind = "START" => e.body = c /\ e.qid = None
     /\ e.kind = "QUESTION" => e.qid # None /\ (e.body.status = "failed" => e.body.score = 0)
     /\ e.kind = "FINISH" =>
          /\ e.qid = None
          /\ e.body.completed + e.body.failed + e.body.unattempted = Len(c.plan)}

Ledger ==
  INSTANCE ExperimentLedger WITH
    Runs <- {TheRun}, Metas <- Configs, Roles <- {TheRole},
    Events <- {}, Exports <- {},
    RunOf <- [c \in Configs |-> TheRun], Admits <- [c \in Configs |-> {TheRole}],
    Plan <- [c \in Configs |-> c.plan], Warmups <- [c \in Configs |-> c.warmups],
    FullSize <- [c \in Configs |-> c.full], Conforms <- [c \in Configs |-> Fits(c)],
    book <- [r \in {TheRun} |->
               IF stored = <<>> THEN None
               ELSE [meta |-> Used, role |-> TheRole, log |-> AsEvents(stored)]]

\* What the last step added to the store.
Added == SubSeq(AsEvents(stored'), Len(stored) + 1, Len(stored'))

\* The store never has a reason to refuse a run: every event that evaluate
\* delivers, and every finalized export, obeys the ledger's rules on order,
\* plan, failure and summary.
NeverRefused ==
  [][stored' # stored => Ledger!Write(TheRun, Used, TheRole, Added)]_stored
=============================================================================
