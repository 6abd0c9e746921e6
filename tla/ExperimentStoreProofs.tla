----------------------- MODULE ExperimentStoreProofs ------------------------
(***************************************************************************)
(* Proofs about the experiment store. The inductive invariant Inv says of  *)
(* every open transaction what the safety properties say of the committed  *)
(* tables: its view of its run (its row, its answers, and the committed    *)
(* and uncommitted events) is consistent, and it alone owns that run.      *)
(*                                                                         *)
(* The store implements the ledger. What a commit adds to a book is        *)
(* decided before it, one event at a time, against the view of the         *)
(* transaction; History says of every open transaction that its            *)
(* uncommitted rows list what its job has and the book has not, and that   *)
(* each of them may follow those before it.                                *)
(***************************************************************************)
EXTENDS ExperimentStoreLedger, TLAPS, FiniteSetTheorems, SequenceTheorems

\* What a job holds, whoever made it.
LEMMA JobShape ==
  ASSUME NEW j \in Jobs
  PROVE  /\ j.run \in Runs
         /\ j.role \in Roles
         /\ j.events \in Seq(Events)
         /\ j.mode \in {"live", "register", "import"}
         /\ j.mode = "register" => j.meta \in Metas /\ j.events = <<>> /\ RunOf[j.meta] = j.run
         /\ j.mode # "register" => Len(j.events) > 0
         /\ j.mode = "live" => Len(j.events) = 1 /\ j.events[1].run = j.run
         /\ j.mode = "import" => j.summary \in Summaries
<1>1. CASE j \in LiveJobs
  <2>1. PICK e \in Events, ro \in Roles :
          j = [mode |-> "live", run |-> e.run, role |-> ro, events |-> <<e>>,
               meta |-> None, summary |-> None, intact |-> TRUE]
    BY <1>1 DEF LiveJobs
  <2>2. <<e>> \in Seq(Events) /\ Len(<<e>>) = 1 /\ <<e>>[1] = e
    OBVIOUS
  <2> QED
    BY <2>1, <2>2, EventAssumption
<1>2. CASE j \in RegisterJobs
  <2>1. PICK m \in Metas, ro \in Roles :
          j = [mode |-> "register", run |-> RunOf[m], role |-> ro, events |-> <<>>,
               meta |-> m, summary |-> None, intact |-> TRUE]
    BY <1>2 DEF RegisterJobs
  <2> QED
    BY <2>1, PlanAssumption
<1>3. CASE j \in ImportJobs
  <2>1. PICK x \in Exports, ro \in Roles :
          /\ Len(x.events) > 0
          /\ j = [mode |-> "import", run |-> x.run, role |-> ro, events |-> x.events,
                  meta |-> None, summary |-> x.summary, intact |-> x.intact]
    BY <1>3 DEF ImportJobs
  <2> QED
    BY <2>1, ExportAssumption
<1> QED
  BY <1>1, <1>2, <1>3 DEF Jobs

\* Where each transaction stands, and what it has checked when it stands there.
JobOK ==
  \A c \in Clients :
    /\ pc[c] # "idle" => job[c] \in Jobs
    /\ pc[c] = "acquire" => next[c] = 1
    /\ pc[c] \in {"check", "claim"} => next[c] \in 1..Len(job[c].events)
    /\ pc[c] \in {"commit", "ok"} => next[c] = Len(job[c].events) + 1
    /\ pc[c] = "claim" => /\ Event(c).run = Run(c)
                          /\ Acceptable(row[c], answers[c], Event(c))
    /\ Holding(c) => row[c] \in RunRows

\* The event at hand is one of the events.
LEMMA EventTyped ==
  ASSUME TypeOK, JobOK, NEW c \in Clients, pc[c] # "idle", pc[c] # "ok", pc[c] # "commit",
         job[c].mode # "register" \/ pc[c] # "acquire"
  PROVE  /\ job[c] \in Jobs
         /\ next[c] \in 1..Len(job[c].events)
         /\ Event(c) \in Events
<1>1. /\ job[c] \in Jobs
      /\ pc[c] \in {"acquire", "check", "claim"}
  BY DEF JobOK, TypeOK
<1>2. job[c].events \in Seq(Events) /\ (job[c].mode # "register" => Len(job[c].events) > 0)
  BY <1>1, JobShape
<1>3. next[c] \in 1..Len(job[c].events)
  BY <1>1, <1>2 DEF JobOK
<1> QED
  BY <1>1, <1>2, <1>3 DEF Event

\* A registration names known metadata and its own run.
LEMMA WantedTyped ==
  ASSUME TypeOK, JobOK, NEW c \in Clients, pc[c] = "acquire", Registers(c)
  PROVE  Wanted(c) \in Metas
<1>1. job[c] \in Jobs
  BY DEF JobOK
<1>2. CASE job[c].mode = "register"
  BY <1>1, <1>2, JobShape DEF Wanted
<1>3. CASE job[c].mode # "register"
  <2>1. Event(c) \in Events
    BY <1>3, EventTyped
  <2> QED
    BY <1>3, <2>1, EventAssumption DEF Wanted, Registers
<1> QED
  BY <1>2, <1>3

\* The steps of the system, with the ways to roll back taken together.
LEMMA StepCases ==
  ASSUME Next
  PROVE  \E c \in Clients :
           \/ Begin(c) \/ Rollback(c) \/ Create(c) \/ Lock(c) \/ Replay(c)
           \/ Accept(c) \/ Insert(c) \/ Commit(c) \/ Return(c)
BY DEF Next, Proceed, Refuse, Reject, LoseClaim, Incomplete, Timeout, Abort

\* Each row a transaction computes is a row of the table.
LEMMA NewRunTyped ==
  ASSUME NEW m \in Metas, NEW role \in Roles, NEW mode \in {"live", "import"}
  PROVE  /\ NewRun(m, role, mode) \in RunRows
         /\ PendingAnswers(m) \in [Questions -> QuestionRows]
<1>1. NewRun(m, role, mode) \in RunRows
  BY DEF NewRun, RunRows
<1>2. ASSUME NEW q \in Questions, \E i \in 1..Len(Plan[m]) : Plan[m][i] = q
      PROVE  PositionOf(m, q) \in 1..Len(Plan[m]) /\ Plan[m][PositionOf(m, q)] = q
  BY <1>2 DEF PositionOf
<1>3. Len(Plan[m]) \in Nat
  BY PlanAssumption
<1>4. PendingAnswers(m) \in [Questions -> QuestionRows]
  BY <1>2, <1>3 DEF PendingAnswers, QuestionRows, NoQuestion
<1> QED
  BY <1>1, <1>4

LEMMA ProjectTyped ==
  ASSUME NEW rw \in RunRows, NEW e \in Events
  PROVE  Project(rw, e) \in RunRows
<1> DEFINE counted == [rw EXCEPT !.event_count = @ + 1]
<1>1. counted \in RunRows
  BY DEF RunRows
<1>2. CASE e.kind = "START"
  <2>1. Project(rw, e) = [counted EXCEPT !.status = "running"]
    BY <1>2 DEF Project
  <2> HIDE DEF counted
  <2> QED
    BY <1>1, <2>1 DEF RunRows
<1>3. CASE e.kind = "QUESTION"
  <2> DEFINE good == IF e.body.status = "completed" THEN 1 ELSE 0
             bad == IF e.body.status = "failed" THEN 1 ELSE 0
             tried == [counted EXCEPT !.attempted = @ + 1]
             passed == [tried EXCEPT !.completed = @ + good]
  <2>1. Project(rw, e) = [passed EXCEPT !.failed = @ + bad]
    BY <1>3 DEF Project
  <2>2. good \in Nat /\ bad \in Nat
    OBVIOUS
  <2> HIDE DEF counted, good, bad
  <2>3. tried \in RunRows
    BY <1>1 DEF RunRows
  <2> HIDE DEF tried
  <2>4. passed \in RunRows
    BY <2>2, <2>3 DEF RunRows
  <2> HIDE DEF passed
  <2> QED
    BY <2>1, <2>2, <2>4 DEF RunRows
<1>4. CASE e.kind = "FINISH"
  <2> DEFINE ended == [counted EXCEPT !.status = e.body.status]
  <2>1. e.body \in Summaries /\ e.body.status \in Final
    BY <1>4, EventAssumption DEF Summaries
  <2>2. Project(rw, e) = [ended EXCEPT !.summary = e.body]
    BY <1>4 DEF Project
  <2> HIDE DEF counted
  <2>3. ended \in RunRows
    BY <1>1, <2>1 DEF RunRows
  <2> HIDE DEF ended
  <2> QED
    BY <2>1, <2>2, <2>3 DEF RunRows
<1>5. CASE e.kind = "DIAGNOSTIC"
  BY <1>1, <1>5 DEF Project
<1> QED
  BY <1>2, <1>3, <1>4, <1>5, EventAssumption

LEMMA AnswerTyped ==
  ASSUME NEW rw \in RunRows, NEW ans \in [Questions -> QuestionRows], NEW e \in Events,
         Acceptable(rw, ans, e)
  PROVE  Answer(ans, e) \in [Questions -> QuestionRows]
<1>1. CASE e.kind = "QUESTION"
  <2>1. e.qid \in Questions /\ e.body \in Outcomes
    BY <1>1, EventAssumption DEF Acceptable
  <2> QED
    BY <1>1, <2>1 DEF Answer, QuestionRows, Outcomes
<1>2. CASE e.kind # "QUESTION"
  BY <1>2 DEF Answer
<1> QED
  BY <1>1, <1>2
-----------------------------------------------------------------------------
(* Types, positions and ownership *)

\* The row of a run belongs to the one transaction that holds it, and only a
\* transaction that holds a row has uncommitted events.
LockOK ==
  /\ \A c \in Clients : Holding(c) => owner[Run(c)] = c
  /\ \A r \in Runs : owner[r] # None => Holding(owner[r]) /\ Run(owner[r]) = r
  /\ \A c \in Clients : ~Holding(c) => fresh[c] = {}

Base == TypeOK /\ JobOK /\ LockOK

LEMMA InitBase == Init => Base
<1> SUFFICES ASSUME Init PROVE Base
  OBVIOUS
<1>1. NoAnswers \in [Questions -> QuestionRows]
  BY DEF NoAnswers, NoQuestion, QuestionRows
<1>2. TypeOK
  BY <1>1 DEF Init, TypeOK
<1>3. JobOK
  BY DEF Init, JobOK, Holding
<1>4. LockOK
  BY DEF Init, LockOK, Holding
<1> QED
  BY <1>2, <1>3, <1>4 DEF Base

LEMMA BeginBase ==
  ASSUME Base, NEW c \in Clients, Begin(c)
  PROVE  Base'
<1> USE DEF Base
<1>1. TypeOK'
  BY DEF Begin, TypeOK, tables, view
<1>2. JobOK'
  BY DEF Begin, TypeOK, JobOK, tables, view, Holding, Event, Run
<1>3. LockOK'
  BY DEF Begin, TypeOK, LockOK, tables, view, Holding, Run
<1> QED
  BY <1>1, <1>2, <1>3

LEMMA RollbackBase ==
  ASSUME Base, NEW c \in Clients, Rollback(c)
  PROVE  Base'
<1> USE DEF Base
<1>1. NoAnswers \in [Questions -> QuestionRows]
  BY DEF NoAnswers, NoQuestion, QuestionRows
<1>2. TypeOK'
  BY <1>1 DEF Rollback, TypeOK, tables
<1>3. JobOK'
  BY DEF Rollback, TypeOK, JobOK, Holding, Event, Run
<1>4. ~Holding(c)' /\ \A d \in Clients \ {c} : (Holding(d)' <=> Holding(d)) /\ Run(d)' = Run(d)
  BY DEF Rollback, TypeOK, Holding, Run
<1>5. \A r \in Runs : owner'[r] = IF owner[r] = c THEN None ELSE owner[r]
  BY DEF Rollback
<1>6. ASSUME NEW d \in Clients, Holding(d)'
      PROVE  owner'[Run(d)'] = d
  <2>1. d # c /\ Holding(d) /\ Run(d)' = Run(d)
    BY <1>4, <1>6
  <2>2. job[d] \in Jobs
    BY <2>1 DEF JobOK, Holding
  <2>3. Run(d) \in Runs
    BY <2>2, JobShape DEF Run
  <2>4. owner[Run(d)] = d
    BY <2>1 DEF LockOK
  <2> QED
    BY <1>5, <2>1, <2>3, <2>4
<1>7. ASSUME NEW r \in Runs, owner'[r] # None
      PROVE  Holding(owner[r])' /\ Run(owner[r])' = r
  <2>1. owner'[r] = owner[r] /\ owner[r] # c /\ owner[r] \in Clients
    BY <1>5, <1>7 DEF TypeOK
  <2>2. Holding(owner[r]) /\ Run(owner[r]) = r
    BY <1>7, <2>1 DEF LockOK
  <2> QED
    BY <1>4, <2>1, <2>2
<1>8. \A d \in Clients : ~Holding(d)' => fresh'[d] = {}
  BY <1>4 DEF Rollback, TypeOK, LockOK
<1>9. LockOK'
  BY <1>6, <1>7, <1>8 DEF LockOK
<1> QED
  BY <1>2, <1>3, <1>9

\* Taking a free row for an active transaction, whatever the row says.
LEMMA HoldBase ==
  ASSUME Base, NEW c \in Clients, pc[c] = "acquire", owner[Run(c)] = None,
         NEW rw \in RunRows, NEW ans \in [Questions -> QuestionRows], Hold(c, rw, ans)
  PROVE  Base'
<1> USE DEF Base
<1>1. job[c] \in Jobs /\ next[c] = 1
  BY DEF JobOK
<1>2. /\ Run(c) \in Runs
      /\ job[c].events \in Seq(Events)
      /\ job[c].events # <<>> => Len(job[c].events) > 0
  BY <1>1, JobShape DEF Run
<1>3. TypeOK'
  BY <1>2 DEF Hold, TypeOK, tables
<1>4. JobOK'
  <2> SUFFICES ASSUME NEW d \in Clients
               PROVE  /\ pc'[d] # "idle" => job'[d] \in Jobs
                      /\ pc'[d] = "acquire" => next'[d] = 1
                      /\ pc'[d] \in {"check", "claim"} => next'[d] \in 1..Len(job'[d].events)
                      /\ pc'[d] \in {"commit", "ok"} => next'[d] = Len(job'[d].events) + 1
                      /\ pc'[d] = "claim" => /\ Event(d)'.run = Run(d)'
                                             /\ Acceptable(row'[d], answers'[d], Event(d)')
                      /\ Holding(d)' => row'[d] \in RunRows
    BY DEF JobOK
  <2>1. CASE d = c
    BY <1>1, <1>2, <2>1 DEF Hold, TypeOK, JobOK, Holding
  <2>2. CASE d # c
    BY <2>2 DEF Hold, TypeOK, JobOK, Holding, Event, Run
  <2> QED
    BY <2>1, <2>2
<1>5. LockOK'
  BY <1>2, NoneAssumption DEF Hold, TypeOK, LockOK, Holding, Run
<1> QED
  BY <1>3, <1>4, <1>5

LEMMA CreateBase ==
  ASSUME Base, NEW c \in Clients, Create(c)
  PROVE  Base'
<1>1. Wanted(c) \in Metas
  BY WantedTyped DEF Base, Create
<1>2. job[c].role \in Roles
  BY JobShape DEF Base, JobOK, Create
<1> QED
  BY <1>1, <1>2, NewRunTyped, HoldBase DEF Create

LEMMA LockBase ==
  ASSUME Base, NEW c \in Clients, Lock(c)
  PROVE  Base'
<1>1. Run(c) \in Runs
  BY JobShape DEF Base, JobOK, Lock, Run
<1>2. runs[Run(c)] \in RunRows /\ results[Run(c)] \in [Questions -> QuestionRows]
  BY <1>1 DEF Base, TypeOK, Lock
<1> QED
  BY <1>2, HoldBase DEF Lock

\* Moving on to the next event, with a view of c that is still typed.
LEMMA AdvanceBase ==
  ASSUME Base, NEW c \in Clients, pc[c] \in {"check", "claim"}, Advance(c),
         UNCHANGED <<tables, owner, job>>,
         fresh' \in [Clients -> SUBSET TraceRows],
         row' \in [Clients -> RunRows \cup {None}],
         answers' \in [Clients -> [Questions -> QuestionRows]],
         row'[c] \in RunRows,
         \A d \in Clients \ {c} :
           row'[d] = row[d] /\ answers'[d] = answers[d] /\ fresh'[d] = fresh[d]
  PROVE  Base'
<1> USE DEF Base
<1>1. /\ job[c] \in Jobs
      /\ next[c] \in 1..Len(job[c].events)
  BY DEF JobOK
<1>2. Len(job[c].events) \in Nat
  BY <1>1, JobShape
<1>3. TypeOK'
  <2>1. next' \in [Clients -> Nat \ {0}]
    BY DEF Advance, TypeOK
  <2>2. pc' \in [Clients -> {"idle", "acquire", "check", "claim", "commit", "ok"}]
    BY DEF Advance, TypeOK
  <2> QED
    BY <2>1, <2>2 DEF TypeOK, tables
<1>4. JobOK'
  <2> SUFFICES ASSUME NEW d \in Clients
               PROVE  /\ pc'[d] # "idle" => job'[d] \in Jobs
                      /\ pc'[d] = "acquire" => next'[d] = 1
                      /\ pc'[d] \in {"check", "claim"} => next'[d] \in 1..Len(job'[d].events)
                      /\ pc'[d] \in {"commit", "ok"} => next'[d] = Len(job'[d].events) + 1
                      /\ pc'[d] = "claim" => /\ Event(d)'.run = Run(d)'
                                             /\ Acceptable(row'[d], answers'[d], Event(d)')
                      /\ Holding(d)' => row'[d] \in RunRows
    BY DEF JobOK
  <2>1. CASE d = c
    BY <1>1, <1>2, <2>1 DEF Advance, TypeOK, JobOK, Holding
  <2>2. CASE d # c
    BY <2>2 DEF Advance, TypeOK, JobOK, Holding, Event, Run
  <2> QED
    BY <2>1, <2>2
<1>5. LockOK'
  <2>1. \A d \in Clients : Holding(d)' <=> Holding(d)
    BY <1>3 DEF Advance, TypeOK, Holding
  <2> QED
    BY <2>1 DEF LockOK, TypeOK, Run, Holding
<1> QED
  BY <1>3, <1>4, <1>5

LEMMA ReplayBase ==
  ASSUME Base, NEW c \in Clients, Replay(c)
  PROVE  Base'
BY AdvanceBase DEF Replay, Base, TypeOK, JobOK, Holding, view

LEMMA InsertBase ==
  ASSUME Base, NEW c \in Clients, Insert(c)
  PROVE  Base'
<1>1. Event(c) \in Events
  BY EventTyped DEF Base, Insert
<1>2. row[c] \in RunRows /\ Acceptable(row[c], answers[c], Event(c))
  BY DEF Base, JobOK, Holding, Insert
<1>3. answers[c] \in [Questions -> QuestionRows]
  BY DEF Base, TypeOK
<1>4. /\ Project(row[c], Event(c)) \in RunRows
      /\ Answer(answers[c], Event(c)) \in [Questions -> QuestionRows]
  BY <1>1, <1>2, <1>3, ProjectTyped, AnswerTyped
<1>5. [event |-> Event(c), sequence |-> row[c].event_count + 1] \in TraceRows
  BY <1>1, <1>2 DEF RunRows, TraceRows
<1>6. /\ fresh' \in [Clients -> SUBSET TraceRows]
      /\ row' \in [Clients -> RunRows \cup {None}]
      /\ answers' \in [Clients -> [Questions -> QuestionRows]]
      /\ row'[c] \in RunRows
      /\ \A d \in Clients \ {c} :
           row'[d] = row[d] /\ answers'[d] = answers[d] /\ fresh'[d] = fresh[d]
  BY <1>4, <1>5 DEF Insert, Base, TypeOK
<1> QED
  BY <1>6, AdvanceBase DEF Insert

LEMMA AcceptBase ==
  ASSUME Base, NEW c \in Clients, Accept(c)
  PROVE  Base'
<1> USE DEF Base
<1>1. TypeOK'
  BY DEF Accept, TypeOK, tables, view
<1>2. Event(c).run = Run(c)
  <2>1. job[c] \in Jobs /\ next[c] \in 1..Len(job[c].events)
    BY DEF Accept, JobOK
  <2>2. CASE job[c].mode = "import"
    BY <2>2 DEF Accept, LineRefused, InExportOrder, Event, Run
  <2>3. CASE job[c].mode = "live"
    BY <2>1, <2>3, JobShape DEF Event, Run
  <2>4. CASE job[c].mode = "register"
    BY <2>1, <2>4, JobShape
  <2> QED
    BY <2>1, <2>2, <2>3, <2>4, JobShape
<1>3. JobOK'
  BY <1>2 DEF Accept, TypeOK, JobOK, view, Holding, Event, Run
<1>4. LockOK'
  BY DEF Accept, TypeOK, LockOK, view, Holding, Run
<1> QED
  BY <1>1, <1>3, <1>4

LEMMA CommitBase ==
  ASSUME Base, NEW c \in Clients, Commit(c)
  PROVE  Base'
<1> USE DEF Base
<1>1. /\ job[c] \in Jobs /\ row[c] \in RunRows
      /\ Run(c) \in Runs /\ owner[Run(c)] = c
  BY JobShape DEF Commit, JobOK, LockOK, Holding, Run
<1>2. NoAnswers \in [Questions -> QuestionRows]
  BY DEF NoAnswers, NoQuestion, QuestionRows
<1>3. TypeOK'
  BY <1>1, <1>2 DEF Commit, TypeOK
<1>4. JobOK'
  BY <1>1 DEF Commit, TypeOK, JobOK, Holding, Event, Run
<1>5. ~Holding(c)' /\ \A d \in Clients \ {c} : (Holding(d)' <=> Holding(d)) /\ Run(d)' = Run(d)
  BY DEF Commit, TypeOK, Holding, Run
<1>6. owner' = [owner EXCEPT ![Run(c)] = None]
  BY DEF Commit
<1>7. ASSUME NEW d \in Clients, Holding(d)'
      PROVE  owner'[Run(d)'] = d
  <2>1. d # c /\ Holding(d) /\ Run(d)' = Run(d)
    BY <1>5, <1>7
  <2>2. owner[Run(d)] = d
    BY <2>1 DEF LockOK
  <2> QED
    BY <1>1, <1>6, <2>1, <2>2 DEF TypeOK
<1>8. ASSUME NEW r \in Runs, owner'[r] # None
      PROVE  Holding(owner[r])' /\ Run(owner[r])' = r
  <2>1. r # Run(c) /\ owner'[r] = owner[r] /\ owner[r] \in Clients
    BY <1>1, <1>6, <1>8 DEF TypeOK
  <2>2. Holding(owner[r]) /\ Run(owner[r]) = r
    BY <1>8, <2>1 DEF LockOK
  <2> QED
    BY <1>5, <2>1, <2>2
<1>9. \A d \in Clients : ~Holding(d)' => fresh'[d] = {}
  BY <1>5 DEF Commit, TypeOK, LockOK
<1>10. LockOK'
  BY <1>7, <1>8, <1>9 DEF LockOK
<1> QED
  BY <1>3, <1>4, <1>10

LEMMA ReturnBase ==
  ASSUME Base, NEW c \in Clients, Return(c)
  PROVE  Base'
<1> USE DEF Base
<1>1. TypeOK'
  BY DEF Return, TypeOK, tables, view
<1>2. JobOK'
  BY DEF Return, TypeOK, JobOK, view, Holding, Event, Run
<1>3. LockOK'
  BY DEF Return, TypeOK, LockOK, view, Holding, Run
<1> QED
  BY <1>1, <1>2, <1>3

LEMMA NextBase == Base /\ [Next]_vars => Base'
<1> SUFFICES ASSUME Base, [Next]_vars PROVE Base'
  OBVIOUS
<1>1. CASE Next
  BY <1>1, StepCases, BeginBase, RollbackBase, CreateBase, LockBase, ReplayBase,
     AcceptBase, InsertBase, CommitBase, ReturnBase
<1>2. CASE UNCHANGED vars
  BY <1>2 DEF vars, tables, view, Base, TypeOK, JobOK, LockOK, Holding, Event, Run
<1> QED
  BY <1>1, <1>2

\* Every behaviour of the store keeps every variable in its type.
THEOREM TypeCorrect == Spec => []TypeOK
<1>1. Base => TypeOK
  BY DEF Base
<1> QED
  BY <1>1, InitBase, NextBase, PTL DEF Spec

-----------------------------------------------------------------------------
(* The inductive invariant *)

\* What a transaction sees of the log of its run.
View(c) == Log(Run(c)) \cup fresh[c]

\* A planned question stands at its place in the plan.
Positioned(m, ans) ==
  \A q \in Questions : ans[q].status # "absent" =>
    /\ ans[q].position \in 1..Len(Plan[m])
    /\ Plan[m][ans[q].position] = q

\* The counters count the question rows, and a final summary agrees with them.
Counted(rw, ans) ==
  /\ IsFiniteSet({q \in Questions : ans[q].status = "completed"})
  /\ IsFiniteSet({q \in Questions : ans[q].status = "failed"})
  /\ rw.completed = Cardinality({q \in Questions : ans[q].status = "completed"})
  /\ rw.failed = Cardinality({q \in Questions : ans[q].status = "failed"})
  /\ rw.status \in Final => SummaryHonest(rw, ans)

\* A run row, its question rows and its events agree.
Consistent(rw, ans, rows) ==
  /\ GapFree(rw, rows)
  /\ InLifecycle(rw, rows)
  /\ Projected(ans, rows)
  /\ InPlanOrder(rw, ans)
  /\ Positioned(rw.meta, ans)
  /\ Counted(rw, ans)

TablesOK ==
  \A r \in Runs : IF Stored(r) THEN Consistent(runs[r], results[r], Log(r))
                               ELSE Log(r) = {}

\* Of one client c: what its transaction sees of its run is consistent.
ViewOK(c) == Holding(c) => Consistent(row[c], answers[c], View(c))

\* Its uncommitted events belong to that run, their IDs are not the one it is
\* about to insert, and there is none before the first event is done.
KeyOK(c) ==
  /\ \A x \in fresh[c] : x.event.run = Run(c)
  /\ pc[c] = "claim" => \A x \in fresh[c] : IdOf(x) # Event(c).id
  /\ next[c] = 1 => fresh[c] = {}

\* A start event is the first of its job and carries the metadata of the run.
ContextOK(c) ==
  /\ pc[c] \in {"check", "claim"} /\ next[c] = 1 /\ Event(c).kind = "START"
       => Event(c).body = row[c].meta
  /\ pc[c] = "claim" /\ Event(c).kind = "START" => next[c] = 1

\* Every event it has passed is in its view.
DoneOK(c) ==
  Holding(c) => \A k \in 1..(next[c] - 1) : \E x \in View(c) : x.event = job[c].events[k]

\* Over a finalized run it has changed nothing.
FrozenOK(c) ==
  Holding(c) /\ Stored(Run(c)) /\ runs[Run(c)].status \in Final =>
    row[c] = runs[Run(c)] /\ answers[c] = results[Run(c)] /\ fresh[c] = {}

\* Whoever sees an unfinished imported run is the import itself.
ImportOK(c) ==
  Holding(c) /\ row[c].mode = "import" => job[c].mode = "import" \/ row[c].status \in Final

\* What its caller was told is stored.
AckOK(c) ==
  pc[c] = "ok" =>
    /\ Stored(Run(c))
    /\ \A i \in DOMAIN job[c].events : \E x \in trace_events : x.event = job[c].events[i]
    /\ job[c].mode = "import" => runs[Run(c)].status \in Final

ClientOK(c) ==
  /\ ViewOK(c) /\ KeyOK(c) /\ ContextOK(c) /\ DoneOK(c)
  /\ FrozenOK(c) /\ ImportOK(c) /\ AckOK(c)

Inv ==
  /\ Base
  /\ EventKeysUnique /\ TablesOK /\ ImportsAreWhole
  /\ \A c \in Clients : ClientOK(c)
-----------------------------------------------------------------------------
(* One run: a new run is consistent, and an acceptable event keeps it so *)

LEMMA NewConsistent ==
  ASSUME NEW m \in Metas, NEW role \in Roles, NEW mode \in {"live", "import"}
  PROVE  Consistent(NewRun(m, role, mode), PendingAnswers(m), {})
<1> DEFINE rw == NewRun(m, role, mode)
           ans == PendingAnswers(m)
<1>1. /\ rw.meta = m /\ rw.status = "registered" /\ rw.event_count = 0
      /\ rw.attempted = 0 /\ rw.completed = 0 /\ rw.failed = 0
  BY DEF NewRun
<1>2. Len(Plan[m]) \in Nat
  BY PlanAssumption
<1>3. ASSUME NEW q \in Questions
      PROVE  \/ ans[q].status = "absent"
             \/ /\ ans[q].status = "pending"
                /\ ans[q].position \in 1..Len(Plan[m])
                /\ Plan[m][ans[q].position] = q
  <2>1. CASE \E i \in 1..Len(Plan[m]) : Plan[m][i] = q
    <3>1. PositionOf(m, q) \in 1..Len(Plan[m]) /\ Plan[m][PositionOf(m, q)] = q
      BY <2>1 DEF PositionOf
    <3> QED
      BY <2>1, <3>1 DEF PendingAnswers
  <2>2. CASE ~ \E i \in 1..Len(Plan[m]) : Plan[m][i] = q
    BY <2>2 DEF PendingAnswers, NoQuestion
  <2> QED
    BY <2>1, <2>2
<1> HIDE DEF rw, ans
<1>4. GapFree(rw, {})
  BY <1>1 DEF GapFree
<1>5. InLifecycle(rw, {})
  BY <1>1 DEF InLifecycle, Final
<1>6. Projected(ans, {})
  BY <1>3 DEF Projected, Final
<1>7. InPlanOrder(rw, ans)
  BY <1>1, <1>2, <1>3 DEF InPlanOrder, Final
<1>8. Positioned(rw.meta, ans)
  BY <1>1, <1>3 DEF Positioned
<1>9. Counted(rw, ans)
  <2>1. /\ {q \in Questions : ans[q].status = "completed"} = {}
        /\ {q \in Questions : ans[q].status = "failed"} = {}
    BY <1>3
  <2> QED
    BY <1>1, <2>1, FS_EmptySet DEF Counted, Final
<1> QED
  BY <1>4, <1>5, <1>6, <1>7, <1>8, <1>9 DEF Consistent, rw, ans

\* What an event does to the columns of its run.
LEMMA ProjectFields ==
  ASSUME NEW rw \in RunRows, NEW e \in Events
  PROVE  /\ Project(rw, e).event_count = rw.event_count + 1
         /\ Project(rw, e).meta = rw.meta
         /\ Project(rw, e).role = rw.role
         /\ Project(rw, e).mode = rw.mode
         /\ e.kind = "START" => Project(rw, e).status = "running"
         /\ e.kind \in {"QUESTION", "DIAGNOSTIC"} => Project(rw, e).status = rw.status
         /\ e.kind = "FINISH" => /\ Project(rw, e).status = e.body.status
                                 /\ Project(rw, e).summary = e.body
         /\ e.kind # "QUESTION" => /\ Project(rw, e).attempted = rw.attempted
                                   /\ Project(rw, e).completed = rw.completed
                                   /\ Project(rw, e).failed = rw.failed
         /\ e.kind = "QUESTION" =>
              /\ Project(rw, e).attempted = rw.attempted + 1
              /\ e.body.status = "completed" =>
                   /\ Project(rw, e).completed = rw.completed + 1
                   /\ Project(rw, e).failed = rw.failed
              /\ e.body.status = "failed" =>
                   /\ Project(rw, e).completed = rw.completed
                   /\ Project(rw, e).failed = rw.failed + 1
<1>1. CASE e.kind = "START"
  BY <1>1 DEF Project, RunRows
<1>2. CASE e.kind = "QUESTION"
  <2> DEFINE counted == [rw EXCEPT !.event_count = @ + 1]
             good == IF e.body.status = "completed" THEN 1 ELSE 0
             bad == IF e.body.status = "failed" THEN 1 ELSE 0
             tried == [counted EXCEPT !.attempted = @ + 1]
             passed == [tried EXCEPT !.completed = @ + good]
  <2>1. Project(rw, e) = [passed EXCEPT !.failed = @ + bad]
    BY <1>2 DEF Project
  <2>2. counted \in RunRows /\ tried \in RunRows
    <3>1. counted \in RunRows
      BY DEF RunRows
    <3> HIDE DEF counted
    <3> QED
      BY <3>1 DEF RunRows
  <2>3. counted.event_count = rw.event_count + 1
    BY DEF RunRows
  <2>4. /\ counted.attempted = rw.attempted /\ counted.completed = rw.completed
        /\ counted.failed = rw.failed /\ counted.meta = rw.meta
        /\ counted.role = rw.role /\ counted.mode = rw.mode
        /\ counted.status = rw.status
    BY DEF RunRows
  <2>5. good \in Nat /\ bad \in Nat
    OBVIOUS
  <2>6. /\ e.body.status = "completed" => good = 1 /\ bad = 0
        /\ e.body.status = "failed" => good = 0 /\ bad = 1
    OBVIOUS
  <2> HIDE DEF counted, good, bad
  <2>7. /\ tried.attempted = counted.attempted + 1
        /\ tried.completed = counted.completed /\ tried.failed = counted.failed
        /\ tried.event_count = counted.event_count /\ tried.meta = counted.meta
        /\ tried.role = counted.role /\ tried.mode = counted.mode
        /\ tried.status = counted.status
    BY <2>2 DEF RunRows
  <2> HIDE DEF tried
  <2>8. /\ passed \in RunRows
        /\ passed.completed = tried.completed + good
        /\ passed.attempted = tried.attempted /\ passed.failed = tried.failed
        /\ passed.event_count = tried.event_count /\ passed.meta = tried.meta
        /\ passed.role = tried.role /\ passed.mode = tried.mode
        /\ passed.status = tried.status
    BY <2>2, <2>5 DEF RunRows
  <2> HIDE DEF passed
  <2>9. /\ Project(rw, e).failed = passed.failed + bad
        /\ Project(rw, e).completed = passed.completed
        /\ Project(rw, e).attempted = passed.attempted
        /\ Project(rw, e).event_count = passed.event_count
        /\ Project(rw, e).meta = passed.meta /\ Project(rw, e).role = passed.role
        /\ Project(rw, e).mode = passed.mode /\ Project(rw, e).status = passed.status
    BY <2>1, <2>5, <2>8 DEF RunRows
  <2>10. rw.completed \in Nat /\ rw.failed \in Nat
    BY DEF RunRows
  <2> QED
    BY <1>2, <2>3, <2>4, <2>6, <2>7, <2>8, <2>9, <2>10
<1>3. CASE e.kind = "FINISH"
  BY <1>3 DEF Project, RunRows
<1>4. CASE e.kind = "DIAGNOSTIC"
  BY <1>4 DEF Project, RunRows
<1> QED
  BY <1>1, <1>2, <1>3, <1>4, EventAssumption

LEMMA ExtendGapFree ==
  ASSUME NEW rw \in RunRows, NEW rows \in SUBSET TraceRows, GapFree(rw, rows),
         NEW e \in Events, NEW x, x.sequence = rw.event_count + 1
  PROVE  GapFree(Project(rw, e), rows \cup {x})
<1>1. rw.event_count \in Nat /\ Project(rw, e).event_count = rw.event_count + 1
  BY ProjectFields DEF RunRows
<1>2. \A y \in rows : y.sequence \in 1..rw.event_count
  BY DEF GapFree
<1>3. \A y \in rows \cup {x} : y.sequence \in 1..(rw.event_count + 1)
  BY <1>1, <1>2
<1>4. \A n \in 1..(rw.event_count + 1) : \E y \in rows \cup {x} : y.sequence = n
  <2> TAKE n \in 1..(rw.event_count + 1)
  <2>1. CASE n = rw.event_count + 1
    BY <2>1
  <2>2. CASE n \in 1..rw.event_count
    BY <2>2 DEF GapFree
  <2> QED
    BY <1>1, <2>1, <2>2
<1>5. \A y, z \in rows \cup {x} : y.sequence = z.sequence => y = z
  BY <1>1, <1>2 DEF GapFree
<1> QED
  BY <1>1, <1>3, <1>4, <1>5 DEF GapFree

LEMMA ExtendInLifecycle ==
  ASSUME NEW rw \in RunRows, NEW ans, NEW rows \in SUBSET TraceRows,
         GapFree(rw, rows), InLifecycle(rw, rows),
         NEW e \in Events, Acceptable(rw, ans, e), e.kind = "START" => e.body = rw.meta,
         NEW x, x.event = e, x.sequence = rw.event_count + 1
  PROVE  InLifecycle(Project(rw, e), rows \cup {x})
<1> DEFINE new == Project(rw, e)
<1>1. /\ new.meta = rw.meta /\ new.event_count = rw.event_count + 1
      /\ rw.event_count \in Nat
      /\ e.kind = "START" => new.status = "running"
      /\ e.kind \in {"QUESTION", "DIAGNOSTIC"} => new.status = rw.status
      /\ e.kind = "FINISH" => new.status = e.body.status /\ new.summary = e.body
  BY ProjectFields DEF RunRows
<1> HIDE DEF new
<1>2. /\ e.kind = "START" => rw.status = "registered"
      /\ e.kind # "START" => rw.status = "running"
  BY DEF Acceptable
<1>3. e.kind \in {"START", "QUESTION", "FINISH", "DIAGNOSTIC"}
  BY EventAssumption
<1>4. e.kind = "FINISH" => e.body.status \in Final
  BY EventAssumption DEF Summaries
<1>5. \A y \in rows : y.event.kind # "FINISH"
  <2> SUFFICES ASSUME NEW y \in rows, y.event.kind = "FINISH" PROVE FALSE
    OBVIOUS
  <2>1. y.event \in Events
    BY DEF TraceRows
  <2>2. rw.status \in Final
    BY <2>1, EventAssumption DEF InLifecycle, Summaries
  <2> QED
    BY <1>2, <2>2 DEF Final
<1>6. e.kind = "START" => rows = {} /\ rw.event_count = 0
  <2>1. e.kind = "START" => rows = {}
    BY <1>2 DEF InLifecycle
  <2> QED
    BY <1>1, <2>1 DEF GapFree
<1>7. e.kind # "START" => rw.event_count > 0
  <2>1. e.kind # "START" => rows # {}
    BY <1>2 DEF InLifecycle
  <2> QED
    BY <1>1, <2>1 DEF GapFree
<1>8. new.status # "registered"
  BY <1>1, <1>2, <1>3, <1>4 DEF Final
<1>9. \A y \in rows \cup {x} : y.event.kind = "START" <=> y.sequence = 1
  BY <1>1, <1>6, <1>7 DEF InLifecycle
<1>10. \A y \in rows \cup {x} : y.event.kind = "START" => y.event.body = new.meta
  BY <1>1 DEF InLifecycle
<1>11. \A y \in rows \cup {x} : y.event.kind = "FINISH" =>
         /\ y.sequence = new.event_count
         /\ new.status = y.event.body.status
         /\ new.summary = y.event.body
  BY <1>1, <1>5
<1>12. new.status \in Final => \E y \in rows \cup {x} : y.event.kind = "FINISH"
  BY <1>1, <1>2, <1>3 DEF Final
<1>13. rows \cup {x} # {}
  OBVIOUS
<1> QED
  BY <1>8, <1>9, <1>10, <1>11, <1>12, <1>13 DEF InLifecycle, new

LEMMA ExtendAnswers ==
  ASSUME NEW rw \in RunRows, NEW ans \in [Questions -> QuestionRows],
         NEW rows \in SUBSET TraceRows,
         Projected(ans, rows), InPlanOrder(rw, ans), Positioned(rw.meta, ans),
         NEW e \in Events, Acceptable(rw, ans, e), NEW x, x.event = e
  PROVE  /\ Projected(Answer(ans, e), rows \cup {x})
         /\ InPlanOrder(Project(rw, e), Answer(ans, e))
         /\ Positioned(Project(rw, e).meta, Answer(ans, e))
<1> DEFINE new == Project(rw, e)
           ans2 == Answer(ans, e)
<1>1. CASE e.kind # "QUESTION"
  <2>1. ans2 = ans
    BY <1>1 DEF Answer
  <2>2. /\ new.attempted = rw.attempted /\ new.completed = rw.completed
        /\ new.failed = rw.failed /\ new.meta = rw.meta
    BY <1>1, ProjectFields
  <2> HIDE DEF new, ans2
  <2>3. Projected(ans2, rows \cup {x})
    BY <1>1, <2>1 DEF Projected
  <2>4. InPlanOrder(new, ans2)
    BY <2>1, <2>2 DEF InPlanOrder
  <2>5. Positioned(new.meta, ans2)
    BY <2>1, <2>2
  <2> QED
    BY <2>3, <2>4, <2>5 DEF new, ans2
<1>2. CASE e.kind = "QUESTION"
  <2> DEFINE p == e.qid
  <2>1. /\ p \in Questions /\ ans[p].status # "absent"
        /\ rw.failed = 0 /\ ans[p].position = rw.attempted + 1
    BY <1>2, EventAssumption DEF Acceptable
  <2>2. e.body \in Outcomes
    BY <1>2, EventAssumption
  <2>3. e.body.status \in Final
    BY <2>2 DEF Outcomes
  <2>4. /\ ans2[p].status = e.body.status /\ ans2[p].score = e.body.score
        /\ ans2[p].position = rw.attempted + 1
        /\ \A q \in Questions \ {p} : ans2[q] = ans[q]
    BY <1>2, <2>1 DEF Answer, QuestionRows
  <2>5. /\ rw.attempted \in Nat /\ rw.completed \in Nat /\ rw.failed \in Nat
        /\ new.meta = rw.meta
        /\ new.attempted = rw.attempted + 1
        /\ e.body.status = "completed" =>
             new.completed = rw.completed + 1 /\ new.failed = rw.failed
        /\ e.body.status = "failed" =>
             new.completed = rw.completed /\ new.failed = rw.failed + 1
    BY <1>2, ProjectFields DEF RunRows
  <2>6. ans[p].status \notin Final
    BY <2>1, <2>5 DEF InPlanOrder
  <2>7. \A y \in rows : y.event.kind = "QUESTION" => y.event.qid # p
    BY <2>6 DEF Projected
  <2>8. \A y \in rows : y.event.kind = "QUESTION" => y.event.qid \in Questions
    BY DEF Projected
  <2> HIDE DEF new, ans2, p
  <2>9. Projected(ans2, rows \cup {x})
    <3>1. \A q \in Questions : ans2[q].status \in Final =>
            \E y \in rows \cup {x} : /\ y.event.kind = "QUESTION" /\ y.event.qid = q
                                     /\ y.event.body.status = ans2[q].status
                                     /\ y.event.body.score = ans2[q].score
      BY <1>2, <2>4 DEF Projected, p
    <3>2. \A y \in rows \cup {x} :
            y.event.kind = "QUESTION" =>
              y.event.qid \in Questions /\ ans2[y.event.qid].status \in Final
      BY <2>1, <2>3, <2>4, <2>7, <2>8 DEF Projected, p
    <3>3. \A y, z \in rows \cup {x} :
            /\ y.event.kind = "QUESTION" /\ z.event.kind = "QUESTION"
            /\ y.event.qid = z.event.qid
            => y = z
      BY <2>7 DEF Projected, p
    <3> QED
      BY <3>1, <3>2, <3>3 DEF Projected
  <2>10. \A q \in Questions \ {p} : ans[q].status # "absent" => ans[q].position # rw.attempted + 1
    <3> SUFFICES ASSUME NEW q \in Questions \ {p}, ans[q].status # "absent",
                        ans[q].position = rw.attempted + 1
                 PROVE  FALSE
      OBVIOUS
    <3>1. Plan[rw.meta][ans[q].position] = q /\ Plan[rw.meta][ans[p].position] = p
      BY <2>1 DEF Positioned
    <3> QED
      BY <2>1, <3>1
  <2>11. \A q \in Questions : ans[q].position \in Nat
    BY DEF QuestionRows
  <2>12. InPlanOrder(new, ans2)
    <3>1. new.attempted = new.completed + new.failed
      BY <2>3, <2>5 DEF InPlanOrder, Final
    <3>2. \A q \in Questions : ans2[q].status # "absent" =>
            (ans2[q].status \in Final <=> ans2[q].position <= new.attempted)
      <4> TAKE q \in Questions
      <4>1. CASE q = p
        BY <2>3, <2>4, <2>5, <4>1
      <4>2. CASE q # p
        <5>1. ans2[q] = ans[q]
          BY <2>4, <4>2
        <5>2. ans[q].status # "absent" =>
                (ans[q].status \in Final <=> ans[q].position <= rw.attempted)
          BY DEF InPlanOrder
        <5> QED
          BY <2>5, <2>10, <2>11, <4>2, <5>1, <5>2
      <4> QED
        BY <4>1, <4>2
    <3>3. \A q \in Questions : ans[q].status # "failed"
      BY <2>1 DEF InPlanOrder
    <3>4. \A q \in Questions : ans2[q].status = "failed" =>
            new.failed = 1 /\ ans2[q].position = new.attempted
      BY <2>1, <2>4, <2>5, <3>3
    <3>5. new.failed = 0 \/ (new.failed = 1 /\ \E q \in Questions : ans2[q].status = "failed")
      BY <2>1, <2>3, <2>4, <2>5 DEF Final
    <3> QED
      BY <3>1, <3>2, <3>4, <3>5 DEF InPlanOrder
  <2>13. Positioned(new.meta, ans2)
    BY <2>1, <2>4, <2>5 DEF Positioned
  <2> QED
    BY <2>9, <2>12, <2>13 DEF new, ans2
<1> QED
  BY <1>1, <1>2

LEMMA ExtendCounted ==
  ASSUME NEW rw \in RunRows, NEW ans \in [Questions -> QuestionRows],
         InPlanOrder(rw, ans), Positioned(rw.meta, ans), Counted(rw, ans),
         NEW e \in Events, Acceptable(rw, ans, e)
  PROVE  Counted(Project(rw, e), Answer(ans, e))
<1> DEFINE new == Project(rw, e)
           ans2 == Answer(ans, e)
           With(a, status) == {q \in Questions : a[q].status = status}
<1>1. /\ rw.attempted \in Nat /\ rw.completed \in Nat /\ rw.failed \in Nat
      /\ \A q \in Questions : ans[q].status \in {"absent", "pending", "completed", "failed"}
  BY DEF RunRows, QuestionRows, Final
<1>2. /\ e.kind = "START" => rw.status = "registered"
      /\ e.kind # "START" => rw.status = "running"
  BY DEF Acceptable
<1>3. CASE e.kind # "QUESTION"
  <2>1. ans2 = ans
    BY <1>3 DEF Answer
  <2>2. /\ new.completed = rw.completed /\ new.failed = rw.failed
        /\ e.kind = "START" => new.status = "running"
        /\ e.kind = "DIAGNOSTIC" => new.status = rw.status
        /\ e.kind = "FINISH" => new.status = e.body.status /\ new.summary = e.body
    BY <1>3, ProjectFields
  <2> HIDE DEF new, ans2
  <2>3. ASSUME new.status \in Final
        PROVE  SummaryHonest(new, ans)
    <3>1. e.kind = "FINISH"
      BY <1>2, <1>3, <2>2, <2>3, EventAssumption DEF Final
    <3>2. SummaryAgrees(rw, ans, e.body)
      BY <3>1 DEF Acceptable
    <3>3. ASSUME new.status = "completed", NEW q \in Questions
          PROVE  ans[q].status \in {"absent", "completed"}
      <4>1. rw.failed = 0 /\ rw.completed = Len(Plan[rw.meta])
        BY <2>2, <3>1, <3>2, <3>3 DEF SummaryAgrees
      <4>2. rw.attempted = Len(Plan[rw.meta])
        BY <1>1, <4>1 DEF InPlanOrder
      <4>3. ans[q].status # "absent" => ans[q].status \in Final
        BY <4>2 DEF InPlanOrder, Positioned
      <4>4. ans[q].status # "failed"
        BY <4>1 DEF InPlanOrder
      <4> QED
        BY <4>3, <4>4 DEF Final
    <3> QED
      BY <2>2, <3>1, <3>2, <3>3 DEF SummaryHonest, SummaryAgrees, Counted
  <2> QED
    BY <2>1, <2>2, <2>3 DEF Counted, new, ans2
<1>4. CASE e.kind = "QUESTION"
  <2> DEFINE p == e.qid
  <2>1. /\ p \in Questions /\ rw.failed = 0 /\ ans[p].status # "absent"
        /\ ans[p].position = rw.attempted + 1
        /\ e.body \in Outcomes /\ e.body.status \in Final
    BY <1>4, EventAssumption DEF Acceptable, Outcomes
  <2>2. ans[p].status \notin Final
    BY <1>1, <2>1 DEF InPlanOrder
  <2>3. /\ ans2[p].status = e.body.status
        /\ \A q \in Questions \ {p} : ans2[q] = ans[q]
    BY <1>4, <2>1 DEF Answer, QuestionRows
  <2>4. /\ new.status = rw.status
        /\ e.body.status = "completed" =>
             new.completed = rw.completed + 1 /\ new.failed = rw.failed
        /\ e.body.status = "failed" =>
             new.completed = rw.completed /\ new.failed = rw.failed + 1
    BY <1>4, ProjectFields
  <2> HIDE DEF new, ans2, p
  <2>5. /\ IsFiniteSet(With(ans, "completed")) /\ rw.completed = Cardinality(With(ans, "completed"))
        /\ IsFiniteSet(With(ans, "failed")) /\ rw.failed = Cardinality(With(ans, "failed"))
        /\ p \notin With(ans, "completed") /\ p \notin With(ans, "failed")
    BY <2>2 DEF Counted, Final
  <2>6. /\ e.body.status = "completed" =>
             /\ With(ans2, "completed") = With(ans, "completed") \cup {p}
             /\ With(ans2, "failed") = With(ans, "failed")
        /\ e.body.status = "failed" =>
             /\ With(ans2, "completed") = With(ans, "completed")
             /\ With(ans2, "failed") = With(ans, "failed") \cup {p}
    BY <2>1, <2>2, <2>3 DEF Final
  <2> HIDE DEF With
  <2>7. /\ IsFiniteSet(With(ans2, "completed")) /\ new.completed = Cardinality(With(ans2, "completed"))
        /\ IsFiniteSet(With(ans2, "failed")) /\ new.failed = Cardinality(With(ans2, "failed"))
    <3>1. CASE e.body.status = "completed"
      BY <2>4, <2>5, <2>6, <3>1, FS_AddElement
    <3>2. CASE e.body.status = "failed"
      BY <2>4, <2>5, <2>6, <3>2, FS_AddElement
    <3> QED
      BY <2>1, <3>1, <3>2 DEF Final
  <2>8. new.status \notin Final
    BY <1>2, <1>4, <2>4 DEF Final
  <2> QED
    BY <2>7, <2>8 DEF Counted, With, new, ans2
<1> QED
  BY <1>3, <1>4

LEMMA ExtendConsistent ==
  ASSUME NEW rw \in RunRows, NEW ans \in [Questions -> QuestionRows],
         NEW rows \in SUBSET TraceRows, Consistent(rw, ans, rows),
         NEW e \in Events, Acceptable(rw, ans, e), e.kind = "START" => e.body = rw.meta,
         NEW x, x.event = e, x.sequence = rw.event_count + 1
  PROVE  Consistent(Project(rw, e), Answer(ans, e), rows \cup {x})
BY ExtendGapFree, ExtendInLifecycle, ExtendAnswers, ExtendCounted DEF Consistent
-----------------------------------------------------------------------------
(* The invariant holds initially and each action preserves it *)

LEMMA InitInv == Init => Inv
<1> SUFFICES ASSUME Init PROVE Inv
  OBVIOUS
<1>1. /\ \A c \in Clients : pc[c] = "idle" /\ fresh[c] = {}
      /\ \A r \in Runs : ~Stored(r) /\ Log(r) = {}
      /\ trace_events = {}
  BY DEF Init, Stored, Log, RowsOf
<1>2. EventKeysUnique
  BY <1>1 DEF EventKeysUnique
<1>3. TablesOK /\ ImportsAreWhole
  BY <1>1 DEF TablesOK, ImportsAreWhole
<1>4. \A c \in Clients : ClientOK(c)
  BY <1>1 DEF ClientOK, ViewOK, KeyOK, ContextOK, DoneOK, FrozenOK, ImportOK, AckOK, Holding
<1> QED
  BY <1>2, <1>3, <1>4, InitBase DEF Inv

\* The run of a transaction that has begun is a run, and its job is a job.
LEMMA RunTyped ==
  ASSUME Base, NEW c \in Clients, pc[c] # "idle"
  PROVE  job[c] \in Jobs /\ Run(c) \in Runs /\ job[c].events \in Seq(Events)
BY JobShape DEF Base, JobOK, Run

\* A client that takes no part in a step that writes no table stays as it is.
LEMMA OthersKeep ==
  ASSUME NEW d \in Clients, ClientOK(d), UNCHANGED tables,
         pc'[d] = pc[d], job'[d] = job[d], next'[d] = next[d], row'[d] = row[d],
         answers'[d] = answers[d], fresh'[d] = fresh[d]
  PROVE  ClientOK(d)'
<1> USE DEF tables
<1>1. Run(d)' = Run(d) /\ Event(d)' = Event(d) /\ (Holding(d)' <=> Holding(d))
  BY DEF Run, Event, Holding
<1>2. Log(Run(d))' = Log(Run(d))
  BY <1>1 DEF Log, RowsOf
<1>3. View(d)' = View(d)
  BY <1>2 DEF View
<1>4. ViewOK(d)'
  BY <1>1, <1>3 DEF ClientOK, ViewOK
<1>5. KeyOK(d)' /\ ContextOK(d)'
  BY <1>1 DEF ClientOK, KeyOK, ContextOK
<1>6. DoneOK(d)'
  BY <1>1, <1>3 DEF ClientOK, DoneOK
<1>7. FrozenOK(d)' /\ ImportOK(d)' /\ AckOK(d)'
  BY <1>1 DEF ClientOK, FrozenOK, ImportOK, AckOK, Stored
<1> QED
  BY <1>4, <1>5, <1>6, <1>7 DEF ClientOK

\* A step that writes no table keeps what is said of the tables.
LEMMA TablesKeep ==
  ASSUME TablesOK, ImportsAreWhole, UNCHANGED tables
  PROVE  TablesOK' /\ ImportsAreWhole'
BY DEF TablesOK, ImportsAreWhole, tables, Stored, Log, RowsOf

\* A step of c alone, outside the tables, needs only to be looked at for c.
LEMMA LocalStep ==
  ASSUME Inv, Base', UNCHANGED tables, NEW c \in Clients, ClientOK(c)', EventKeysUnique',
         \A d \in Clients \ {c} :
           /\ pc'[d] = pc[d] /\ job'[d] = job[d] /\ next'[d] = next[d]
           /\ row'[d] = row[d] /\ answers'[d] = answers[d] /\ fresh'[d] = fresh[d]
  PROVE  Inv'
<1>1. TablesOK' /\ ImportsAreWhole'
  BY TablesKeep DEF Inv
<1>2. ASSUME NEW d \in Clients
      PROVE  ClientOK(d)'
  <2>1. CASE d = c
    BY <2>1
  <2>2. CASE d # c
    BY <2>2, OthersKeep DEF Inv
  <2> QED
    BY <2>1, <2>2
<1> QED
  BY <1>1, <1>2 DEF Inv

\* No new event key: the rows are among those there were.
LEMMA KeysKeep ==
  ASSUME EventKeysUnique, trace_events' \cup UNION {fresh'[c] : c \in Clients}
                            \subseteq trace_events \cup UNION {fresh[c] : c \in Clients}
  PROVE  EventKeysUnique'
BY DEF EventKeysUnique

LEMMA BeginInv ==
  ASSUME Inv, NEW c \in Clients, Begin(c)
  PROVE  Inv'
<1>1. Base'
  BY BeginBase DEF Inv
<1>2. fresh[c] = {}
  BY DEF Inv, Base, LockOK, Holding, Begin
<1>3. pc'[c] = "acquire" /\ fresh' = fresh /\ UNCHANGED tables
  BY DEF Begin, Inv, Base, TypeOK, view
<1>4. ClientOK(c)'
  BY <1>2, <1>3 DEF ClientOK, ViewOK, KeyOK, ContextOK, DoneOK, FrozenOK, ImportOK, AckOK, Holding
<1>5. EventKeysUnique'
  BY <1>3, KeysKeep DEF Inv, tables
<1> QED
  BY <1>1, <1>3, <1>4, <1>5, LocalStep DEF Begin, Inv, Base, TypeOK, view

LEMMA RollbackInv ==
  ASSUME Inv, NEW c \in Clients, Rollback(c)
  PROVE  Inv'
<1>1. Base'
  BY RollbackBase DEF Inv
<1>2. pc'[c] = "idle" /\ fresh'[c] = {} /\ UNCHANGED tables
  BY DEF Rollback, Inv, Base, TypeOK
<1>3. ClientOK(c)'
  BY <1>2 DEF ClientOK, ViewOK, KeyOK, ContextOK, DoneOK, FrozenOK, ImportOK, AckOK, Holding
<1>4. \A d \in Clients : fresh'[d] \subseteq fresh[d]
  BY DEF Rollback, Inv, Base, TypeOK
<1>5. EventKeysUnique'
  BY <1>2, <1>4, KeysKeep DEF Inv, tables
<1> QED
  BY <1>1, <1>2, <1>3, <1>5, LocalStep DEF Rollback, Inv, Base, TypeOK

LEMMA ReturnInv ==
  ASSUME Inv, NEW c \in Clients, Return(c)
  PROVE  Inv'
<1>1. Base'
  BY ReturnBase DEF Inv
<1>2. fresh[c] = {}
  BY DEF Inv, Base, LockOK, Holding, Return
<1>3. pc'[c] = "idle" /\ fresh' = fresh /\ UNCHANGED tables
  BY DEF Return, Inv, Base, TypeOK, view
<1>4. ClientOK(c)'
  BY <1>2, <1>3 DEF ClientOK, ViewOK, KeyOK, ContextOK, DoneOK, FrozenOK, ImportOK, AckOK, Holding
<1>5. EventKeysUnique'
  BY <1>3, KeysKeep DEF Inv, tables
<1> QED
  BY <1>1, <1>3, <1>4, <1>5, LocalStep DEF Return, Inv, Base, TypeOK, view

\* Taking the row of a run for a transaction, with what is known of the row.
LEMMA HoldInv ==
  ASSUME Inv, NEW c \in Clients, pc[c] = "acquire", owner[Run(c)] = None,
         NEW rw \in RunRows, NEW ans \in [Questions -> QuestionRows], Hold(c, rw, ans),
         Consistent(rw, ans, Log(Run(c))),
         job[c].events # <<>> /\ Event(c).kind = "START" => Event(c).body = rw.meta,
         Stored(Run(c)) => rw = runs[Run(c)] /\ ans = results[Run(c)],
         rw.mode = "import" => job[c].mode = "import" \/ rw.status \in Final
  PROVE  Inv'
<1>1. Base'
  BY HoldBase DEF Inv
<1>2. /\ pc'[c] = (IF job[c].events = <<>> THEN "commit" ELSE "check")
      /\ row'[c] = rw /\ answers'[c] = ans
      /\ UNCHANGED <<tables, job, next, fresh>>
  BY DEF Hold, Inv, Base, TypeOK
<1>3. fresh[c] = {} /\ next[c] = 1
  BY DEF Inv, Base, JobOK, LockOK, Holding
<1>4. /\ Run(c)' = Run(c) /\ Event(c)' = Event(c)
      /\ View(c)' = Log(Run(c))
  BY <1>2, <1>3 DEF Run, Event, View, Log, RowsOf, tables
<1>5. ViewOK(c)'
  BY <1>2, <1>4 DEF ViewOK
<1>6. KeyOK(c)' /\ ContextOK(c)' /\ DoneOK(c)'
  BY <1>2, <1>3, <1>4 DEF KeyOK, ContextOK, DoneOK
<1>7. FrozenOK(c)' /\ ImportOK(c)' /\ AckOK(c)'
  BY <1>2, <1>3, <1>4 DEF FrozenOK, ImportOK, AckOK, Stored, tables
<1>8. ClientOK(c)'
  BY <1>5, <1>6, <1>7 DEF ClientOK
<1>9. EventKeysUnique'
  BY <1>2, KeysKeep DEF Inv, tables
<1> QED
  BY <1>1, <1>2, <1>8, <1>9, LocalStep DEF Hold, Inv, Base, TypeOK

LEMMA CreateInv ==
  ASSUME Inv, NEW c \in Clients, Create(c)
  PROVE  Inv'
<1> DEFINE m == Wanted(c)
           mode == IF job[c].mode = "import" THEN "import" ELSE "live"
<1>1. /\ pc[c] = "acquire" /\ Registers(c) /\ runs[Run(c)] = None /\ owner[Run(c)] = None
      /\ Hold(c, NewRun(m, job[c].role, mode), PendingAnswers(m))
  BY DEF Create
<1>2. m \in Metas
  BY <1>1, WantedTyped DEF Inv, Base
<1>3. job[c].role \in Roles /\ Run(c) \in Runs /\ mode \in {"live", "import"}
      /\ (job[c].mode = "register" => job[c].events = <<>>)
  BY <1>1, RunTyped, JobShape DEF Inv
<1>4. Log(Run(c)) = {}
  BY <1>1, <1>3 DEF Inv, TablesOK, Stored
<1>5. NewRun(m, job[c].role, mode).meta = m /\ NewRun(m, job[c].role, mode).mode = mode
  BY DEF NewRun
<1>6. job[c].events # <<>> => m = Event(c).body
  BY <1>3 DEF Wanted
<1> HIDE DEF m, mode
<1>7. mode = "import" => job[c].mode = "import"
  BY DEF mode
<1> QED
  BY <1>1, <1>2, <1>3, <1>4, <1>5, <1>6, <1>7, NewRunTyped, NewConsistent, HoldInv DEF Stored

LEMMA LockInv ==
  ASSUME Inv, NEW c \in Clients, Lock(c)
  PROVE  Inv'
<1>1. /\ pc[c] = "acquire" /\ owner[Run(c)] = None /\ SameContext(c) /\ Stored(Run(c))
      /\ Hold(c, runs[Run(c)], results[Run(c)])
  BY DEF Lock, Stored
<1>2. /\ job[c] \in Jobs /\ Run(c) \in Runs
      /\ job[c].mode = "register" => job[c].events = <<>>
  BY <1>1, RunTyped, JobShape DEF Inv
<1>3. runs[Run(c)] \in RunRows /\ results[Run(c)] \in [Questions -> QuestionRows]
  BY <1>1, <1>2 DEF Inv, Base, TypeOK, Stored
<1>4. Consistent(runs[Run(c)], results[Run(c)], Log(Run(c)))
  BY <1>1, <1>2 DEF Inv, TablesOK
<1>5. job[c].events # <<>> /\ Event(c).kind = "START" => Event(c).body = runs[Run(c)].meta
  BY <1>1, <1>2 DEF SameContext, Registers, Wanted
<1>6. runs[Run(c)].mode = "import" => runs[Run(c)].status \in Final
  BY <1>1, <1>2 DEF Inv, ImportsAreWhole
<1> QED
  BY <1>1, <1>3, <1>4, <1>5, <1>6, HoldInv

\* The event at hand belongs to the run of the transaction, and a start event
\* can only be the first of its job.
LEMMA EventOfRun ==
  ASSUME Base, NEW c \in Clients, pc[c] = "check", ~LineRefused(c)
  PROVE  /\ Event(c).run = Run(c)
         /\ Event(c).kind = "START" => next[c] = 1
<1>1. job[c] \in Jobs /\ next[c] \in 1..Len(job[c].events)
  BY DEF Base, JobOK
<1>2. CASE job[c].mode = "import"
  BY <1>2 DEF LineRefused, InExportOrder, Event, Run
<1>3. CASE job[c].mode = "live"
  BY <1>1, <1>3, JobShape DEF Event, Run
<1>4. CASE job[c].mode = "register"
  BY <1>1, <1>4, JobShape
<1> QED
  BY <1>1, <1>2, <1>3, <1>4, JobShape

LEMMA ReplayInv ==
  ASSUME Inv, NEW c \in Clients, Replay(c)
  PROVE  Inv'
<1>1. Base'
  BY ReplayBase DEF Inv
<1>2. /\ pc[c] = "check" /\ ~LineRefused(c)
      /\ UNCHANGED <<tables, job, row, answers, fresh>>
      /\ pc'[c] \in {"check", "commit"} /\ next'[c] = next[c] + 1
  BY DEF Replay, Advance, Inv, Base, TypeOK, view
<1>3. next[c] \in Nat \ {0}
  BY DEF Inv, Base, TypeOK
<1>4. /\ Run(c)' = Run(c) /\ View(c)' = View(c)
      /\ Holding(c) /\ Holding(c)'
  BY <1>2 DEF Run, View, Log, RowsOf, Holding, tables
<1>5. \E x \in View(c) : x.event = job[c].events[next[c]]
  <2>1. PICK x \in Known(c) : x.event = Event(c)
    BY DEF Replay
  <2>2. x.event.run = Run(c)
    BY <1>2, <2>1, EventOfRun DEF Inv
  <2> QED
    BY <2>1, <2>2 DEF Known, View, Log, RowsOf, Event
<1>6. DoneOK(c)'
  <2> SUFFICES ASSUME NEW k \in 1..next[c]
               PROVE  \E x \in View(c) : x.event = job[c].events[k]
    BY <1>2, <1>3, <1>4 DEF DoneOK
  <2>1. CASE k = next[c]
    BY <1>5, <2>1
  <2>2. CASE k \in 1..(next[c] - 1)
    BY <1>4, <2>2 DEF Inv, ClientOK, DoneOK
  <2> QED
    BY <1>3, <2>1, <2>2
<1>7. ViewOK(c)' /\ KeyOK(c)' /\ ContextOK(c)'
  BY <1>2, <1>3, <1>4 DEF Inv, ClientOK, ViewOK, KeyOK, ContextOK
<1>8. FrozenOK(c)' /\ ImportOK(c)' /\ AckOK(c)'
  BY <1>2, <1>4 DEF Inv, ClientOK, FrozenOK, ImportOK, AckOK, Stored, tables
<1>9. EventKeysUnique'
  BY <1>2, KeysKeep DEF Inv, tables
<1> QED
  BY <1>1, <1>2, <1>6, <1>7, <1>8, <1>9, LocalStep
  DEF Replay, Advance, Inv, Base, TypeOK, view, ClientOK

LEMMA AcceptInv ==
  ASSUME Inv, NEW c \in Clients, Accept(c)
  PROVE  Inv'
<1>1. Base'
  BY AcceptBase DEF Inv
<1>2. /\ pc[c] = "check" /\ ~LineRefused(c) /\ Known(c) = {} /\ pc'[c] = "claim"
      /\ UNCHANGED <<tables, job, next, row, answers, fresh>>
  BY DEF Accept, Inv, Base, TypeOK, view
<1>3. /\ Run(c)' = Run(c) /\ Event(c)' = Event(c) /\ View(c)' = View(c)
      /\ Holding(c) /\ Holding(c)'
  BY <1>2 DEF Run, Event, View, Log, RowsOf, Holding, tables
<1>4. KeyOK(c)'
  BY <1>2, <1>3 DEF Inv, ClientOK, KeyOK, Known
<1>5. ContextOK(c)'
  BY <1>2, <1>3, EventOfRun DEF Inv, ClientOK, ContextOK
<1>6. ViewOK(c)' /\ DoneOK(c)'
  BY <1>2, <1>3 DEF Inv, ClientOK, ViewOK, DoneOK
<1>7. FrozenOK(c)' /\ ImportOK(c)' /\ AckOK(c)'
  BY <1>2, <1>3 DEF Inv, ClientOK, FrozenOK, ImportOK, AckOK, Stored, tables
<1>8. EventKeysUnique'
  BY <1>2, KeysKeep DEF Inv, tables
<1> QED
  BY <1>1, <1>2, <1>4, <1>5, <1>6, <1>7, <1>8, LocalStep
  DEF Accept, Inv, Base, TypeOK, view, ClientOK

LEMMA InsertInv ==
  ASSUME Inv, NEW c \in Clients, Insert(c)
  PROVE  Inv'
<1> DEFINE e == Event(c)
           x == [event |-> Event(c), sequence |-> row[c].event_count + 1]
<1>1. Base'
  BY InsertBase DEF Inv
<1>2. /\ pc[c] = "claim" /\ Holding(c) /\ job[c] \in Jobs
      /\ e \in Events /\ e.run = Run(c) /\ Acceptable(row[c], answers[c], e)
      /\ row[c] \in RunRows /\ next[c] \in Nat \ {0}
  BY EventTyped DEF Insert, Inv, Base, TypeOK, JobOK, Holding
<1>3. /\ pc'[c] \in {"check", "commit"} /\ next'[c] = next[c] + 1
      /\ UNCHANGED <<tables, job>>
      /\ row'[c] = Project(row[c], e) /\ answers'[c] = Answer(answers[c], e)
      /\ fresh'[c] = fresh[c] \cup {x}
  BY DEF Insert, Advance, Inv, Base, TypeOK
<1>4. \A d \in Clients \ {c} :
        /\ pc'[d] = pc[d] /\ job'[d] = job[d] /\ next'[d] = next[d]
        /\ row'[d] = row[d] /\ answers'[d] = answers[d] /\ fresh'[d] = fresh[d]
  BY DEF Insert, Advance, Inv, Base, TypeOK
<1>5. x.event = e /\ x.sequence = row[c].event_count + 1 /\ IdOf(x) = e.id
  BY DEF IdOf
<1>6. \A y \in trace_events \cup UNION {fresh[d] : d \in Clients} : IdOf(y) # e.id
  <2>1. \A y \in trace_events : IdOf(y) # e.id
    BY DEF Insert
  <2>2. \A y \in fresh[c] : IdOf(y) # e.id
    BY <1>2 DEF Inv, ClientOK, KeyOK
  <2>3. \A d \in Clients \ {c} : \A y \in fresh[d] : IdOf(y) # e.id
    BY <1>2 DEF Insert, Blocked, WaitsFor
  <2> QED
    BY <2>1, <2>2, <2>3
<1> HIDE DEF x, e
<1>7. EventKeysUnique'
  <2> SUFFICES ASSUME NEW y \in (trace_events \cup UNION {fresh[d] : d \in Clients})',
                      NEW z \in (trace_events \cup UNION {fresh[d] : d \in Clients})',
                      IdOf(y) = IdOf(z)
               PROVE  y = z
    BY DEF EventKeysUnique, IdOf
  <2>1. \A w \in (trace_events \cup UNION {fresh[d] : d \in Clients})' :
          w = x \/ w \in trace_events \cup UNION {fresh[d] : d \in Clients}
    BY <1>3, <1>4 DEF tables
  <2> QED
    BY <1>5, <1>6, <2>1 DEF Inv, EventKeysUnique
<1>8. Run(c)' = Run(c) /\ Holding(c)'
  BY <1>3 DEF Run, Holding
<1>9. View(c)' = View(c) \cup {x}
  BY <1>3, <1>8 DEF View, Log, RowsOf, tables
<1>10. ViewOK(c)'
  <2>1. View(c) \in SUBSET TraceRows
    BY DEF View, Log, RowsOf, Inv, Base, TypeOK
  <2>2. answers[c] \in [Questions -> QuestionRows]
    BY DEF Inv, Base, TypeOK
  <2>3. Consistent(row[c], answers[c], View(c))
    BY <1>2 DEF Inv, ClientOK, ViewOK
  <2>4. e.kind = "START" => e.body = row[c].meta
    BY <1>2 DEF Inv, ClientOK, ContextOK, e
  <2>5. Consistent(Project(row[c], e), Answer(answers[c], e), View(c) \cup {x})
    BY <1>2, <1>5, <2>1, <2>2, <2>3, <2>4, ExtendConsistent
  <2> QED
    BY <1>3, <1>9, <2>5 DEF ViewOK
<1>11. KeyOK(c)'
  BY <1>2, <1>3, <1>5, <1>8 DEF Inv, ClientOK, KeyOK
<1>12. ContextOK(c)' /\ AckOK(c)'
  BY <1>2, <1>3 DEF ContextOK, AckOK
<1>13. DoneOK(c)'
  <2> SUFFICES ASSUME NEW k \in 1..next[c]
               PROVE  \E y \in View(c) \cup {x} : y.event = job[c].events[k]
    BY <1>2, <1>3, <1>9 DEF DoneOK
  <2>1. CASE k = next[c]
    BY <1>5, <2>1 DEF e, Event
  <2>2. CASE k \in 1..(next[c] - 1)
    BY <1>2, <2>2 DEF Inv, ClientOK, DoneOK
  <2> QED
    BY <1>2, <2>1, <2>2
<1>14. row[c].status \notin Final
  BY <1>2 DEF Acceptable
<1>15. FrozenOK(c)'
  BY <1>2, <1>3, <1>8, <1>14 DEF Inv, ClientOK, FrozenOK, Stored, tables
<1>16. ImportOK(c)'
  <2>1. row'[c].mode = row[c].mode
    BY <1>2, <1>3, ProjectFields
  <2> QED
    BY <1>2, <1>3, <1>14, <2>1 DEF Inv, ClientOK, ImportOK
<1>17. ClientOK(c)'
  BY <1>10, <1>11, <1>12, <1>13, <1>15, <1>16 DEF ClientOK
<1> QED
  BY <1>1, <1>3, <1>4, <1>7, <1>17, LocalStep

\* What a commit writes, and where: only the tables of the run it owns.
LEMMA CommitTables ==
  ASSUME Inv, NEW c \in Clients, Commit(c)
  PROVE  /\ Run(c) \in Runs /\ Holding(c) /\ job[c] \in Jobs
         /\ row[c] \in RunRows
         /\ next[c] = Len(job[c].events) + 1
         /\ runs'[Run(c)] = row[c] /\ results'[Run(c)] = answers[c]
         /\ {x \in trace_events' : x.event.run = Run(c)} = View(c)
         /\ trace_events' = trace_events \cup fresh[c]
         /\ \A r \in Runs \ {Run(c)} :
              runs'[r] = runs[r] /\ results'[r] = results[r] /\ Log(r)' = Log(r)
<1>1. /\ pc[c] = "commit" /\ Holding(c) /\ job[c] \in Jobs /\ Run(c) \in Runs
      /\ row[c] \in RunRows /\ next[c] = Len(job[c].events) + 1
  BY RunTyped DEF Commit, Inv, Base, JobOK, Holding
<1>2. \A x \in fresh[c] : x.event.run = Run(c)
  BY DEF Inv, ClientOK, KeyOK
<1>3. trace_events' = trace_events \cup fresh[c]
  BY DEF Commit
<1>4. {x \in trace_events' : x.event.run = Run(c)} = View(c)
  BY <1>2, <1>3 DEF View, Log, RowsOf
<1>5. \A r \in Runs \ {Run(c)} : Log(r)' = Log(r)
  BY <1>2, <1>3 DEF Log, RowsOf
<1> QED
  BY <1>1, <1>3, <1>4, <1>5 DEF Commit, Inv, Base, TypeOK

\* An import that commits has delivered its finish event.
LEMMA ImportFinal ==
  ASSUME Inv, NEW c \in Clients, Commit(c), job[c].mode = "import"
  PROVE  row[c].status \in Final
<1>1. /\ Holding(c) /\ job[c] \in Jobs /\ next[c] = Len(job[c].events) + 1
  BY CommitTables
<1>2. Len(job[c].events) \in Nat /\ Len(job[c].events) > 0
  BY <1>1, JobShape
<1>3. job[c].events[Len(job[c].events)].kind = "FINISH"
  BY DEF Commit, Complete
<1>4. PICK x \in View(c) : x.event = job[c].events[Len(job[c].events)]
  BY <1>1, <1>2 DEF Inv, ClientOK, DoneOK
<1>5. x.event.kind = "FINISH" /\ x.event \in Events
  BY <1>3, <1>4 DEF View, Log, RowsOf, Inv, Base, TypeOK, TraceRows
<1>6. row[c].status = x.event.body.status
  BY <1>1, <1>4, <1>5 DEF Inv, ClientOK, ViewOK, Consistent, InLifecycle
<1> QED
  BY <1>5, <1>6, EventAssumption DEF Summaries

LEMMA CommitInv ==
  ASSUME Inv, NEW c \in Clients, Commit(c)
  PROVE  Inv'
<1> DEFINE q == Run(c)
<1>1. Base'
  BY CommitBase DEF Inv
<1>2. /\ q \in Runs /\ Holding(c) /\ job[c] \in Jobs /\ row[c] \in RunRows
      /\ next[c] = Len(job[c].events) + 1
      /\ runs'[q] = row[c] /\ results'[q] = answers[c]
      /\ {x \in trace_events' : x.event.run = q} = View(c)
      /\ trace_events' = trace_events \cup fresh[c]
      /\ \A r \in Runs \ {q} :
           runs'[r] = runs[r] /\ results'[r] = results[r] /\ Log(r)' = Log(r)
  BY CommitTables
<1>3. /\ fresh'[c] = {} /\ pc'[c] \in {"ok", "idle"}
      /\ pc'[c] = "ok" => job'[c] = job[c] /\ next'[c] = next[c]
      /\ \A d \in Clients \ {c} :
           /\ pc'[d] = pc[d] /\ job'[d] = job[d] /\ next'[d] = next[d]
           /\ row'[d] = row[d] /\ answers'[d] = answers[d] /\ fresh'[d] = fresh[d]
  BY DEF Commit, Inv, Base, TypeOK
<1>4. owner[q] = c
  BY <1>2 DEF Inv, Base, LockOK
<1> HIDE DEF q
<1>5. EventKeysUnique'
  BY <1>2, <1>3, KeysKeep DEF Inv
<1>6. runs'[q] # None
  BY <1>2, NoneAssumption
<1>7. TablesOK'
  <2> SUFFICES ASSUME NEW r \in Runs
               PROVE  IF Stored(r)' THEN Consistent(runs'[r], results'[r], Log(r)')
                                    ELSE Log(r)' = {}
    BY DEF TablesOK
  <2>1. CASE r = q
    <3>1. Log(r)' = View(c)
      BY <1>2, <2>1 DEF Log, RowsOf
    <3>2. Consistent(row[c], answers[c], View(c))
      BY <1>2 DEF Inv, ClientOK, ViewOK
    <3> QED
      BY <1>2, <1>6, <2>1, <3>1, <3>2 DEF Stored
  <2>2. CASE r # q
    BY <1>2, <2>2 DEF Inv, TablesOK, Stored
  <2> QED
    BY <2>1, <2>2
<1>8. job[c].mode = "import" => row[c].status \in Final
  BY ImportFinal
<1>9. row[c].mode = "import" => row[c].status \in Final
  BY <1>2, <1>8 DEF Inv, ClientOK, ImportOK
<1>10. ImportsAreWhole'
  <2> SUFFICES ASSUME NEW r \in Runs, Stored(r)', runs'[r].mode = "import"
               PROVE  runs'[r].status \in Final
    BY DEF ImportsAreWhole
  <2>1. CASE r = q
    BY <1>2, <1>9, <2>1
  <2>2. CASE r # q
    BY <1>2, <2>2 DEF Inv, ImportsAreWhole, Stored
  <2> QED
    BY <2>1, <2>2
<1>11. ClientOK(c)'
  <2>1. AckOK(c)'
    <3> SUFFICES ASSUME pc'[c] = "ok" PROVE AckOK(c)'
      BY DEF AckOK
    <3>1. job'[c] = job[c] /\ Run(c)' = q
      BY <1>3 DEF Run, q
    <3>2. View(c) \subseteq trace_events'
      BY <1>2
    <3>3. \A k \in 1..(next[c] - 1) : \E x \in View(c) : x.event = job[c].events[k]
      BY <1>2 DEF Inv, ClientOK, DoneOK
    <3>4. job[c].events \in Seq(Events)
      BY <1>2, JobShape
    <3>5. \A k \in DOMAIN job[c].events : \E x \in trace_events' : x.event = job[c].events[k]
      BY <1>2, <3>2, <3>3, <3>4
    <3> QED
      BY <1>2, <1>6, <1>8, <3>1, <3>5 DEF AckOK, Stored
  <2> QED
    BY <1>3, <2>1
    DEF ClientOK, ViewOK, KeyOK, ContextOK, DoneOK, FrozenOK, ImportOK, Holding
<1>12. ASSUME NEW d \in Clients, d # c
       PROVE  ClientOK(d)'
  <2>1. /\ Run(d)' = Run(d) /\ Event(d)' = Event(d) /\ (Holding(d)' <=> Holding(d))
    BY <1>3, <1>12 DEF Run, Event, Holding
  <2>2. KeyOK(d)' /\ ContextOK(d)' /\ ImportOK(d)'
    BY <1>3, <1>12, <2>1 DEF Inv, ClientOK, KeyOK, ContextOK, ImportOK
  <2>3. ASSUME Holding(d)
        PROVE  /\ Run(d) \in Runs \ {q}
               /\ View(d)' = View(d)
    <3>1. Run(d) \in Runs /\ owner[Run(d)] = d
      BY <2>3, RunTyped DEF Inv, Base, LockOK, Holding
    <3>2. Run(d) \in Runs \ {q}
      BY <1>4, <1>12, <3>1
    <3>3. Log(Run(d))' = Log(Run(d))
      BY <1>2, <2>1, <3>2 DEF Log
    <3> QED
      BY <1>3, <1>12, <2>1, <3>2, <3>3 DEF View
  <2>4. ViewOK(d)' /\ DoneOK(d)' /\ FrozenOK(d)'
    <3>1. CASE Holding(d)
      <4>1. runs'[Run(d)] = runs[Run(d)] /\ results'[Run(d)] = results[Run(d)]
        BY <1>2, <2>3, <3>1
      <4> QED
        BY <1>3, <1>12, <2>1, <2>3, <3>1, <4>1
        DEF Inv, ClientOK, ViewOK, DoneOK, FrozenOK, Stored
    <3>2. CASE ~Holding(d)
      BY <2>1, <3>2 DEF ViewOK, DoneOK, FrozenOK
    <3> QED
      BY <3>1, <3>2
  <2>5. AckOK(d)'
    <3> SUFFICES ASSUME pc'[d] = "ok" PROVE AckOK(d)'
      BY DEF AckOK
    <3>1. /\ Stored(Run(d)) /\ Run(d) \in Runs
          /\ \A k \in DOMAIN job[d].events : \E x \in trace_events : x.event = job[d].events[k]
          /\ job[d].mode = "import" => runs[Run(d)].status \in Final
      BY <1>3, <1>12, RunTyped DEF Inv, ClientOK, AckOK
    <3>2. Stored(Run(d))' /\ (runs[Run(d)].status \in Final => runs'[Run(d)].status \in Final)
      <4>1. CASE Run(d) = q
        <5>1. runs[q].status \in Final => row[c] = runs[q]
          BY <1>2, <3>1, <4>1 DEF Inv, ClientOK, FrozenOK, q
        <5> QED
          BY <1>2, <1>6, <2>1, <4>1, <5>1 DEF Stored
      <4>2. CASE Run(d) # q
        BY <1>2, <2>1, <3>1, <4>2 DEF Stored
      <4> QED
        BY <4>1, <4>2
    <3>3. \A k \in DOMAIN job[d].events : \E x \in trace_events' : x.event = job[d].events[k]
      BY <1>2, <3>1
    <3> QED
      BY <1>3, <1>12, <2>1, <3>1, <3>2, <3>3 DEF AckOK
  <2> QED
    BY <2>2, <2>4, <2>5 DEF ClientOK
<1> QED
  BY <1>1, <1>5, <1>7, <1>10, <1>11, <1>12 DEF Inv

LEMMA StutterInv ==
  ASSUME Inv, UNCHANGED vars
  PROVE  Inv'
<1>1. /\ UNCHANGED tables
      /\ \A d \in Clients :
           /\ pc'[d] = pc[d] /\ job'[d] = job[d] /\ next'[d] = next[d]
           /\ row'[d] = row[d] /\ answers'[d] = answers[d] /\ fresh'[d] = fresh[d]
  BY DEF vars, tables
<1>2. Base'
  BY NextBase DEF Inv
<1>3. EventKeysUnique'
  BY <1>1, KeysKeep DEF Inv, tables
<1>4. TablesOK' /\ ImportsAreWhole'
  BY <1>1, TablesKeep DEF Inv
<1>5. \A d \in Clients : ClientOK(d)'
  BY <1>1, OthersKeep DEF Inv
<1> QED
  BY <1>2, <1>3, <1>4, <1>5 DEF Inv

LEMMA NextInv == Inv /\ [Next]_vars => Inv'
<1> SUFFICES ASSUME Inv, [Next]_vars PROVE Inv'
  OBVIOUS
<1>1. CASE Next
  BY <1>1, StepCases, BeginInv, RollbackInv, CreateInv, LockInv, ReplayInv,
     AcceptInv, InsertInv, CommitInv, ReturnInv
<1>2. CASE UNCHANGED vars
  BY <1>2, StutterInv
<1> QED
  BY <1>1, <1>2
-----------------------------------------------------------------------------
(* What follows for every number of clients, runs, events and exports *)

\* The rows are consistent and every client's snapshot, locks and plans fit them,
\* whatever the interleaving of the transactions.
THEOREM Invariance == Spec => []Inv
  BY InitInv, NextInv, PTL DEF Spec

\* No two deliveries that race for an event ID both get it, in one run or in two.
THEOREM KeysAreUnique == Spec => []EventKeysUnique
<1>1. Inv => EventKeysUnique
  BY DEF Inv
<1> QED
  BY <1>1, Invariance, PTL

\* Every committed log is gap free and follows the lifecycle.
THEOREM LogsAreWellFormed == Spec => []LogWellFormed
<1>1. Inv => LogWellFormed
  BY DEF Inv, TablesOK, Consistent, LogWellFormed
<1> QED
  BY <1>1, Invariance, PTL

\* The question rows say what the committed log says.
THEOREM ProjectionsAgree == Spec => []ProjectionsMatchLog
<1>1. Inv => ProjectionsMatchLog
  BY DEF Inv, TablesOK, Consistent, ProjectionsMatchLog
<1> QED
  BY <1>1, Invariance, PTL

\* Results are in the order of the plan, and nothing follows a failure.
THEOREM PlanIsFollowed == Spec => []ResultsInPlanOrder
<1>1. Inv => ResultsInPlanOrder
  BY DEF Inv, TablesOK, Consistent, ResultsInPlanOrder
<1> QED
  BY <1>1, Invariance, PTL

\* The summary of a final run counts and adds up its question rows.
THEOREM SummariesAreHonest == Spec => []FinalSummaryHonest
<1>1. Inv => FinalSummaryHonest
  BY DEF Inv, TablesOK, Consistent, Counted, FinalSummaryHonest
<1> QED
  BY <1>1, Invariance, PTL

\* No part of an import is ever visible without the rest.
THEOREM ImportsAtomic == Spec => []ImportsAreWhole
<1>1. Inv => ImportsAreWhole
  BY DEF Inv
<1> QED
  BY <1>1, Invariance, PTL

\* What a caller was told is stored is stored.
THEOREM AcknowledgedKept == Spec => []AcknowledgedIsStored
<1>1. Inv => AcknowledgedIsStored
  BY DEF Inv, ClientOK, AckOK, AcknowledgedIsStored
<1> QED
  BY <1>1, Invariance, PTL

\* Events are for ever, and nothing about a finalized run changes.
THEOREM FinalizedStaysFrozen == Spec => FinalizedFrozen
<1> DEFINE Frozen ==
      /\ trace_events \subseteq trace_events'
      /\ \A r \in Runs : Stored(r) /\ runs[r].status \in Final =>
           runs'[r] = runs[r] /\ results'[r] = results[r] /\ Log(r)' = Log(r)
<1>1. ASSUME UNCHANGED tables PROVE Frozen
  BY <1>1 DEF tables, Log, RowsOf
<1>2. ASSUME Inv, NEW c \in Clients, Commit(c)
      PROVE  Frozen
  <2>1. /\ Run(c) \in Runs /\ Holding(c)
        /\ runs'[Run(c)] = row[c] /\ results'[Run(c)] = answers[c]
        /\ trace_events' = trace_events \cup fresh[c]
        /\ \A r \in Runs \ {Run(c)} :
             runs'[r] = runs[r] /\ results'[r] = results[r] /\ Log(r)' = Log(r)
    BY <1>2, CommitTables
  <2>2. ASSUME Stored(Run(c)), runs[Run(c)].status \in Final
        PROVE  row[c] = runs[Run(c)] /\ answers[c] = results[Run(c)] /\ fresh[c] = {}
    BY <1>2, <2>1, <2>2 DEF Inv, ClientOK, FrozenOK
  <2>3. ASSUME NEW r \in Runs, Stored(r), runs[r].status \in Final
        PROVE  runs'[r] = runs[r] /\ results'[r] = results[r] /\ Log(r)' = Log(r)
    <3>1. CASE r = Run(c)
      BY <2>1, <2>2, <2>3, <3>1 DEF Log, RowsOf
    <3>2. CASE r # Run(c)
      BY <2>1, <3>2
    <3> QED
      BY <3>1, <3>2
  <2> QED
    BY <2>1, <2>3
<1>3. Next => UNCHANGED tables \/ \E c \in Clients : Commit(c)
  BY StepCases DEF Begin, Rollback, Create, Lock, Hold, Replay, Accept, Insert, Return, tables
<1>4. Inv /\ [Next]_vars => [Frozen]_vars
  BY <1>1, <1>2, <1>3
<1> QED
  BY <1>4, Invariance, PTL DEF Spec, FinalizedFrozen

\* A transaction that holds an uncommitted event and has another to insert is
\* an import; so a cycle of waits takes two of them.
THEOREM DeadlocksAreImports == Spec => []DeadlockNeedsTwoImports
<1> DEFINE Claims(c) == pc[c] = "claim" /\ fresh[c] # {}
<1>1. ASSUME Inv, NEW c \in Clients, Claims(c)
      PROVE  job[c].mode = "import"
  <2>1. /\ job[c] \in Jobs /\ next[c] \in 1..Len(job[c].events)
        /\ Len(job[c].events) \in Nat
    BY <1>1, RunTyped DEF Inv, Base, JobOK
  <2>2. next[c] # 1
    BY <1>1 DEF Inv, ClientOK, KeyOK
  <2>3. Len(job[c].events) > 1
    BY <2>1, <2>2
  <2> QED
    BY <2>1, <2>3, JobShape
<1>2. ASSUME Inv, NEW S \in SUBSET Clients, Stuck(S), NEW c \in S
      PROVE  \E d \in S \ {c} : Claims(d)
  <2>1. ASSUME NEW e \in S, Holding(e)
        PROVE  \E d \in S : d # e /\ Claims(d) /\ pc[e] = "claim"
    <3>1. PICK d \in S : WaitsFor(e, d)
      BY <1>2 DEF Stuck
    <3>2. pc[e] = "claim" /\ fresh[d] # {} /\ d # e
      BY <2>1, <3>1 DEF WaitsFor, Holding
    <3>3. Holding(d)
      BY <1>2, <3>2 DEF Inv, Base, LockOK
    <3>4. PICK f \in S : WaitsFor(d, f)
      BY <1>2 DEF Stuck
    <3>5. pc[d] = "claim"
      BY <3>3, <3>4 DEF WaitsFor, Holding
    <3> QED
      BY <3>2, <3>5
  <2>2. PICK d \in S : WaitsFor(c, d)
    BY <1>2 DEF Stuck
  <2>3. CASE pc[c] = "claim"
    BY <2>1, <2>3 DEF Holding
  <2>4. CASE pc[c] = "acquire"
    <3>1. owner[Run(c)] = d /\ d # c
      BY <2>2, <2>4 DEF WaitsFor
    <3>2. Run(c) \in Runs /\ d \in Clients
      BY <1>2, <2>4, RunTyped DEF Inv
    <3>3. Holding(d)
      BY <1>2, <3>1, <3>2, NoneAssumption DEF Inv, Base, LockOK
    <3>4. PICK f \in S : f # d /\ Claims(f)
      BY <2>1, <3>3
    <3> QED
      BY <2>4, <3>4
  <2> QED
    BY <2>2, <2>3, <2>4 DEF WaitsFor
<1>3. Inv => DeadlockNeedsTwoImports
  <2> SUFFICES ASSUME Inv, NEW S \in SUBSET Clients, S # {}, Stuck(S)
               PROVE  \E a, b \in S : a # b /\ job[a].mode = "import" /\ job[b].mode = "import"
    BY DEF DeadlockNeedsTwoImports
  <2>1. PICK c \in S : TRUE
    OBVIOUS
  <2>2. PICK a \in S : Claims(a)
    BY <1>2, <2>1
  <2>3. PICK b \in S \ {a} : Claims(b)
    BY <1>2
  <2> QED
    BY <1>1, <2>2, <2>3
<1> QED
  BY <1>3, Invariance, PTL
-----------------------------------------------------------------------------
(* The events of a run and the rules of the ledger *)

\* Each event of rows may follow the events before it.
Lawful(rw, rows) ==
  \A x \in rows : Ledger!MayFollow(rw.meta, FirstEvents(rows, x.sequence - 1), x.event)

\* The metadata is that of run r and admits the role.
Fitting(r, rw) == RunOf[rw.meta] = r /\ rw.role \in Admits[rw.meta]

BooksOK == \A r \in Runs : Stored(r) => Fitting(r, runs[r]) /\ Lawful(runs[r], Log(r))

\* How many events the run of c had, and which events of its job it had not.
Old(c) == IF Stored(Run(c)) THEN runs[Run(c)].event_count ELSE 0
New(c) == {i \in DOMAIN job[c].events : \A x \in Log(Run(c)) : x.event # job[c].events[i]}
UpTo(c, n) == {i \in New(c) : i <= n}
RowFor(c, i) ==
  [event |-> job[c].events[i], sequence |-> Old(c) + Cardinality(UpTo(c, i))]

\* The rows it has inserted are those for the new events it has passed.
ListOK(c) ==
  /\ row[c].event_count = Old(c) + Cardinality(UpTo(c, next[c] - 1))
  /\ fresh[c] = {RowFor(c, i) : i \in UpTo(c, next[c] - 1)}

\* The row is that of its run, and its job's registration agrees with it.
RegistrationOK(c, rw) ==
  /\ Fitting(Run(c), rw)
  /\ Stored(Run(c)) => rw.meta = runs[Run(c)].meta /\ rw.role = runs[Run(c)].role
  /\ rw.role = job[c].role
  /\ job[c].mode = "import" => rw.meta = job[c].summary.meta

BookOK(c) ==
  Holding(c) => RegistrationOK(c, row[c]) /\ ListOK(c) /\ Lawful(row[c], View(c))

History == Inv /\ BooksOK /\ \A c \in Clients : BookOK(c)
-----------------------------------------------------------------------------
(* A log read off the rows of a run *)

\* In a gap free log every place holds the event of its row.
LEMMA EventAtPlace ==
  ASSUME NEW rw, NEW rows, rw.event_count \in Nat, GapFree(rw, rows),
         NEW n \in 0..rw.event_count
  PROVE  /\ DOMAIN FirstEvents(rows, n) = 1..n
         /\ FirstEvents(rows, n) = [k \in 1..n |-> FirstEvents(rows, n)[k]]
         /\ \A x \in rows : x.sequence \in Nat \ {0} /\ x.sequence <= rw.event_count
         /\ \A x \in rows : x.sequence <= n => FirstEvents(rows, n)[x.sequence] = x.event
         /\ \A k \in 1..n : \E x \in rows : x.sequence = k /\ FirstEvents(rows, n)[k] = x.event
<1>1. \A x \in rows : x.sequence \in Nat \ {0} /\ x.sequence <= rw.event_count
  BY DEF GapFree
<1>2. ASSUME NEW x \in rows, x.sequence <= n
      PROVE  FirstEvents(rows, n)[x.sequence] = x.event
  <2>1. x.sequence \in 1..n
    BY <1>1, <1>2
  <2>2. (CHOOSE y \in rows : y.sequence = x.sequence) = x
    BY DEF GapFree
  <2>3. QED
    BY <2>1, <2>2 DEF FirstEvents
<1>3. ASSUME NEW k \in 1..n
      PROVE  \E x \in rows : x.sequence = k /\ FirstEvents(rows, n)[k] = x.event
  <2>1. k \in 1..rw.event_count /\ k <= n
    OBVIOUS
  <2>2. PICK x \in rows : x.sequence = k
    BY <2>1 DEF GapFree
  <2>3. QED
    BY <1>2, <2>1, <2>2
<1>4. /\ DOMAIN FirstEvents(rows, n) = 1..n
      /\ FirstEvents(rows, n) = [k \in 1..n |-> FirstEvents(rows, n)[k]]
  BY DEF FirstEvents
<1>5. QED
  BY <1>1, <1>2, <1>3, <1>4

\* A row at the end changes nothing about the events before it.
LEMMA FirstEventsKept ==
  ASSUME NEW rw \in RunRows, NEW rows, rw.event_count \in Nat, GapFree(rw, rows),
         NEW more, \A x \in more : x.sequence > rw.event_count /\ x.sequence \in Nat,
         NEW n \in 0..rw.event_count
  PROVE  FirstEvents(rows \cup more, n) = FirstEvents(rows, n)
<1>1. ASSUME NEW k \in 1..n
      PROVE  (CHOOSE x \in rows \cup more : x.sequence = k) = (CHOOSE x \in rows : x.sequence = k)
  <2>1. k \in 1..rw.event_count
    OBVIOUS
  <2>2. PICK x \in rows : x.sequence = k
    BY <2>1 DEF GapFree
  <2>3. \A y \in rows : y.sequence = k => y = x
    BY <2>2 DEF GapFree
  <2>4. \A y \in more : y.sequence # k
    BY <2>1
  <2>5. \A y \in rows \cup more : y.sequence = k <=> y = x
    BY <2>2, <2>3, <2>4
  <2>6. QED
    BY <2>2, <2>3, <2>5
<1> DEFINE Before(k) == (CHOOSE x \in rows : x.sequence = k).event
           Now(k) == (CHOOSE x \in rows \cup more : x.sequence = k).event
<1>2. \A k \in 1..n : Now(k) = Before(k)
  BY <1>1
<1>3. /\ FirstEvents(rows, n) = [k \in 1..n |-> Before(k)]
      /\ FirstEvents(rows \cup more, n) = [k \in 1..n |-> Now(k)]
  BY DEF FirstEvents
<1> HIDE DEF Before, Now
<1>4. QED
  BY <1>2, <1>3

\* The ledger counts as the store does.
LEMMA SameCount ==
  ASSUME NEW S
  PROVE  Ledger!Cardinality(S) = Cardinality(S)
BY DEF Ledger!Cardinality, Cardinality

\* What the ledger reads off a log is what the store keeps in its columns.
LEMMA ColumnsOfLog ==
  ASSUME NEW rw \in RunRows, NEW ans \in [Questions -> QuestionRows],
         NEW rows \in SUBSET TraceRows, Consistent(rw, ans, rows),
         NEW log, log = FirstEvents(rows, rw.event_count)
  PROVE  /\ Ledger!Finished(log) <=> \E x \in rows : x.event.kind = "FINISH"
         /\ log = <<>> <=> rows = {}
         /\ Ledger!Answered(log) = Recorded(ans)
         /\ Ledger!Failures(log) = {q \in Questions : ans[q].status = "failed"}
         /\ Ledger!Points(log) = UNION {{q} \X (1..ans[q].score) : q \in Recorded(ans)}
<1> DEFINE n == rw.event_count
<1>1. n \in Nat /\ GapFree(rw, rows) /\ Projected(ans, rows) /\ n \in 0..n
  BY DEF RunRows, Consistent
<1>2. /\ DOMAIN log = 1..n
      /\ \A x \in rows : x.sequence \in 1..n /\ log[x.sequence] = x.event
      /\ \A k \in 1..n : \E x \in rows : x.sequence = k /\ log[k] = x.event
  BY <1>1, EventAtPlace
<1>3. Ledger!Finished(log) <=> \E x \in rows : x.event.kind = "FINISH"
  BY <1>2 DEF Ledger!Finished
<1>4. log = <<>> <=> rows = {}
  <2>1. n = 0 <=> rows = {}
    BY <1>1, <1>2
  <2>2. log = <<>> <=> n = 0
    BY <1>1, <1>2 DEF FirstEvents
  <2>3. QED
    BY <2>1, <2>2
<1> HIDE DEF n
<1>5. /\ \A x \in rows : x.event.kind = "QUESTION" =>
           x.sequence \in Ledger!Asked(log) /\ log[x.sequence] = x.event
      /\ \A i \in Ledger!Asked(log) :
           \E x \in rows : x.event.kind = "QUESTION" /\ log[i] = x.event
  BY <1>2 DEF Ledger!Asked
<1>6. ASSUME NEW i \in Ledger!Asked(log)
      PROVE  /\ log[i].qid \in Recorded(ans)
             /\ ans[log[i].qid].status = log[i].body.status
             /\ ans[log[i].qid].score = log[i].body.score
  <2>1. PICK x \in rows : x.event.kind = "QUESTION" /\ log[i] = x.event
    BY <1>5
  <2>2. x.event.qid \in Questions /\ ans[x.event.qid].status \in Final
    BY <1>1, <2>1 DEF Projected
  <2>3. PICK y \in rows : /\ y.event.kind = "QUESTION" /\ y.event.qid = x.event.qid
                          /\ y.event.body.status = ans[x.event.qid].status
                          /\ y.event.body.score = ans[x.event.qid].score
    BY <1>1, <2>2 DEF Projected
  <2>4. y = x
    BY <1>1, <2>1, <2>3 DEF Projected
  <2>5. QED
    BY <2>1, <2>2, <2>3, <2>4 DEF Recorded
<1>7. ASSUME NEW q \in Recorded(ans)
      PROVE  \E i \in Ledger!Asked(log) : log[i].qid = q
  <2>1. PICK x \in rows : x.event.kind = "QUESTION" /\ x.event.qid = q
    BY <1>1 DEF Projected, Recorded
  <2>2. QED
    BY <1>5, <2>1
<1>8. Ledger!Answered(log) = Recorded(ans)
  BY <1>6, <1>7 DEF Ledger!Answered
<1>9. Ledger!Failures(log) = {q \in Questions : ans[q].status = "failed"}
  BY <1>6, <1>7 DEF Ledger!Failures, Recorded, Final
<1>10. {{log[i].qid} \X (1..log[i].body.score) : i \in Ledger!Asked(log)}
         = {{q} \X (1..ans[q].score) : q \in Recorded(ans)}
  BY <1>6, <1>7
<1>11. QED
  BY <1>3, <1>4, <1>8, <1>9, <1>10 DEF Ledger!Points

\* An event the store accepts is one that may follow its log.
LEMMA AcceptableFollows ==
  ASSUME NEW rw \in RunRows, NEW ans \in [Questions -> QuestionRows],
         NEW rows \in SUBSET TraceRows, Consistent(rw, ans, rows),
         NEW e \in Events, Acceptable(rw, ans, e), e.kind = "START" => e.body = rw.meta
  PROVE  Ledger!MayFollow(rw.meta, FirstEvents(rows, rw.event_count), e)
<1> DEFINE log == FirstEvents(rows, rw.event_count)
           attempted == Cardinality(Ledger!Answered(log))
           failed == Cardinality(Ledger!Failures(log))
<1>1. /\ Ledger!Finished(log) <=> \E x \in rows : x.event.kind = "FINISH"
      /\ log = <<>> <=> rows = {}
      /\ Ledger!Answered(log) = Recorded(ans)
      /\ Ledger!Failures(log) = {q \in Questions : ans[q].status = "failed"}
      /\ Ledger!Points(log) = UNION {{q} \X (1..ans[q].score) : q \in Recorded(ans)}
  BY ColumnsOfLog
<1>2. /\ rw.attempted \in Nat /\ rw.completed \in Nat /\ rw.failed \in Nat
      /\ rw.meta \in Metas /\ rw.attempted = rw.completed + rw.failed
      /\ InLifecycle(rw, rows) /\ Positioned(rw.meta, ans)
  BY DEF RunRows, Consistent, InPlanOrder
<1>3. attempted = rw.attempted /\ failed = rw.failed /\ (rw.failed = 0 => Ledger!Failures(log) = {})
  <2> DEFINE C == {q \in Questions : ans[q].status = "completed"}
             F == {q \in Questions : ans[q].status = "failed"}
  <2>1. /\ IsFiniteSet(C) /\ IsFiniteSet(F)
        /\ rw.completed = Cardinality(C) /\ rw.failed = Cardinality(F)
    BY DEF Consistent, Counted
  <2>2. Recorded(ans) = C \cup F /\ C \cap F = {}
    BY DEF Recorded, Final
  <2>5. Ledger!Failures(log) = F
    BY <1>1
  <2> HIDE DEF C, F
  <2>3. Cardinality(C \cup F) = Cardinality(C) + Cardinality(F)
    <3>1. Cardinality({}) = 0
      BY FS_EmptySet
    <3>2. Cardinality(C \cup F) = Cardinality(C) + Cardinality(F) - Cardinality(C \cap F)
      BY <2>1, FS_Union
    <3>3. Cardinality(C \cap F) = 0
      BY <2>2, <3>1, Zenon
    <3>4. Cardinality(C) \in Nat /\ Cardinality(F) \in Nat
      BY <1>2, <2>1
    <3>5. QED
      BY <3>2, <3>3, <3>4
  <2>4. rw.failed = 0 => F = {}
    BY <2>1, FS_EmptySet
  <2>6. QED
    BY <1>1, <1>2, <2>1, <2>2, <2>3, <2>4, <2>5
<1>4. ~Ledger!Finished(log)
  <2>1. \A x \in rows : x.event \in Events
    BY DEF TraceRows
  <2>2. \A x \in rows : x.event.kind = "FINISH" => rw.status \in Final
    BY <1>2, <2>1, EventAssumption DEF InLifecycle, Summaries
  <2>3. QED
    BY <1>1, <2>2 DEF Acceptable
<1>5. log = <<>> <=> e.kind = "START"
  BY <1>1, <1>2 DEF InLifecycle, Acceptable
<1>6. e.kind # "DIAGNOSTIC" => e \in Conforms[rw.meta]
  BY DEF Acceptable
<1>7. e.qid # None => /\ e.qid \in Questions
                      /\ ans[e.qid].position \in 1..Len(Plan[rw.meta])
                      /\ Plan[rw.meta][ans[e.qid].position] = e.qid
  BY <1>2, EventAssumption DEF Acceptable, Positioned
<1> HIDE DEF log, attempted, failed
<1>8. e.kind = "QUESTION" =>
        /\ Ledger!Failures(log) = {}
        /\ attempted < Len(Plan[rw.meta])
        /\ e.qid = Plan[rw.meta][attempted + 1]
  <2>1. SUFFICES ASSUME e.kind = "QUESTION"
                 PROVE  /\ Ledger!Failures(log) = {}
                        /\ attempted < Len(Plan[rw.meta])
                        /\ e.qid = Plan[rw.meta][attempted + 1]
    OBVIOUS
  <2>2. e.qid # None /\ rw.failed = 0 /\ ans[e.qid].position = rw.attempted + 1
    BY <2>1 DEF Acceptable
  <2>3. Len(Plan[rw.meta]) \in Nat
    BY <1>2, PlanAssumption
  <2>4. QED
    BY <1>2, <1>3, <1>7, <2>2, <2>3
<1>9. e.kind = "DIAGNOSTIC" => e.qid = None \/ e.qid \in Ledger!ToSet(Plan[rw.meta])
  <2>1. Plan[rw.meta] \in Seq(Questions)
    BY <1>2, PlanAssumption
  <2>2. DOMAIN Plan[rw.meta] = 1..Len(Plan[rw.meta])
    BY <2>1
  <2>3. QED
    BY <1>7, <2>2 DEF Ledger!ToSet
<1>10. e.kind = "FINISH" => Ledger!Honest(rw.meta, log, e.body)
  <2>1. SUFFICES ASSUME e.kind = "FINISH"
                 PROVE  Ledger!Honest(rw.meta, log, e.body)
    OBVIOUS
  <2>2. SummaryAgrees(rw, ans, e.body)
    BY <2>1 DEF Acceptable
  <2>3. e.body.total = Cardinality(Ledger!Points(log))
    BY <1>1, <2>2 DEF SummaryAgrees, TotalScore, log
  <2>4. e.body.completed = attempted - failed
    BY <1>2, <1>3, <2>2 DEF SummaryAgrees
  <2>5. e.body.status = "completed" => failed = 0 /\ attempted = Len(Plan[rw.meta])
    BY <1>2, <1>3, <2>2 DEF SummaryAgrees
  <2>6. e.body.full = (e.body.status = "completed" /\ attempted = FullSize[rw.meta])
    <3>1. e.body.full = (e.body.status = "completed" /\ rw.completed = FullSize[rw.meta])
      BY <2>2 DEF SummaryAgrees
    <3>2. e.body.status = "completed" => rw.completed = attempted
      BY <1>2, <1>3, <2>2 DEF SummaryAgrees
    <3>3. QED
      BY <3>1, <3>2
  <2>7. QED
    BY <1>3, <2>2, <2>3, <2>4, <2>5, <2>6, SameCount DEF SummaryAgrees, Ledger!Honest, attempted, failed
<1>11. QED
  BY <1>4, <1>5, <1>6, <1>8, <1>9, <1>10, SameCount DEF Ledger!MayFollow, log, attempted
-----------------------------------------------------------------------------
(* The invariant holds initially and each action preserves it *)

\* An accepted event may follow the events of its view, and disturbs none of them.
LEMMA LawfulAppend ==
  ASSUME NEW rw \in RunRows, NEW ans \in [Questions -> QuestionRows],
         NEW rows \in SUBSET TraceRows, Consistent(rw, ans, rows), Lawful(rw, rows),
         NEW e \in Events, Acceptable(rw, ans, e), e.kind = "START" => e.body = rw.meta,
         NEW x, x.event = e, x.sequence = rw.event_count + 1
  PROVE  Lawful(Project(rw, e), rows \cup {x})
<1>1. rw.event_count \in Nat /\ GapFree(rw, rows)
  BY DEF RunRows, Consistent
<1>2. Project(rw, e).meta = rw.meta
  BY ProjectFields
<1>3. ASSUME NEW n \in 0..rw.event_count
      PROVE  FirstEvents(rows \cup {x}, n) = FirstEvents(rows, n)
  <2> DEFINE more == {x}
  <2>1. \A y \in more : y.sequence > rw.event_count /\ y.sequence \in Nat
    BY <1>1
  <2> HIDE DEF more
  <2>2. FirstEvents(rows \cup more, n) = FirstEvents(rows, n)
    BY <1>1, <2>1, FirstEventsKept
  <2>3. QED
    BY <2>2 DEF more
<1>4. Ledger!MayFollow(rw.meta, FirstEvents(rows \cup {x}, x.sequence - 1), x.event)
  <2>1. x.sequence - 1 = rw.event_count /\ rw.event_count \in 0..rw.event_count
    BY <1>1
  <2>2. QED
    BY <1>3, <2>1, AcceptableFollows
<1>5. ASSUME NEW y \in rows
      PROVE  Ledger!MayFollow(rw.meta, FirstEvents(rows \cup {x}, y.sequence - 1), y.event)
  <2>1. y.sequence - 1 \in 0..rw.event_count
    BY <1>1 DEF GapFree
  <2>2. FirstEvents(rows \cup {x}, y.sequence - 1) = FirstEvents(rows, y.sequence - 1)
    BY <1>3, <2>1
  <2>3. QED
    BY <2>2 DEF Lawful
<1>6. QED
  BY <1>2, <1>4, <1>5 DEF Lawful

\* The new events of a job are finitely many.
LEMMA NewFinite ==
  ASSUME NEW c \in Clients, job[c].events \in Seq(Events)
  PROVE  IsFiniteSet(New(c)) /\ New(c) \subseteq 1..Len(job[c].events)
<1>1. DOMAIN job[c].events = 1..Len(job[c].events) /\ Len(job[c].events) \in Nat
  OBVIOUS
<1>2. IsFiniteSet(1..Len(job[c].events))
  BY <1>1, FS_Interval
<1>3. New(c) \subseteq 1..Len(job[c].events)
  BY <1>1 DEF New
<1>4. QED
  BY <1>2, <1>3, FS_Subset

LEMMA UpToFinite ==
  ASSUME NEW c \in Clients, job[c].events \in Seq(Events), NEW n
  PROVE  IsFiniteSet(UpTo(c, n)) /\ Cardinality(UpTo(c, n)) \in Nat
<1>1. UpTo(c, n) \subseteq New(c) /\ IsFiniteSet(New(c))
  BY NewFinite DEF UpTo
<1>2. QED
  BY <1>1, FS_Subset, FS_CardinalityType

\* While neither its job nor its run changes, a transaction has the same to do.
LEMMA SameWork ==
  ASSUME NEW c \in Clients, job'[c] = job[c], runs'[Run(c)] = runs[Run(c)],
         {x \in trace_events' : x.event.run = Run(c)} = Log(Run(c))
  PROVE  /\ Run(c)' = Run(c) /\ Old(c)' = Old(c) /\ New(c)' = New(c)
         /\ (Stored(Run(c)))' <=> Stored(Run(c))
         /\ Log(Run(c))' = Log(Run(c))
         /\ \A n : UpTo(c, n)' = UpTo(c, n)
         /\ \A i : RowFor(c, i)' = RowFor(c, i)
         /\ \A rw : RegistrationOK(c, rw)' <=> RegistrationOK(c, rw)
<1>1. Run(c)' = Run(c)
  BY DEF Run
<1>2. Log(Run(c))' = Log(Run(c))
  BY <1>1 DEF Log, RowsOf
<1>3. Old(c)' = Old(c) /\ ((Stored(Run(c)))' <=> Stored(Run(c)))
  BY <1>1 DEF Old, Stored
<1>4. New(c)' = New(c)
  BY <1>2 DEF New
<1>5. \A n : UpTo(c, n)' = UpTo(c, n)
  BY <1>4 DEF UpTo
<1>6. \A i : RowFor(c, i)' = RowFor(c, i)
  BY <1>3, <1>5 DEF RowFor
<1>7. \A rw : RegistrationOK(c, rw)' <=> RegistrationOK(c, rw)
  BY <1>1, <1>3 DEF RegistrationOK, Stored
<1>8. QED
  BY <1>1, <1>2, <1>3, <1>4, <1>5, <1>6, <1>7

\* A client that takes no part in a step that leaves its run alone stays as it is.
LEMMA BystanderKeeps ==
  ASSUME NEW d \in Clients, BookOK(d),
         Holding(d) => /\ runs'[Run(d)] = runs[Run(d)]
                       /\ {x \in trace_events' : x.event.run = Run(d)} = Log(Run(d)),
         pc'[d] = pc[d], job'[d] = job[d], next'[d] = next[d], row'[d] = row[d],
         fresh'[d] = fresh[d]
  PROVE  BookOK(d)'
<1>1. SUFFICES ASSUME Holding(d) PROVE BookOK(d)'
  BY DEF BookOK, Holding
<1>2. /\ Log(Run(d))' = Log(Run(d)) /\ Old(d)' = Old(d)
      /\ \A n : UpTo(d, n)' = UpTo(d, n)
      /\ \A i : RowFor(d, i)' = RowFor(d, i)
      /\ \A rw : RegistrationOK(d, rw)' <=> RegistrationOK(d, rw)
  BY <1>1, SameWork
<1>3. RegistrationOK(d, row[d]) /\ ListOK(d) /\ Lawful(row[d], View(d))
  BY <1>1 DEF BookOK
<1>4. RegistrationOK(d, row[d])'
  BY <1>2, <1>3
<1>5. ListOK(d)'
  BY <1>2, <1>3 DEF ListOK
<1>6. Lawful(row[d], View(d))'
  BY <1>2, <1>3 DEF View
<1>7. QED
  BY <1>4, <1>5, <1>6 DEF BookOK

\* A step of c alone, outside the tables, needs only to be looked at for c.
LEMMA LocalHistory ==
  ASSUME History, Inv', UNCHANGED tables, NEW c \in Clients, BookOK(c)',
         \A d \in Clients \ {c} :
           /\ pc'[d] = pc[d] /\ job'[d] = job[d] /\ next'[d] = next[d]
           /\ row'[d] = row[d] /\ fresh'[d] = fresh[d]
  PROVE  History'
<1>1. BooksOK'
  BY DEF History, BooksOK, tables, Stored, Log, RowsOf
<1>2. ASSUME NEW d \in Clients
      PROVE  BookOK(d)'
  <2>1. CASE d = c
    BY <2>1
  <2>2. CASE d # c
    <3>1. /\ runs'[Run(d)] = runs[Run(d)]
          /\ {x \in trace_events' : x.event.run = Run(d)} = Log(Run(d))
      BY DEF tables, Log, RowsOf
    <3>2. QED
      BY <2>2, <3>1, BystanderKeeps DEF History
  <2>3. QED
    BY <2>1, <2>2
<1>3. QED
  BY <1>1, <1>2 DEF History

LEMMA InitHistory == Init => History
<1>1. SUFFICES ASSUME Init PROVE History
  OBVIOUS
<1>2. \A c \in Clients : BookOK(c)
  BY <1>1 DEF Init, BookOK, Holding
<1>3. BooksOK
  BY <1>1 DEF Init, BooksOK, Stored
<1>4. QED
  BY <1>1, <1>2, <1>3, InitInv DEF History

\* A client outside a transaction has nothing to say about a book.
LEMMA OutsideHistory ==
  ASSUME History, NEW c \in Clients, Begin(c) \/ Rollback(c) \/ Return(c)
  PROVE  History'
<1>1. Inv'
  BY BeginInv, RollbackInv, ReturnInv DEF History
<1>2. /\ UNCHANGED tables /\ pc'[c] \in {"acquire", "idle"}
      /\ \A d \in Clients \ {c} :
           /\ pc'[d] = pc[d] /\ job'[d] = job[d] /\ next'[d] = next[d]
           /\ row'[d] = row[d] /\ fresh'[d] = fresh[d]
  BY DEF Begin, Rollback, Return, History, Inv, Base, TypeOK, view
<1>3. BookOK(c)'
  BY <1>2 DEF BookOK, Holding
<1>4. QED
  BY <1>1, <1>2, <1>3, LocalHistory

\* A transaction that has just taken its row has inserted nothing.
LEMMA HoldHistory ==
  ASSUME History, Inv', NEW c \in Clients, pc[c] = "acquire",
         NEW rw \in RunRows, NEW ans, Hold(c, rw, ans),
         Lawful(rw, Log(Run(c))), RegistrationOK(c, rw), rw.event_count = Old(c)
  PROVE  History'
<1>1. /\ UNCHANGED <<tables, job, next, fresh>> /\ row'[c] = rw
      /\ \A d \in Clients \ {c} :
           /\ pc'[d] = pc[d] /\ job'[d] = job[d] /\ next'[d] = next[d]
           /\ row'[d] = row[d] /\ fresh'[d] = fresh[d]
  BY DEF Hold, History, Inv, Base, TypeOK
<1>2. next[c] = 1 /\ fresh[c] = {} /\ job[c].events \in Seq(Events)
  BY RunTyped DEF History, Inv, Base, JobOK, LockOK, Holding
<1>3. /\ Log(Run(c))' = Log(Run(c)) /\ Old(c)' = Old(c)
      /\ \A n : UpTo(c, n)' = UpTo(c, n)
      /\ \A r : RegistrationOK(c, r)' <=> RegistrationOK(c, r)
  <2>1. /\ runs'[Run(c)] = runs[Run(c)] /\ job'[c] = job[c]
        /\ {x \in trace_events' : x.event.run = Run(c)} = Log(Run(c))
    BY <1>1 DEF tables, Log, RowsOf
  <2>2. QED
    BY <2>1, SameWork
<1>4. UpTo(c, next[c] - 1) = {}
  <2>1. New(c) \subseteq 1..Len(job[c].events)
    BY <1>2, NewFinite
  <2>2. QED
    BY <1>2, <2>1 DEF UpTo
<1>5. ListOK(c)'
  <2>1. UpTo(c, next[c] - 1)' = {}
    BY <1>1, <1>3, <1>4
  <2>2. Cardinality(UpTo(c, next[c] - 1)') = 0
    BY <2>1, FS_EmptySet, Zenon
  <2>3. row'[c].event_count = Old(c)' + Cardinality(UpTo(c, next[c] - 1)')
    <3>1. Old(c)' = rw.event_count /\ rw.event_count \in Nat
      BY <1>3 DEF RunRows
    <3>2. rw.event_count = Old(c)' + Cardinality(UpTo(c, next[c] - 1)')
      BY <2>2, <3>1
    <3>3. QED
      BY <1>1, <3>2
  <2>4. fresh'[c] = {RowFor(c, i)' : i \in UpTo(c, next[c] - 1)'}
    BY <1>1, <1>2, <2>1
  <2>5. QED
    BY <2>3, <2>4 DEF ListOK
<1>6. Lawful(row[c], View(c))'
  BY <1>1, <1>2, <1>3 DEF View
<1>7. RegistrationOK(c, row[c])'
  BY <1>1, <1>3
<1>8. QED
  BY <1>1, <1>5, <1>6, <1>7, LocalHistory DEF BookOK

\* An import starts with the start event of the metadata its summary names.
LEMMA ImportStarts ==
  ASSUME Inv, NEW c \in Clients, pc[c] = "acquire", ~Unfit(c), job[c].mode = "import"
  PROVE  Registers(c) /\ Wanted(c) = job[c].summary.meta
<1>1. next[c] = 1
  BY DEF Inv, Base, JobOK
<1>2. Event(c).kind = "START" /\ Event(c).body = job[c].summary.meta
  BY <1>1 DEF Unfit, LineRefused, InExportOrder, Event
<1>3. QED
  BY <1>2 DEF Registers, Wanted

LEMMA CreateHistory ==
  ASSUME History, NEW c \in Clients, Create(c)
  PROVE  History'
<1> DEFINE m == Wanted(c)
           rw == NewRun(m, job[c].role, IF job[c].mode = "import" THEN "import" ELSE "live")
<1>1. /\ pc[c] = "acquire" /\ ~Unfit(c) /\ Registers(c) /\ ~Stored(Run(c))
      /\ Hold(c, rw, PendingAnswers(m))
  BY DEF Create, Stored
<1>2. m \in Metas /\ job[c].role \in Roles /\ Run(c) \in Runs
  BY <1>1, WantedTyped, RunTyped, JobShape DEF History, Inv, Base
<1>3. rw \in RunRows
  BY <1>2, NewRunTyped
<1>4. rw.event_count = Old(c) /\ rw.meta = m /\ rw.role = job[c].role
  BY <1>1 DEF Old, NewRun
<1>5. Lawful(rw, Log(Run(c)))
  BY <1>1, <1>2 DEF Lawful, History, Inv, TablesOK
<1>6. RegistrationOK(c, rw)
  <2>1. RunOf[m] = Run(c) /\ job[c].role \in Admits[m]
    BY <1>1 DEF Unfit, Unregistrable
  <2>2. job[c].mode = "import" => m = job[c].summary.meta
    BY <1>1, ImportStarts DEF History
  <2>3. QED
    BY <1>1, <1>4, <2>1, <2>2 DEF RegistrationOK, Fitting
<1>7. Inv'
  BY CreateInv DEF History
<1> HIDE DEF rw, m
<1>8. QED
  BY <1>1, <1>3, <1>4, <1>5, <1>6, <1>7, HoldHistory

LEMMA LockHistory ==
  ASSUME History, NEW c \in Clients, Lock(c)
  PROVE  History'
<1>1. /\ pc[c] = "acquire" /\ ~Unfit(c) /\ Stored(Run(c)) /\ SameContext(c)
      /\ Hold(c, runs[Run(c)], results[Run(c)])
  BY DEF Lock, Stored
<1>2. Run(c) \in Runs /\ runs[Run(c)] \in RunRows
  BY <1>1, RunTyped DEF History, Inv, Base, TypeOK, Stored
<1>3. Fitting(Run(c), runs[Run(c)]) /\ Lawful(runs[Run(c)], Log(Run(c)))
  BY <1>1, <1>2 DEF History, BooksOK
<1>4. RegistrationOK(c, runs[Run(c)])
  <2>1. job[c].mode = "import" => runs[Run(c)].meta = job[c].summary.meta
    BY <1>1, ImportStarts DEF History, SameContext
  <2>2. QED
    BY <1>1, <1>3, <2>1 DEF RegistrationOK, SameContext
<1>5. Inv' /\ runs[Run(c)].event_count = Old(c)
  BY <1>1, LockInv DEF History, Old
<1>6. QED
  BY <1>1, <1>2, <1>3, <1>4, <1>5, HoldHistory

\* A replayed event is one the log has already.
LEMMA ReplayHistory ==
  ASSUME History, NEW c \in Clients, Replay(c)
  PROVE  History'
<1>1. /\ pc[c] = "check" /\ ~LineRefused(c) /\ Holding(c) /\ job[c] \in Jobs
      /\ job[c].events \in Seq(Events) /\ next[c] \in 1..Len(job[c].events)
  BY RunTyped DEF Replay, History, Inv, Base, JobOK, Holding
<1>2. /\ UNCHANGED <<tables, job, row, answers, fresh>> /\ next'[c] = next[c] + 1
      /\ \A d \in Clients \ {c} :
           /\ pc'[d] = pc[d] /\ job'[d] = job[d] /\ next'[d] = next[d]
           /\ row'[d] = row[d] /\ fresh'[d] = fresh[d]
  BY DEF Replay, Advance, History, Inv, Base, TypeOK, view
<1>3. RegistrationOK(c, row[c]) /\ ListOK(c) /\ Lawful(row[c], View(c))
  BY <1>1 DEF History, BookOK
<1>4. next[c] \notin New(c)
  <2>1. SUFFICES ASSUME next[c] \in New(c) PROVE FALSE
    OBVIOUS
  <2>2. PICK x \in Known(c) : x.event = Event(c)
    BY DEF Replay
  <2>3. x.event.run = Run(c)
    BY <1>1, <2>2, EventOfRun DEF History, Inv
  <2>4. x \notin trace_events
    BY <2>1, <2>2, <2>3 DEF New, Log, RowsOf, Event
  <2>5. PICK i \in UpTo(c, next[c] - 1) : x = RowFor(c, i)
    BY <1>3, <2>2, <2>4 DEF Known, ListOK
  <2>6. i \in 1..(next[c] - 1) /\ job[c].events[i] = job[c].events[next[c]]
    <3>1. New(c) \subseteq 1..Len(job[c].events)
      BY <1>1, NewFinite
    <3>2. i \in 1..(next[c] - 1)
      BY <1>1, <2>5, <3>1 DEF UpTo
    <3>3. QED
      BY <2>2, <2>5, <3>2 DEF RowFor, Event
  <2>7. CASE job[c].mode = "import"
    BY <1>1, <2>6, <2>7 DEF LineRefused, InExportOrder
  <2>8. CASE job[c].mode # "import"
    BY <1>1, <2>6, <2>8, JobShape
  <2>9. QED
    BY <2>7, <2>8
<1>5. UpTo(c, next[c]) = UpTo(c, next[c] - 1)
  <2>1. New(c) \subseteq 1..Len(job[c].events) /\ next[c] \in Nat
    BY <1>1, NewFinite
  <2>2. \A i \in New(c) : i <= next[c] <=> i <= next[c] - 1
    BY <1>4, <2>1
  <2>3. QED
    BY <2>2 DEF UpTo
<1>6. /\ View(c)' = View(c) /\ Old(c)' = Old(c)
      /\ \A n : UpTo(c, n)' = UpTo(c, n)
      /\ \A i : RowFor(c, i)' = RowFor(c, i)
      /\ \A r : RegistrationOK(c, r)' <=> RegistrationOK(c, r)
  <2>1. /\ runs'[Run(c)] = runs[Run(c)] /\ job'[c] = job[c]
        /\ {x \in trace_events' : x.event.run = Run(c)} = Log(Run(c))
    BY <1>2 DEF tables, Log, RowsOf
  <2>2. QED
    BY <1>2, <2>1, SameWork DEF View
<1>7. ListOK(c)'
  <2>1. UpTo(c, next[c] - 1)' = UpTo(c, next[c] - 1)
    <3>1. next'[c] - 1 = next[c]
      BY <1>1, <1>2
    <3>2. QED
      BY <1>5, <1>6, <3>1
  <2>2. QED
    BY <1>2, <1>3, <1>6, <2>1 DEF ListOK
<1>8. Lawful(row[c], View(c))' /\ RegistrationOK(c, row[c])'
  BY <1>2, <1>3, <1>6
<1>9. Inv'
  BY ReplayInv DEF History
<1>10. QED
  BY <1>2, <1>7, <1>8, <1>9, LocalHistory DEF BookOK

LEMMA AcceptHistory ==
  ASSUME History, NEW c \in Clients, Accept(c)
  PROVE  History'
<1>1. /\ Holding(c) /\ UNCHANGED <<tables, job, next, row, fresh>>
      /\ \A d \in Clients \ {c} : pc'[d] = pc[d]
  BY DEF Accept, History, Inv, Base, TypeOK, view, Holding
<1>2. RegistrationOK(c, row[c]) /\ ListOK(c) /\ Lawful(row[c], View(c))
  BY <1>1 DEF History, BookOK
<1>3. /\ View(c)' = View(c) /\ Old(c)' = Old(c)
      /\ \A n : UpTo(c, n)' = UpTo(c, n)
      /\ \A i : RowFor(c, i)' = RowFor(c, i)
      /\ \A r : RegistrationOK(c, r)' <=> RegistrationOK(c, r)
  <2>1. /\ runs'[Run(c)] = runs[Run(c)] /\ job'[c] = job[c]
        /\ {x \in trace_events' : x.event.run = Run(c)} = Log(Run(c))
    BY <1>1 DEF tables, Log, RowsOf
  <2>2. QED
    BY <1>1, <2>1, SameWork DEF View
<1>4. ListOK(c)'
  BY <1>1, <1>2, <1>3 DEF ListOK
<1>5. Lawful(row[c], View(c))' /\ RegistrationOK(c, row[c])'
  BY <1>1, <1>2, <1>3
<1>6. Inv'
  BY AcceptInv DEF History
<1>7. QED
  BY <1>1, <1>4, <1>5, <1>6, LocalHistory DEF BookOK

LEMMA InsertHistory ==
  ASSUME History, NEW c \in Clients, Insert(c)
  PROVE  History'
<1> DEFINE e == Event(c)
           x == [event |-> Event(c), sequence |-> row[c].event_count + 1]
<1>1. /\ pc[c] = "claim" /\ Holding(c) /\ e \in Events /\ row[c] \in RunRows
      /\ Acceptable(row[c], answers[c], e)
      /\ job[c].events \in Seq(Events) /\ next[c] \in 1..Len(job[c].events)
  BY EventTyped, RunTyped DEF Insert, History, Inv, Base, JobOK, Holding
<1>2. /\ UNCHANGED <<tables, job>> /\ next'[c] = next[c] + 1
      /\ row'[c] = Project(row[c], e) /\ fresh'[c] = fresh[c] \cup {x}
      /\ \A d \in Clients \ {c} :
           /\ pc'[d] = pc[d] /\ job'[d] = job[d] /\ next'[d] = next[d]
           /\ row'[d] = row[d] /\ fresh'[d] = fresh[d]
  BY DEF Insert, Advance, History, Inv, Base, TypeOK
<1>3. RegistrationOK(c, row[c]) /\ ListOK(c) /\ Lawful(row[c], View(c))
  BY <1>1 DEF History, BookOK
<1>4. /\ x.event = e /\ x.sequence = row[c].event_count + 1
      /\ e = job[c].events[next[c]]
  BY DEF Event
<1>5. next[c] \in New(c)
  <2>1. \A y \in trace_events : y.event # e
    BY DEF Insert, IdOf
  <2>2. QED
    BY <1>1, <1>4, <2>1 DEF New, Log, RowsOf
<1>6. /\ UpTo(c, next[c]) = UpTo(c, next[c] - 1) \cup {next[c]}
      /\ next[c] \notin UpTo(c, next[c] - 1)
  <2>1. New(c) \subseteq 1..Len(job[c].events) /\ next[c] \in Nat
    BY <1>1, NewFinite
  <2>2. ASSUME NEW i \in New(c)
        PROVE  i <= next[c] <=> (i <= next[c] - 1 \/ i = next[c])
    <3>1. i \in Nat /\ next[c] \in Nat
      BY <2>1
    <3>2. QED
      BY <3>1
  <2>3. /\ next[c] <= next[c] /\ ~(next[c] <= next[c] - 1)
    BY <2>1
  <2>4. \A i : i \in UpTo(c, next[c]) <=> i \in UpTo(c, next[c] - 1) \/ i = next[c]
    BY <1>5, <2>2, <2>3, Zenon DEF UpTo
  <2>5. next[c] \notin UpTo(c, next[c] - 1)
    BY <2>3, Zenon DEF UpTo
  <2>6. QED
    BY <2>4, <2>5
<1>7. Cardinality(UpTo(c, next[c])) = Cardinality(UpTo(c, next[c] - 1)) + 1
  <2>1. IsFiniteSet(UpTo(c, next[c] - 1))
    BY <1>1, UpToFinite
  <2>2. QED
    BY <1>6, <2>1, FS_AddElement
<1>8. RowFor(c, next[c]) = x /\ Project(row[c], e).event_count = Old(c) + Cardinality(UpTo(c, next[c]))
  <2>1. Old(c) \in Nat
    BY <1>1, RunTyped DEF Old, Stored, History, Inv, Base, TypeOK, RunRows, Holding
  <2>2. Cardinality(UpTo(c, next[c] - 1)) \in Nat
    BY <1>1, UpToFinite
  <2>3. row[c].event_count + 1 = Old(c) + Cardinality(UpTo(c, next[c]))
    BY <1>3, <1>7, <2>1, <2>2 DEF ListOK
  <2>4. Project(row[c], e).event_count = row[c].event_count + 1
    BY <1>1, ProjectFields
  <2>5. QED
    BY <1>4, <2>3, <2>4 DEF RowFor
<1>9. /\ View(c)' = View(c) \cup {x} /\ Old(c)' = Old(c)
      /\ \A n : UpTo(c, n)' = UpTo(c, n)
      /\ \A i : RowFor(c, i)' = RowFor(c, i)
      /\ \A r : RegistrationOK(c, r)' <=> RegistrationOK(c, r)
  <2>1. /\ runs'[Run(c)] = runs[Run(c)] /\ job'[c] = job[c]
        /\ {y \in trace_events' : y.event.run = Run(c)} = Log(Run(c))
    BY <1>2 DEF tables, Log, RowsOf
  <2>2. QED
    BY <1>2, <2>1, SameWork DEF View
<1> HIDE DEF x, e
<1>10. ListOK(c)'
  <2>1. UpTo(c, next[c] - 1)' = UpTo(c, next[c])
    <3>1. next'[c] - 1 = next[c]
      BY <1>1, <1>2
    <3>2. QED
      BY <1>9, <3>1
  <2>2. {RowFor(c, i) : i \in UpTo(c, next[c])}
          = {RowFor(c, i) : i \in UpTo(c, next[c] - 1)} \cup {x}
    BY <1>6, <1>8
  <2>3. fresh'[c] = {RowFor(c, i) : i \in UpTo(c, next[c])}
    BY <1>2, <1>3, <2>2 DEF ListOK
  <2>4. fresh'[c] = {RowFor(c, i)' : i \in UpTo(c, next[c] - 1)'}
    BY <1>9, <2>1, <2>3
  <2>5. row'[c].event_count = Old(c)' + Cardinality(UpTo(c, next[c] - 1)')
    BY <1>2, <1>8, <1>9, <2>1
  <2>6. QED
    BY <2>4, <2>5 DEF ListOK
<1>11. Lawful(row[c], View(c))'
  <2>1. View(c) \in SUBSET TraceRows /\ answers[c] \in [Questions -> QuestionRows]
    BY DEF View, Log, RowsOf, History, Inv, Base, TypeOK
  <2>2. Consistent(row[c], answers[c], View(c))
    BY <1>1 DEF History, Inv, ClientOK, ViewOK
  <2>3. e.kind = "START" => e.body = row[c].meta
    BY <1>1 DEF History, Inv, ClientOK, ContextOK, e
  <2>4. Lawful(Project(row[c], e), View(c) \cup {x})
    BY <1>1, <1>3, <1>4, <2>1, <2>2, <2>3, LawfulAppend
  <2>5. QED
    BY <1>2, <1>9, <2>4
<1>12. RegistrationOK(c, row[c])'
  <2>1. Project(row[c], e).meta = row[c].meta /\ Project(row[c], e).role = row[c].role
    BY <1>1, ProjectFields
  <2>2. RegistrationOK(c, Project(row[c], e))
    BY <1>3, <2>1 DEF RegistrationOK, Fitting
  <2>3. QED
    BY <1>2, <1>9, <2>2
<1>13. Inv'
  BY InsertInv DEF History
<1>14. QED
  BY <1>2, <1>10, <1>11, <1>12, <1>13, LocalHistory DEF BookOK

\* A commit gives its run what its transaction worked for, and touches no other.
LEMMA CommitHistory ==
  ASSUME History, NEW c \in Clients, Commit(c)
  PROVE  History'
<1>1. /\ Run(c) \in Runs /\ Holding(c)
      /\ runs'[Run(c)] = row[c]
      /\ {x \in trace_events' : x.event.run = Run(c)} = View(c)
      /\ \A r \in Runs \ {Run(c)} : runs'[r] = runs[r] /\ Log(r)' = Log(r)
  BY CommitTables DEF History
<1>2. /\ pc'[c] \in {"ok", "idle"}
      /\ \A d \in Clients \ {c} :
           /\ pc'[d] = pc[d] /\ job'[d] = job[d] /\ next'[d] = next[d]
           /\ row'[d] = row[d] /\ fresh'[d] = fresh[d]
  BY DEF Commit, History, Inv, Base, TypeOK
<1>3. RegistrationOK(c, row[c]) /\ Lawful(row[c], View(c))
  BY <1>1 DEF History, BookOK
<1>4. ASSUME NEW r \in Runs, Stored(r)'
      PROVE  Fitting(r, runs'[r]) /\ Lawful(runs'[r], Log(r)')
  <2>1. CASE r = Run(c)
    <3>1. Log(r)' = View(c)
      BY <1>1, <2>1 DEF Log, RowsOf
    <3>2. QED
      BY <1>1, <1>3, <2>1, <3>1 DEF RegistrationOK
  <2>2. CASE r # Run(c)
    <3>1. runs'[r] = runs[r] /\ Log(r)' = Log(r) /\ Stored(r)
      BY <1>1, <1>4, <2>2 DEF Stored
    <3>2. QED
      BY <3>1 DEF History, BooksOK
  <2>3. QED
    BY <2>1, <2>2
<1>5. BooksOK'
  BY <1>4 DEF BooksOK, Fitting
<1>6. ASSUME NEW d \in Clients
      PROVE  BookOK(d)'
  <2>1. CASE d = c
    BY <1>2, <2>1 DEF BookOK, Holding
  <2>2. CASE d # c
    <3>1. ASSUME Holding(d)
          PROVE  /\ runs'[Run(d)] = runs[Run(d)]
                 /\ {x \in trace_events' : x.event.run = Run(d)} = Log(Run(d))
      <4>1. Run(d) \in Runs \ {Run(c)}
        BY <1>1, <2>2, <3>1, RunTyped DEF History, Inv, Base, LockOK, Holding
      <4>2. \A r \in Runs : Log(r)' = {x \in trace_events' : x.event.run = r}
        BY DEF Log, RowsOf
      <4>3. PICK r \in Runs \ {Run(c)} : r = Run(d)
        BY <4>1
      <4>4. QED
        BY <1>1, <4>2, <4>3
    <3>2. QED
      BY <1>2, <2>2, <3>1, BystanderKeeps DEF History
  <2>3. QED
    BY <2>1, <2>2
<1>7. Inv'
  BY CommitInv DEF History
<1>8. QED
  BY <1>5, <1>6, <1>7 DEF History

LEMMA NextHistory == History /\ [Next]_vars => History'
<1>1. SUFFICES ASSUME History, [Next]_vars PROVE History'
  OBVIOUS
<1>2. CASE Next
  <2>1. PICK c \in Clients :
          \/ Begin(c) \/ Rollback(c) \/ Create(c) \/ Lock(c) \/ Replay(c)
          \/ Accept(c) \/ Insert(c) \/ Commit(c) \/ Return(c)
    BY <1>2, StepCases
  <2>2. QED
    BY <1>1, <2>1, OutsideHistory, CreateHistory, LockHistory, ReplayHistory,
       AcceptHistory, InsertHistory, CommitHistory
<1>3. CASE UNCHANGED vars
  <2>1. Inv'
    BY <1>1, <1>3, NextInv DEF History
  <2>2. UNCHANGED tables
    BY <1>3 DEF vars, tables
  <2>3. BooksOK'
    BY <1>1, <2>2 DEF History, BooksOK, tables, Stored, Log, RowsOf
  <2>4. ASSUME NEW d \in Clients PROVE BookOK(d)'
    <3>1. /\ runs'[Run(d)] = runs[Run(d)]
          /\ {x \in trace_events' : x.event.run = Run(d)} = Log(Run(d))
      BY <2>2 DEF tables, Log, RowsOf
    <3>2. QED
      BY <1>1, <1>3, <3>1, BystanderKeeps DEF History, vars
  <2>5. QED
    BY <2>1, <2>3, <2>4 DEF History
<1>4. QED
  BY <1>1, <1>2, <1>3
-----------------------------------------------------------------------------
(* What a commit adds to a book *)

\* The log before a transaction, and what its job adds to it.
Before(c) == FirstEvents(Log(Run(c)), Old(c))
Added(c) == Ledger!Missing(job[c].events, Before(c))

\* The events read off typed rows are a sequence of events.
LEMMA FirstEventsSeq ==
  ASSUME NEW rw \in RunRows, NEW rows \in SUBSET TraceRows, GapFree(rw, rows),
         NEW n \in 0..rw.event_count
  PROVE  FirstEvents(rows, n) \in Seq(Events) /\ Len(FirstEvents(rows, n)) = n
<1>1. rw.event_count \in Nat /\ n \in Nat
  BY DEF RunRows
<1>2. /\ FirstEvents(rows, n) = [k \in 1..n |-> FirstEvents(rows, n)[k]]
      /\ \A k \in 1..n : \E x \in rows : FirstEvents(rows, n)[k] = x.event
  BY <1>1, EventAtPlace
<1>3. \A k \in 1..n : FirstEvents(rows, n)[k] \in Events
  BY <1>2 DEF TraceRows
<1>4. FirstEvents(rows, n) \in [1..n -> Events]
  BY <1>2, <1>3
<1>5. QED
  BY <1>1, <1>4

\* The log before a transaction holds the events of the committed rows.
LEMMA BeforeMeans ==
  ASSUME History, NEW c \in Clients, Holding(c)
  PROVE  /\ Old(c) \in Nat
         /\ Before(c) \in Seq(Events) /\ Len(Before(c)) = Old(c)
         /\ \A x \in Log(Run(c)) : x.sequence \in 1..Old(c) /\ Before(c)[x.sequence] = x.event
         /\ \A k \in 1..Old(c) : \E x \in Log(Run(c)) : x.sequence = k /\ Before(c)[k] = x.event
         /\ Stored(Run(c)) => Before(c) = LogOf(Run(c))
         /\ ~Stored(Run(c)) => Before(c) = <<>>
<1>1. Run(c) \in Runs
  BY RunTyped DEF History, Inv, Holding
<1>2. CASE Stored(Run(c))
  <2> DEFINE rw == runs[Run(c)]
  <2>1. rw \in RunRows /\ Log(Run(c)) \in SUBSET TraceRows /\ rw.event_count \in Nat
    BY <1>1, <1>2 DEF History, Inv, Base, TypeOK, Stored, Log, RowsOf, RunRows
  <2>2. GapFree(rw, Log(Run(c))) /\ Old(c) = rw.event_count
    BY <1>1, <1>2 DEF History, Inv, TablesOK, Consistent, Old
  <2>3. Before(c) = LogOf(Run(c)) /\ Before(c) = FirstEvents(Log(Run(c)), rw.event_count)
    BY <2>2 DEF Before, LogOf
  <2> HIDE DEF rw
  <2>4. rw.event_count \in 0..rw.event_count
    BY <2>1
  <2>5. Before(c) \in Seq(Events) /\ Len(Before(c)) = Old(c)
    BY <2>1, <2>2, <2>3, <2>4, FirstEventsSeq
  <2>6. /\ \A x \in Log(Run(c)) : x.sequence \in 1..Old(c) /\ Before(c)[x.sequence] = x.event
        /\ \A k \in 1..Old(c) : \E x \in Log(Run(c)) : x.sequence = k /\ Before(c)[k] = x.event
    BY <2>1, <2>2, <2>3, <2>4, EventAtPlace
  <2>7. QED
    BY <1>2, <2>1, <2>2, <2>3, <2>5, <2>6
<1>3. CASE ~Stored(Run(c))
  <2>1. Log(Run(c)) = {} /\ Old(c) = 0
    BY <1>1, <1>3 DEF History, Inv, TablesOK, Old
  <2>2. Before(c) = <<>>
    BY <2>1 DEF Before, FirstEvents
  <2>3. QED
    BY <1>3, <2>1, <2>2
<1>4. QED
  BY <1>2, <1>3

\* The new events of a job are those the log before it lacks.
LEMMA NewMeans ==
  ASSUME History, NEW c \in Clients, Holding(c)
  PROVE  /\ {i \in DOMAIN job[c].events :
               job[c].events[i] \notin Ledger!ToSet(Before(c))} = New(c)
         /\ DOMAIN Added(c) = 1..Cardinality(New(c))
         /\ \A n \in 1..Cardinality(New(c)) :
              (\E i \in New(c) : Cardinality(UpTo(c, i)) = n) =>
                \E i \in New(c) : Cardinality(UpTo(c, i)) = n /\ Added(c)[n] = job[c].events[i]
<1> DEFINE at == {i \in DOMAIN job[c].events : job[c].events[i] \notin Ledger!ToSet(Before(c))}
           place(n) == CHOOSE i \in at : Ledger!Cardinality({k \in at : k <= i}) = n
<1>1. /\ Before(c) \in Seq(Events) /\ Len(Before(c)) = Old(c) /\ Old(c) \in Nat
      /\ \A x \in Log(Run(c)) : x.sequence \in 1..Old(c) /\ Before(c)[x.sequence] = x.event
      /\ \A k \in 1..Old(c) : \E x \in Log(Run(c)) : x.sequence = k /\ Before(c)[k] = x.event
  BY BeforeMeans
<1>2. DOMAIN Before(c) = 1..Old(c)
  BY <1>1, LenProperties
<1>3. \A e : e \in Ledger!ToSet(Before(c)) <=> \E x \in Log(Run(c)) : x.event = e
  BY <1>1, <1>2 DEF Ledger!ToSet
<1>4. at = New(c)
  BY <1>3 DEF New
<1>5. Added(c) = [n \in 1..Ledger!Cardinality(at) |-> job[c].events[place(n)]]
  BY DEF Added, Ledger!Missing
<1>6. \A i : {k \in New(c) : k <= i} = UpTo(c, i)
  BY DEF UpTo
<1>7. \A n : (\E i \in New(c) : Cardinality(UpTo(c, i)) = n) =>
               place(n) \in New(c) /\ Cardinality(UpTo(c, place(n))) = n
  <2>1. SUFFICES ASSUME NEW n, NEW i \in New(c), Cardinality(UpTo(c, i)) = n
                 PROVE  place(n) \in New(c) /\ Cardinality(UpTo(c, place(n))) = n
    OBVIOUS
  <2>2. \A j : Ledger!Cardinality({k \in at : k <= j}) = Cardinality(UpTo(c, j))
    BY <1>4, <1>6, SameCount
  <2> HIDE DEF at
  <2>3. i \in at /\ Ledger!Cardinality({k \in at : k <= i}) = n
    BY <1>4, <2>1, <2>2
  <2>4. place(n) \in at /\ Ledger!Cardinality({k \in at : k <= place(n)}) = n
    BY <2>3
  <2>5. QED
    BY <1>4, <2>2, <2>4
<1> HIDE DEF place
<1>8. Ledger!Cardinality(at) = Cardinality(New(c))
  BY <1>4, SameCount
<1>9. QED
  BY <1>4, <1>5, <1>7, <1>8

\* The uncommitted rows continue the log, with the events the job adds to it.
LEMMA CommitRows ==
  ASSUME History, NEW c \in Clients, Commit(c)
  PROVE  /\ Cardinality(New(c)) \in Nat
         /\ row[c].event_count = Old(c) + Cardinality(New(c))
         /\ \A k \in 1..Cardinality(New(c)) :
              \E x \in fresh[c] : x.sequence = Old(c) + k /\ x.event = Added(c)[k]
<1>1. /\ Holding(c) /\ job[c] \in Jobs /\ row[c] \in RunRows
      /\ next[c] = Len(job[c].events) + 1
  BY CommitTables DEF History
<1>2. job[c].events \in Seq(Events) /\ Len(job[c].events) \in Nat
  BY <1>1, JobShape
<1>3. IsFiniteSet(New(c)) /\ New(c) \subseteq 1..Len(job[c].events)
  BY <1>2, NewFinite
<1>4. UpTo(c, next[c] - 1) = New(c)
  <2>1. next[c] - 1 = Len(job[c].events)
    BY <1>1, <1>2
  <2>2. \A j \in New(c) : j <= Len(job[c].events)
    BY <1>2, <1>3
  <2>3. QED
    BY <2>1, <2>2 DEF UpTo
<1>5. Cardinality(New(c)) \in Nat
  BY <1>3, FS_CardinalityType
<1>6. /\ row[c].event_count = Old(c) + Cardinality(New(c))
      /\ fresh[c] = {RowFor(c, j) : j \in New(c)}
  BY <1>1, <1>4 DEF History, BookOK, ListOK
<1>7. ASSUME NEW k \in 1..Cardinality(New(c))
      PROVE  \E x \in fresh[c] : x.sequence = Old(c) + k /\ x.event = Added(c)[k]
  <2>1. Old(c) \in Nat /\ \A x \in Log(Run(c)) : x.sequence <= Old(c)
    BY <1>1, BeforeMeans
  <2>2. GapFree(row[c], View(c))
    BY <1>1 DEF History, Inv, ClientOK, ViewOK, Consistent
  <2>3. Old(c) + k \in 1..row[c].event_count /\ Old(c) + k > Old(c)
    BY <1>5, <1>6, <2>1
  <2>4. PICK x \in View(c) : x.sequence = Old(c) + k
    BY <2>2, <2>3 DEF GapFree
  <2>5. x \in fresh[c]
    BY <2>1, <2>3, <2>4 DEF View
  <2>6. PICK j \in New(c) : x = RowFor(c, j)
    BY <1>6, <2>5
  <2>7. Cardinality(UpTo(c, j)) = k
    <3>1. Cardinality(UpTo(c, j)) \in Nat
      BY <1>2, UpToFinite
    <3>2. Old(c) + Cardinality(UpTo(c, j)) = Old(c) + k
      BY <2>4, <2>6 DEF RowFor
    <3>3. QED
      BY <2>1, <3>1, <3>2
  <2>8. PICK l \in New(c) : Cardinality(UpTo(c, l)) = k /\ Added(c)[k] = job[c].events[l]
    BY <1>1, <2>7, NewMeans
  <2>9. RowFor(c, l) \in fresh[c]
    BY <1>6
  <2>10. QED
    BY <2>8, <2>9 DEF RowFor
<1>8. QED
  BY <1>5, <1>6, <1>7

\* What the job adds is a sequence, as long as there are new events.
LEMMA AddedSeq ==
  ASSUME History, NEW c \in Clients, Commit(c), NEW k \in 0..Cardinality(New(c))
  PROVE  /\ Added(c) \in Seq(Events) /\ Len(Added(c)) = Cardinality(New(c))
         /\ SubSeq(Added(c), 1, k) \in Seq(Events) /\ Len(SubSeq(Added(c), 1, k)) = k
         /\ \A j \in 1..k : SubSeq(Added(c), 1, k)[j] = Added(c)[j]
<1>1. PICK n \in Nat : n = Cardinality(New(c))
  BY CommitRows
<1>2. DOMAIN Added(c) = 1..n
  BY <1>1, NewMeans, CommitTables DEF History
<1>3. \A j \in 1..n : Added(c)[j] \in Events
  <2>1. fresh[c] \in SUBSET TraceRows
    BY DEF History, Inv, Base, TypeOK
  <2>2. QED
    BY <1>1, <2>1, CommitRows DEF TraceRows
<1>4. Added(c) = [j \in 1..n |-> Added(c)[j]]
  BY <1>1, <1>2 DEF Added, Ledger!Missing
<1>5. Added(c) \in [1..n -> Events]
  BY <1>3, <1>4
<1>6. Added(c) \in Seq(Events) /\ Len(Added(c)) = n
  BY <1>5
<1>7. 1 \in Int /\ k \in Int /\ k >= 0 /\ \A j \in 1..k : Added(c)[j] \in Events
  BY <1>1, <1>3
<1>8. /\ SubSeq(Added(c), 1, k) \in Seq(Events)
      /\ Len(SubSeq(Added(c), 1, k)) = IF 1 <= k THEN k - 1 + 1 ELSE 0
      /\ \A j \in 1..(k - 1 + 1) : SubSeq(Added(c), 1, k)[j] = Added(c)[1 + j - 1]
  BY <1>7, SubSeqProperties
<1>9. QED
  BY <1>1, <1>6, <1>7, <1>8

\* The log in the view of a transaction that commits: the log before it, then
\* the events its job adds.
LEMMA ViewContinues ==
  ASSUME History, NEW c \in Clients, Commit(c), NEW k \in 0..Cardinality(New(c))
  PROVE  FirstEvents(View(c), Old(c) + k) = Before(c) \o SubSeq(Added(c), 1, k)
<1> DEFINE s == FirstEvents(View(c), Old(c) + k)
           a == SubSeq(Added(c), 1, k)
           t == Before(c) \o a
<1>1. Holding(c) /\ row[c] \in RunRows /\ View(c) \in SUBSET TraceRows
  BY CommitTables DEF History, Inv, Base, TypeOK, View, Log, RowsOf
<1>2. /\ Old(c) \in Nat
      /\ Before(c) \in Seq(Events) /\ Len(Before(c)) = Old(c)
      /\ \A j \in 1..Old(c) : \E x \in Log(Run(c)) : x.sequence = j /\ Before(c)[j] = x.event
  BY <1>1, BeforeMeans
<1>3. /\ Cardinality(New(c)) \in Nat
      /\ row[c].event_count = Old(c) + Cardinality(New(c))
      /\ \A j \in 1..Cardinality(New(c)) :
           \E x \in fresh[c] : x.sequence = Old(c) + j /\ x.event = Added(c)[j]
  BY CommitRows
<1>4. k \in Nat /\ Old(c) + k \in Nat /\ Old(c) + k \in 0..row[c].event_count
  BY <1>2, <1>3
<1>5. GapFree(row[c], View(c)) /\ row[c].event_count \in Nat
  BY <1>1 DEF History, Inv, ClientOK, ViewOK, Consistent, RunRows
<1>6. /\ s \in Seq(Events) /\ Len(s) = Old(c) + k
      /\ \A x \in View(c) : x.sequence <= Old(c) + k => s[x.sequence] = x.event
  BY <1>1, <1>4, <1>5, FirstEventsSeq, EventAtPlace
<1>7. a \in Seq(Events) /\ Len(a) = k /\ \A j \in 1..k : a[j] = Added(c)[j]
  BY AddedSeq
<1> HIDE DEF s, a
<1>8. /\ t \in Seq(Events) /\ Len(t) = Old(c) + k
      /\ \A j \in 1..(Old(c) + k) :
           t[j] = IF j <= Old(c) THEN Before(c)[j] ELSE a[j - Old(c)]
  <2> DEFINE b == Before(c)
  <2>1. b \in Seq(Events) /\ a \in Seq(Events) /\ Len(b) = Old(c) /\ Len(a) = k
    BY <1>2, <1>7
  <2> HIDE DEF b
  <2>2. /\ b \o a \in Seq(Events) /\ Len(b \o a) = Len(b) + Len(a)
        /\ \A j \in 1..(Len(b) + Len(a)) :
             (b \o a)[j] = IF j <= Len(b) THEN b[j] ELSE a[j - Len(b)]
    BY <2>1, ConcatProperties
  <2>3. QED
    BY <2>1, <2>2 DEF b
<1> HIDE DEF t
<1>9. ASSUME NEW j \in 1..(Old(c) + k)
      PROVE  s[j] = t[j]
  <2>1. CASE j <= Old(c)
    <3>1. j \in 1..Old(c)
      BY <1>2, <1>4, <2>1
    <3>2. PICK x \in Log(Run(c)) : x.sequence = j /\ Before(c)[j] = x.event
      BY <1>2, <3>1
    <3>3. QED
      BY <1>6, <1>8, <2>1, <3>2 DEF View
  <2>2. CASE j > Old(c)
    <3>1. PICK l \in 1..k : j = Old(c) + l /\ l = j - Old(c)
      BY <1>2, <1>4, <2>2
    <3>2. l \in 1..Cardinality(New(c))
      BY <1>3
    <3>3. PICK x \in fresh[c] : x.sequence = Old(c) + l /\ x.event = Added(c)[l]
      BY <1>3, <3>2
    <3>4. s[j] = x.event
      BY <1>6, <3>1, <3>3 DEF View
    <3>5. t[j] = a[l]
      BY <1>2, <1>8, <2>2, <3>1
    <3>6. QED
      BY <1>7, <3>3, <3>4, <3>5
  <2>3. QED
    BY <1>2, <2>1, <2>2
<1>10. s = t
  BY <1>6, <1>8, <1>9, SeqEqual
<1>11. QED
  BY <1>10 DEF s, t, a
-----------------------------------------------------------------------------
(* Every step of the store is a step of the ledger *)

\* A run has a book exactly if it is registered.
LEMMA BookExists ==
  ASSUME History, NEW r \in Runs
  PROVE  /\ BookOf(r) # None <=> Stored(r)
         /\ Stored(r) => /\ BookOf(r).meta = runs[r].meta
                         /\ BookOf(r).role = runs[r].role
                         /\ BookOf(r).log = LogOf(r)
<1>1. CASE ~Stored(r)
  BY <1>1 DEF BookOf
<1>2. CASE Stored(r)
  <2>1. runs[r] \in RunRows /\ Log(r) \in SUBSET TraceRows /\ GapFree(runs[r], Log(r))
    BY <1>2 DEF History, Inv, Base, TypeOK, TablesOK, Consistent, Stored, Log, RowsOf
  <2>2. /\ runs[r].meta \in Metas /\ runs[r].role \in Roles
        /\ runs[r].event_count \in 0..runs[r].event_count
    BY <2>1 DEF RunRows
  <2>3. LogOf(r) \in Seq(Events)
    BY <2>1, <2>2, FirstEventsSeq DEF LogOf
  <2>4. BookOf(r) = [meta |-> runs[r].meta, role |-> runs[r].role, log |-> LogOf(r)]
    BY <1>2 DEF BookOf
  <2>5. BookOf(r) \in [meta : Metas, role : Roles, log : Seq(Events)]
    BY <2>2, <2>3, <2>4
  <2>6. QED
    BY <1>2, <2>4, <2>5, BookAssumption
<1>3. QED
  BY <1>1, <1>2

\* The IDs in the books are those of committed rows.
LEMMA IdsInBooks ==
  ASSUME History, NEW id \in Ledger!AllIds
  PROVE  \E x \in trace_events : IdOf(x) = id
<1>1. PICK r \in Runs : BookOf(r) # None /\ id \in Ledger!IdsIn(BookOf(r).log)
  BY DEF Ledger!AllIds, Ledger!Books
<1>2. Stored(r) /\ BookOf(r).log = LogOf(r)
  BY <1>1, BookExists
<1>3. PICK k \in DOMAIN LogOf(r) : id = LogOf(r)[k].id
  BY <1>1, <1>2 DEF Ledger!IdsIn
<1>4. /\ runs[r] \in RunRows /\ GapFree(runs[r], Log(r))
      /\ runs[r].event_count \in Nat
      /\ runs[r].event_count \in 0..runs[r].event_count
  BY <1>2 DEF History, Inv, Base, TypeOK, TablesOK, Consistent, Stored, RunRows
<1>5. PICK x \in Log(r) : LogOf(r)[k] = x.event
  BY <1>3, <1>4, EventAtPlace DEF LogOf
<1>6. QED
  BY <1>3, <1>5 DEF Log, RowsOf, IdOf

\* Each event a commit adds is new to the store and may follow those before it.
LEMMA AddedFollows ==
  ASSUME History, NEW c \in Clients, Commit(c), NEW i \in DOMAIN Added(c)
  PROVE  /\ Added(c)[i].run = Run(c)
         /\ Added(c)[i].id \notin Ledger!AllIds \cup Ledger!IdsIn(SubSeq(Added(c), 1, i - 1))
         /\ Ledger!MayFollow(row[c].meta, Before(c) \o SubSeq(Added(c), 1, i - 1), Added(c)[i])
<1>1. Holding(c) /\ Old(c) \in Nat
  BY BeforeMeans, CommitTables DEF History
<1>2. /\ Cardinality(New(c)) \in Nat
      /\ \A k \in 1..Cardinality(New(c)) :
           \E x \in fresh[c] : x.sequence = Old(c) + k /\ x.event = Added(c)[k]
  BY CommitRows
<1>3. /\ i \in 1..Cardinality(New(c)) /\ i - 1 \in 0..Cardinality(New(c)) /\ i \in Nat
      /\ 1..(i - 1) \subseteq 1..Cardinality(New(c)) /\ i \notin 1..(i - 1)
  BY <1>1, <1>2, NewMeans
<1>4. PICK x \in fresh[c] : x.sequence = Old(c) + i /\ x.event = Added(c)[i]
  BY <1>2, <1>3
<1>5. Added(c)[i].run = Run(c)
  BY <1>4 DEF History, Inv, ClientOK, KeyOK
<1>6. \A y, z \in trace_events \cup UNION {fresh[d] : d \in Clients} :
        IdOf(y) = IdOf(z) => y = z
  BY DEF History, Inv, EventKeysUnique
<1>7. Added(c)[i].id \notin Ledger!AllIds
  <2>1. SUFFICES ASSUME Added(c)[i].id \in Ledger!AllIds PROVE FALSE
    OBVIOUS
  <2>2. PICK y \in trace_events : IdOf(y) = Added(c)[i].id
    BY <2>1, IdsInBooks
  <2>3. y = x
    BY <1>4, <1>6, <2>2 DEF IdOf
  <2>4. x \in Log(Run(c))
    BY <1>4, <1>5, <2>2, <2>3 DEF Log, RowsOf
  <2>5. x.sequence <= Old(c)
    BY <1>1, <2>4, BeforeMeans
  <2>6. QED
    BY <1>1, <1>3, <1>4, <2>5
<1>8. Added(c)[i].id \notin Ledger!IdsIn(SubSeq(Added(c), 1, i - 1))
  <2> DEFINE a == SubSeq(Added(c), 1, i - 1)
  <2>1. a \in Seq(Events) /\ Len(a) = i - 1 /\ \A j \in 1..(i - 1) : a[j] = Added(c)[j]
    BY <1>3, AddedSeq
  <2> HIDE DEF a
  <2>2. DOMAIN a = 1..(i - 1)
    BY <2>1, LenProperties
  <2>3. ASSUME NEW j \in 1..(i - 1), Added(c)[j].id = Added(c)[i].id PROVE FALSE
    <3>1. PICK y \in fresh[c] : y.sequence = Old(c) + j /\ y.event = Added(c)[j]
      BY <1>2, <1>3
    <3>2. y = x
      BY <1>4, <1>6, <2>3, <3>1 DEF IdOf
    <3>3. Old(c) + j = Old(c) + i
      BY <1>4, <3>1, <3>2
    <3>4. QED
      BY <1>1, <1>3, <3>3
  <2>4. QED
    BY <2>1, <2>2, <2>3 DEF Ledger!IdsIn, a
<1>9. Ledger!MayFollow(row[c].meta, Before(c) \o SubSeq(Added(c), 1, i - 1), Added(c)[i])
  <2>1. Lawful(row[c], View(c)) /\ x \in View(c)
    BY <1>1, <1>4 DEF History, BookOK, View
  <2>2. Ledger!MayFollow(row[c].meta, FirstEvents(View(c), x.sequence - 1), x.event)
    BY <2>1 DEF Lawful
  <2>3. x.sequence - 1 = Old(c) + (i - 1)
    BY <1>1, <1>3, <1>4
  <2>4. FirstEvents(View(c), Old(c) + (i - 1)) = Before(c) \o SubSeq(Added(c), 1, i - 1)
    BY <1>3, ViewContinues
  <2>5. QED
    BY <1>4, <2>2, <2>3, <2>4
<1>10. QED
  BY <1>5, <1>7, <1>8, <1>9

\* A commit writes the book of its run, and no other.
LEMMA BookWritten ==
  ASSUME History, NEW c \in Clients, Commit(c)
  PROVE  \A r \in Runs :
           BookOf(r)' = IF r = Run(c)
                        THEN [meta |-> row[c].meta, role |-> row[c].role,
                              log |-> Before(c) \o Added(c)]
                        ELSE BookOf(r)
<1>1. /\ Run(c) \in Runs /\ row[c] \in RunRows
      /\ runs'[Run(c)] = row[c]
      /\ {x \in trace_events' : x.event.run = Run(c)} = View(c)
      /\ \A r \in Runs \ {Run(c)} : runs'[r] = runs[r] /\ Log(r)' = Log(r)
  BY CommitTables DEF History
<1>2. PICK q \in Runs : q = Run(c)
  BY <1>1
<1>3. ASSUME NEW r \in Runs \ {q}
      PROVE  BookOf(r)' = BookOf(r)
  <2>1. runs'[r] = runs[r] /\ Log(r)' = Log(r)
    BY <1>1, <1>2
  <2>2. LogOf(r)' = LogOf(r) /\ (Stored(r)' <=> Stored(r))
    BY <2>1 DEF LogOf, Stored
  <2>3. QED
    BY <2>1, <2>2 DEF BookOf
<1>4. LogOf(q)' = Before(c) \o Added(c)
  <2>1. PICK n \in Nat : n = Cardinality(New(c)) /\ n \in 0..Cardinality(New(c))
    BY CommitRows
  <2>2. Log(q)' = View(c)
    BY <1>1, <1>2 DEF Log, RowsOf
  <2>3. LogOf(q)' = FirstEvents(View(c), Old(c) + n)
    BY <1>1, <1>2, <2>1, <2>2, CommitRows DEF LogOf
  <2>4. SubSeq(Added(c), 1, n) = Added(c)
    <3> DEFINE a == Added(c)
               b == SubSeq(Added(c), 1, n)
    <3>1. /\ a \in Seq(Events) /\ Len(a) = n /\ b \in Seq(Events) /\ Len(b) = n
          /\ \A j \in 1..n : b[j] = a[j]
      BY <2>1, AddedSeq
    <3> HIDE DEF a, b
    <3>2. b = a
      BY <3>1, SeqEqual
    <3>3. QED
      BY <3>2 DEF a, b
  <2>5. QED
    BY <2>1, <2>3, <2>4, ViewContinues
<1>5. Stored(q)'
  BY <1>1, <1>2, NoneAssumption DEF Stored
<1>6. BookOf(q)' = [meta |-> row[c].meta, role |-> row[c].role, log |-> Before(c) \o Added(c)]
  BY <1>1, <1>2, <1>4, <1>5 DEF BookOf
<1>7. QED
  BY <1>2, <1>3, <1>6

\* A commit writes what its job adds into the book of its run.
LEMMA CommitWrites ==
  ASSUME History, NEW c \in Clients, Commit(c)
  PROVE  Ledger!Write(Run(c), row[c].meta, row[c].role, Added(c))
<1> DEFINE books == [r \in Runs |-> BookOf(r)]
<1>1. Run(c) \in Runs /\ Holding(c)
  BY CommitTables DEF History
<1>2. PICK q \in Runs : q = Run(c)
  BY <1>1
<1>3. /\ BookOf(q) # None <=> Stored(q)
      /\ Stored(q) => /\ BookOf(q).meta = runs[q].meta
                      /\ BookOf(q).role = runs[q].role
                      /\ BookOf(q).log = LogOf(q)
  BY BookExists
<1>4. (IF books[q] = None THEN <<>> ELSE books[q].log) = Before(c)
  BY <1>1, <1>2, <1>3, BeforeMeans
<1>5. RegistrationOK(c, row[c])
  BY <1>1 DEF History, BookOK
<1>6. books[q] # None => books[q].meta = row[c].meta /\ books[q].role = row[c].role
  BY <1>2, <1>3, <1>5 DEF RegistrationOK
<1>7. RunOf[row[c].meta] = q /\ row[c].role \in Admits[row[c].meta]
  BY <1>2, <1>5 DEF RegistrationOK, Fitting
<1>8. \A i \in DOMAIN Added(c) :
        /\ Added(c)[i].run = q
        /\ Added(c)[i].id \notin Ledger!AllIds \cup Ledger!IdsIn(SubSeq(Added(c), 1, i - 1))
        /\ Ledger!MayFollow(row[c].meta, Before(c) \o SubSeq(Added(c), 1, i - 1), Added(c)[i])
  BY <1>2, AddedFollows
<1>9. books' = [books EXCEPT ![q] = [meta |-> row[c].meta, role |-> row[c].role,
                                     log |-> Before(c) \o Added(c)]]
  BY <1>2, BookWritten
<1>10. QED
  BY <1>2, <1>4, <1>6, <1>7, <1>8, <1>9 DEF Ledger!Write

\* The commit of a job without new events is a registration, which may repeat an
\* earlier one.
LEMMA CommitOfNothing ==
  ASSUME History, NEW c \in Clients, Commit(c), New(c) = {}
  PROVE  Ledger!Next
<1>1. Run(c) \in Runs /\ row[c] \in RunRows
  BY CommitTables DEF History
<1>2. row[c].meta \in Metas /\ row[c].role \in Roles
  BY <1>1 DEF RunRows
<1>3. Cardinality(New(c)) = 0
  BY FS_EmptySet, Zenon
<1>4. 0 \in 0..Cardinality(New(c))
  BY <1>3
<1>5. Added(c) \in Seq(Events) /\ Len(Added(c)) = 0
  BY <1>3, <1>4, AddedSeq
<1>6. Added(c) = <<>>
  BY <1>5, EmptySeq
<1>7. Ledger!Write(Run(c), row[c].meta, row[c].role, <<>>)
  BY <1>6, CommitWrites
<1>8. QED
  BY <1>1, <1>2, <1>7 DEF Ledger!Register, Ledger!Next

\* The commit of a live event that is new delivers it.
LEMMA CommitOfEvent ==
  ASSUME History, NEW c \in Clients, Commit(c), job[c].mode = "live", New(c) # {}
  PROVE  Ledger!Next
<1>1. /\ Run(c) \in Runs /\ row[c] \in RunRows /\ job[c].events \in Seq(Events)
      /\ Len(job[c].events) = 1
  BY CommitTables, JobShape DEF History
<1>2. row[c].meta \in Metas /\ row[c].role \in Roles
  BY <1>1 DEF RunRows
<1>3. DOMAIN job[c].events = {1}
  BY <1>1
<1>4. New(c) = {1}
  BY <1>3 DEF New
<1>5. Cardinality(New(c)) = 1
  BY <1>4, FS_Singleton, Zenon
<1>6. 1 \in 0..Cardinality(New(c))
  BY <1>5
<1>7. Added(c) \in Seq(Events) /\ Len(Added(c)) = 1
  BY <1>5, <1>6, AddedSeq
<1>8. PICK e \in Events : Added(c) = <<e>>
  <2> DEFINE a == Added(c)
  <2>1. a \in Seq(Events) /\ Len(a) = 1
    BY <1>7
  <2> HIDE DEF a
  <2>2. a[1] \in Events /\ a = <<a[1]>>
    BY <2>1
  <2>3. QED
    BY <2>2 DEF a
<1>9. Ledger!Write(Run(c), row[c].meta, row[c].role, <<e>>)
  BY <1>8, CommitWrites
<1>10. QED
  BY <1>1, <1>2, <1>9 DEF Ledger!Deliver, Ledger!Next

\* The commit of an import brings what its export has and the book lacks.
LEMMA CommitOfImport ==
  ASSUME History, NEW c \in Clients, Commit(c), job[c].mode = "import"
  PROVE  Ledger!Next
<1>1. /\ Run(c) \in Runs /\ row[c] \in RunRows /\ Holding(c)
      /\ job[c] \in Jobs /\ Complete(c)
  BY CommitTables DEF History, Commit
<1>2. job[c] \in ImportJobs
  BY <1>1 DEF Jobs, LiveJobs, RegisterJobs
<1>3. PICK x \in Exports :
        /\ Len(x.events) > 0 /\ x.run = Run(c) /\ x.events = job[c].events
        /\ x.summary = job[c].summary /\ x.intact = job[c].intact
  BY <1>2 DEF ImportJobs, Run
<1>4. x.intact
  BY <1>1, <1>3 DEF Complete
<1>5. Ledger!Finished(x.events)
  <2>1. x.events \in Seq(Events)
    BY ExportAssumption
  <2>2. Len(x.events) \in DOMAIN x.events
    BY <1>3, <2>1
  <2>3. x.events[Len(x.events)].kind = "FINISH"
    BY <1>1, <1>3 DEF Complete
  <2>4. QED
    BY <2>2, <2>3 DEF Ledger!Finished
<1>6. x.summary.meta = row[c].meta /\ row[c].role \in Roles
  BY <1>1, <1>3 DEF History, BookOK, RegistrationOK, RunRows
<1>7. (IF [r \in Runs |-> BookOf(r)][Run(c)] = None
       THEN <<>> ELSE [r \in Runs |-> BookOf(r)][Run(c)].log) = Before(c)
  BY <1>1, BookExists, BeforeMeans
<1>8. Ledger!Write(Run(c), x.summary.meta, row[c].role, Ledger!Missing(x.events, Before(c)))
  BY <1>3, <1>6, CommitWrites DEF Added
<1>9. Ledger!Import(Run(c))
  BY <1>3, <1>4, <1>5, <1>6, <1>7, <1>8 DEF Ledger!Import
<1>10. QED
  BY <1>1, <1>9 DEF Ledger!Next

\* A step that leaves the tables alone leaves the books alone.
LEMMA BooksKept ==
  ASSUME UNCHANGED tables
  PROVE  UNCHANGED [r \in Runs |-> BookOf(r)]
<1>1. runs' = runs /\ trace_events' = trace_events
  BY DEF tables
<1>2. ASSUME NEW r \in Runs
      PROVE  BookOf(r)' = BookOf(r)
  BY <1>1 DEF BookOf, Stored, LogOf, Log, RowsOf
<1>3. QED
  BY <1>2

\* Every step of the store is a step of the ledger or leaves the books alone.
LEMMA StepRefines ==
  History /\ [Next]_vars => [Ledger!Next]_([r \in Runs |-> BookOf(r)])
<1>1. SUFFICES ASSUME History, [Next]_vars
               PROVE  Ledger!Next \/ UNCHANGED [r \in Runs |-> BookOf(r)]
  OBVIOUS
<1>2. CASE UNCHANGED vars
  BY <1>2, BooksKept DEF vars, tables
<1>3. CASE Next
  <2>1. PICK c \in Clients :
          \/ Begin(c) \/ Rollback(c) \/ Create(c) \/ Lock(c) \/ Replay(c)
          \/ Accept(c) \/ Insert(c) \/ Commit(c) \/ Return(c)
    BY <1>3, StepCases
  <2>2. CASE Commit(c)
    <3>1. job[c] \in Jobs
      BY <1>1, <2>2, CommitTables DEF History
    <3>2. job[c].mode \in {"live", "register", "import"}
          /\ (job[c].mode = "register" => job[c].events = <<>>)
      BY <3>1, JobShape
    <3>3. job[c].mode = "register" => New(c) = {}
      BY <3>2 DEF New
    <3>4. QED
      BY <1>1, <2>2, <3>2, <3>3, CommitOfNothing, CommitOfEvent, CommitOfImport
  <2>3. CASE ~Commit(c)
    <3>1. UNCHANGED tables
      BY <2>1, <2>3 DEF Begin, Rollback, Create, Lock, Hold, Replay, Accept, Insert, Return
    <3>2. QED
      BY <3>1, BooksKept
  <2>4. QED
    BY <2>2, <2>3
<1>4. QED
  BY <1>1, <1>2, <1>3

\* Before the first registration there is no book.
LEMMA InitRefines == Init => Ledger!Init
BY DEF Init, Ledger!Init, BookOf, Stored

\* In every reachable state the log of each run obeys the ledger's rules event by
\* event, and each open transaction holds exactly the rows for the events of its
\* job that the committed log lacks (_ingest, import_export).
THEOREM HistoryInvariant == Spec => []History
<1>1. Init => History
  BY InitHistory
<1>2. History /\ [Next]_vars => History'
  BY NextHistory
<1>3. QED
  BY <1>1, <1>2, PTL DEF Spec

\* The store implements the ledger: with locks, counters, question rows and
\* transactions that race, roll back and lose their answers, every commit appends
\* its events to one book, all or none, by the rules the log alone determines.
THEOREM ImplementsLedger == Spec => LedgerSpec
<1>1. Init => Ledger!Init
  BY InitRefines
<1>2. History /\ [Next]_vars => [Ledger!Next]_([r \in Runs |-> BookOf(r)])
  BY StepRefines
<1>3. QED
  BY <1>1, <1>2, HistoryInvariant, PTL DEF Spec, LedgerSpec, Ledger!Spec
=============================================================================
