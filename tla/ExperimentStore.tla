--------------------------- MODULE ExperimentStore ---------------------------
(***************************************************************************)
(* The PostgreSQL experiment store of observability/database: the tables   *)
(* runs, run_questions and trace_events, and the transactions that write   *)
(* them.  Three callers open a transaction: register_run reserves a run,   *)
(* ingest_event (the live sink) delivers one event, and import_export      *)
(* delivers every event of a finalized export.                             *)
(*                                                                         *)
(* Transactions run concurrently under READ COMMITTED.  A transaction sees *)
(* the committed tables and its own writes; it waits for the row of its    *)
(* run (or for an uncommitted insertion of that row) and for an            *)
(* uncommitted insertion of an event key it wants to insert.  It may roll  *)
(* back at any point, and its commit may go unacknowledged.                *)
(*                                                                         *)
(* An event is a record [id, run, kind, qid, body]; its body is what the   *)
(* payload says that the store tells apart: the metadata of a START event, *)
(* status and score of a QUESTION event, the summary of a FINISH event.    *)
(* Two events with one content hash are one and the same record.           *)
(***************************************************************************)
EXTENDS Integers, Sequences, FiniteSets

CONSTANTS
  Clients,      \* processes holding a connection: live sinks, retries, importers
  Runs,         \* run IDs
  Metas,        \* run metadata payloads
  Roles,        \* benchmark role together with the component versions
  Questions,    \* question IDs
  Events,       \* the events that may be delivered
  Exports,      \* the export directories that may be imported
  RunOf,        \* RunOf[m]: the run_id inside metadata m
  Admits,       \* Admits[m]: roles validate_metadata accepts for m
  Plan,         \* Plan[m]: the question_ids of metadata m, in order
  Warmups,      \* Warmups[m]: configuration.warmup_questions
  FullSize,     \* FullSize[m]: full_dataset_question_count
  Conforms,     \* Conforms[m]: events whose source, version and payload fit m
  None

Final == {"completed", "failed"}
Outcomes == [status : Final, score : Nat]
Summaries == [meta : Metas, status : Final, completed : Nat, failed : Nat,
              warm : Nat, full : BOOLEAN, total : Nat]

ASSUME PlanAssumption ==
  /\ RunOf \in [Metas -> Runs]
  /\ Plan \in [Metas -> Seq(Questions)]
  /\ \A m \in Metas : \A i, j \in 1..Len(Plan[m]) :
        Plan[m][i] = Plan[m][j] => i = j

ASSUME EventAssumption ==
  \A e \in Events :
    /\ e.run \in Runs
    /\ e.qid \in Questions \cup {None}
    /\ e.kind \in {"START", "QUESTION", "FINISH", "DIAGNOSTIC"}
    /\ e.kind = "START" => e.body \in Metas
    /\ e.kind = "QUESTION" => e.body \in Outcomes
    /\ e.kind = "FINISH" => e.body \in Summaries

ASSUME ExportAssumption ==
  \A x \in Exports : /\ x.run \in Runs
                     /\ x.events \in Seq(Events)
                     /\ x.summary \in Summaries
                     /\ x.intact \in BOOLEAN

VARIABLES
  runs,          \* committed rows of runs, or None
  results,       \* committed rows of run_questions
  trace_events,  \* committed rows of trace_events
  owner,         \* the transaction holding (or inserting) the row of a run
  pc,            \* where each client's transaction is
  job,           \* what each client is delivering
  next,          \* index of the event being ingested
  row,           \* a transaction's view of the row of its run
  answers,       \* its view of the run's run_questions
  fresh          \* its uncommitted rows of trace_events

vars == <<runs, results, trace_events, owner, pc, job, next, row, answers, fresh>>
tables == <<runs, results, trace_events>>
view == <<row, answers, fresh>>
-----------------------------------------------------------------------------
(* Rows *)

RunRows == [meta : Metas, role : Roles, mode : {"live", "import"},
            status : {"registered", "running"} \cup Final,
            attempted : Nat, completed : Nat, failed : Nat, event_count : Nat,
            summary : Summaries \cup {None}]

ASSUME NoneAssumption == None \notin Clients \cup Questions /\ None \notin RunRows

QuestionRows == [position : Nat, status : {"absent", "pending"} \cup Final,
                 score : Nat]

TraceRows == [event : Events, sequence : Nat]

NoQuestion == [position |-> 0, status |-> "absent", score |-> 0]
NoAnswers == [q \in Questions |-> NoQuestion]

PositionOf(m, q) == CHOOSE i \in 1..Len(Plan[m]) : Plan[m][i] = q

\* The rows _register inserts for a run it creates.
NewRun(m, role, mode) ==
  [meta |-> m, role |-> role, mode |-> mode, status |-> "registered",
   attempted |-> 0, completed |-> 0, failed |-> 0, event_count |-> 0,
   summary |-> None]

PendingAnswers(m) ==
  [q \in Questions |->
     IF \E i \in 1..Len(Plan[m]) : Plan[m][i] = q
     THEN [position |-> PositionOf(m, q), status |-> "pending", score |-> 0]
     ELSE NoQuestion]

IdOf(x) == x.event.id
RowsOf(r, rows) == {x \in rows : x.event.run = r}
-----------------------------------------------------------------------------
(* Validation *)

Recorded(ans) == {q \in Questions : ans[q].status \in Final}

\* The sum of the recorded scores: the points of all questions.
TotalScore(ans) == Cardinality(UNION {{q} \X (1..ans[q].score) : q \in Recorded(ans)})

\* Fault: the counts and the aggregate of the summary are trusted.
SummaryTrusted(rw, ans, s) ==
  /\ s.meta = rw.meta
  /\ s.status = "completed" \/ rw.attempted > 0 => s.warm = Warmups[rw.meta]

\* validate_summary: the final counts, the warmups, the full-benchmark flag
\* and the aggregate agree with what the store recorded.
SummaryAgrees(rw, ans, s) ==
  /\ s.meta = rw.meta
  /\ s.completed = rw.completed
  /\ s.failed = rw.failed
  /\ s.status = "completed" => rw.failed = 0 /\ rw.completed = Len(Plan[rw.meta])
  /\ s.status = "failed" => rw.failed > 0 \/ rw.attempted = 0
  /\ s.warm <= Warmups[rw.meta]
  /\ s.status = "completed" \/ rw.attempted > 0 => s.warm = Warmups[rw.meta]
  /\ s.full = (s.status = "completed" /\ rw.completed = FullSize[rw.meta])
  /\ s.total = TotalScore(ans)

\* Fault: only a missing start is looked for, not a final status.
AcceptableOpenEnded(rw, ans, e) ==
  /\ e.kind # "DIAGNOSTIC" =>
       e \in Conforms[rw.meta] /\ (e.kind = "QUESTION" <=> e.qid # None)
  /\ e.qid # None => ans[e.qid].status # "absent"
  /\ IF e.kind = "START" THEN rw.status = "registered" ELSE rw.status # "registered"
  /\ e.kind = "QUESTION" =>
       rw.failed = 0 /\ ans[e.qid].position = rw.attempted + 1
  /\ e.kind = "FINISH" => SummaryAgrees(rw, ans, e.body)

\* Fault: a result is taken for any question that is still pending.
AcceptableAnyOrder(rw, ans, e) ==
  /\ rw.status \notin Final
  /\ e.kind # "DIAGNOSTIC" =>
       e \in Conforms[rw.meta] /\ (e.kind = "QUESTION" <=> e.qid # None)
  /\ e.qid # None => ans[e.qid].status # "absent"
  /\ IF e.kind = "START" THEN rw.status = "registered" ELSE rw.status = "running"
  /\ e.kind = "QUESTION" => rw.failed = 0 /\ ans[e.qid].status = "pending"
  /\ e.kind = "FINISH" => SummaryAgrees(rw, ans, e.body)

\* The lifecycle rules _ingest applies to an event it has not seen before.
Acceptable(rw, ans, e) ==
  /\ rw.status \notin Final
  /\ e.kind # "DIAGNOSTIC" =>
       e \in Conforms[rw.meta] /\ (e.kind = "QUESTION" <=> e.qid # None)
  /\ e.qid # None => ans[e.qid].status # "absent"
  /\ IF e.kind = "START" THEN rw.status = "registered" ELSE rw.status = "running"
  /\ e.kind = "QUESTION" =>
       rw.failed = 0 /\ ans[e.qid].position = rw.attempted + 1
  /\ e.kind = "FINISH" => SummaryAgrees(rw, ans, e.body)

\* Fault: a status the CHECK constraint of the table does not list.
ProjectStarted(rw, e) ==
  [rw EXCEPT !.event_count = @ + 1, !.status = "started"]

\* The run row after an accepted event.
Project(rw, e) ==
  CASE e.kind = "START" ->
         [rw EXCEPT !.event_count = @ + 1, !.status = "running"]
    [] e.kind = "QUESTION" ->
         [rw EXCEPT !.event_count = @ + 1,
                    !.attempted = @ + 1,
                    !.completed = @ + (IF e.body.status = "completed" THEN 1 ELSE 0),
                    !.failed = @ + (IF e.body.status = "failed" THEN 1 ELSE 0)]
    [] e.kind = "FINISH" ->
         [rw EXCEPT !.event_count = @ + 1,
                    !.status = e.body.status,
                    !.summary = e.body]
    [] OTHER -> [rw EXCEPT !.event_count = @ + 1]

\* Fault: the metrics column is left as it was.
AnswerStatusOnly(ans, e) ==
  IF e.kind = "QUESTION" THEN [ans EXCEPT ![e.qid].status = e.body.status] ELSE ans

\* The run_questions rows after an accepted event.
Answer(ans, e) ==
  IF e.kind = "QUESTION"
  THEN [ans EXCEPT ![e.qid].status = e.body.status, ![e.qid].score = e.body.score]
  ELSE ans
-----------------------------------------------------------------------------
(* Jobs: what a caller asks of one transaction *)

\* Fault: a live sink that batches two events into one transaction.
LiveBatches ==
  {[mode |-> "live", run |-> e.run, role |-> ro, events |-> <<e, f>>,
    meta |-> None, summary |-> None, intact |-> TRUE] :
      e \in Events, f \in Events, ro \in Roles}

LiveJobs ==
  {[mode |-> "live", run |-> e.run, role |-> ro, events |-> <<e>>,
    meta |-> None, summary |-> None, intact |-> TRUE] : e \in Events, ro \in Roles}

RegisterJobs ==
  {[mode |-> "register", run |-> RunOf[m], role |-> ro, events |-> <<>>,
    meta |-> m, summary |-> None, intact |-> TRUE] : m \in Metas, ro \in Roles}

ImportJobs ==
  {[mode |-> "import", run |-> x.run, role |-> ro, events |-> x.events,
    meta |-> None, summary |-> x.summary, intact |-> x.intact] :
      x \in {y \in Exports : Len(y.events) > 0}, ro \in Roles}

Jobs == LiveJobs \cup RegisterJobs \cup ImportJobs
NoJob == [mode |-> "none", run |-> None, role |-> None, events |-> <<>>,
          meta |-> None, summary |-> None, intact |-> TRUE]

Event(c) == job[c].events[next[c]]
Run(c) == job[c].run

\* Does this transaction go through _register, and with which metadata?
Registers(c) == job[c].mode # "register" => Event(c).kind = "START"
Wanted(c) == IF job[c].mode = "register" THEN job[c].meta ELSE Event(c).body

\* The importer's own checks on a line, before it calls _ingest.
InExportOrder(j, i) ==
  LET e == j.events[i] IN
    /\ e.run = j.run
    /\ \A k \in 1..(i - 1) : j.events[k].id # e.id /\ j.events[k].kind # "FINISH"
    /\ IF i = 1 THEN e.kind = "START" /\ e.body = j.summary.meta
                ELSE e.kind \in {"QUESTION", "FINISH"}
    /\ e.kind = "FINISH" => e.body = j.summary

LineRefused(c) == job[c].mode = "import" /\ ~InExportOrder(job[c], next[c])

\* A registration the store refuses before it reads anything: metadata of
\* another run, or a role that does not suit the metadata.
Unregistrable(c) ==
  Registers(c) /\ (RunOf[Wanted(c)] # Run(c) \/ job[c].role \notin Admits[Wanted(c)])

Unfit(c) == LineRefused(c) \/ Unregistrable(c)
-----------------------------------------------------------------------------
(* Waiting *)

\* The statement of c waits until d's transaction ends.
WaitsFor(c, d) ==
  /\ d # c
  /\ \/ /\ pc[c] = "acquire" /\ owner[Run(c)] = d
        /\ Registers(c) \/ runs[Run(c)] # None
     \/ /\ pc[c] = "claim"
        /\ \E x \in fresh[d] : IdOf(x) = Event(c).id

Blocked(c) == \E d \in Clients : WaitsFor(c, d)
Active(c) == pc[c] \in {"acquire", "check", "claim", "commit"}
-----------------------------------------------------------------------------
Init ==
  /\ runs = [r \in Runs |-> None]
  /\ results = [r \in Runs |-> NoAnswers]
  /\ trace_events = {}
  /\ owner = [r \in Runs |-> None]
  /\ pc = [c \in Clients |-> "idle"]
  /\ job = [c \in Clients |-> NoJob]
  /\ next = [c \in Clients |-> 1]
  /\ row = [c \in Clients |-> None]
  /\ answers = [c \in Clients |-> NoAnswers]
  /\ fresh = [c \in Clients |-> {}]

\* A client opens a transaction.
Begin(c) ==
  /\ pc[c] = "idle"
  /\ \E j \in Jobs : job' = [job EXCEPT ![c] = j]
  /\ next' = [next EXCEPT ![c] = 1]
  /\ pc' = [pc EXCEPT ![c] = "acquire"]
  /\ UNCHANGED <<tables, owner, view>>

\* Ends c's transaction without effect: ROLLBACK releases the row it holds
\* and discards its uncommitted rows.
Rollback(c) ==
  /\ owner' = [r \in Runs |-> IF owner[r] = c THEN None ELSE owner[r]]
  /\ fresh' = [fresh EXCEPT ![c] = {}]
  /\ row' = [row EXCEPT ![c] = None]
  /\ answers' = [answers EXCEPT ![c] = NoAnswers]
  /\ job' = [job EXCEPT ![c] = NoJob]
  /\ next' = [next EXCEPT ![c] = 1]
  /\ pc' = [pc EXCEPT ![c] = "idle"]
  /\ UNCHANGED tables

\* Holding the row, the transaction goes on to its first event.
Hold(c, rw, ans) ==
  /\ owner' = [owner EXCEPT ![Run(c)] = c]
  /\ row' = [row EXCEPT ![c] = rw]
  /\ answers' = [answers EXCEPT ![c] = ans]
  /\ pc' = [pc EXCEPT ![c] = IF job[c].events = <<>> THEN "commit" ELSE "check"]
  /\ UNCHANGED <<tables, job, next, fresh>>

\* INSERT INTO runs ... ON CONFLICT DO NOTHING wins: the run is created.
Create(c) ==
  /\ pc[c] = "acquire" /\ ~Unfit(c)
  /\ Registers(c) /\ runs[Run(c)] = None /\ owner[Run(c)] = None
  /\ Hold(c, NewRun(Wanted(c), job[c].role,
                    IF job[c].mode = "import" THEN "import" ELSE "live"),
          PendingAnswers(Wanted(c)))

\* The registration context of c agrees with the stored run.
SameContext(c) ==
  /\ runs[Run(c)].role = job[c].role
  /\ Registers(c) => runs[Run(c)].meta = Wanted(c)

\* Fault: SELECT without FOR UPDATE.
LockShared(c) ==
  /\ pc[c] = "acquire" /\ ~Unfit(c)
  /\ runs[Run(c)] # None
  /\ SameContext(c)
  /\ Hold(c, runs[Run(c)], results[Run(c)])

\* SELECT ... FOR UPDATE returns the committed row.
Lock(c) ==
  /\ pc[c] = "acquire" /\ ~Unfit(c)
  /\ runs[Run(c)] # None /\ owner[Run(c)] = None
  /\ SameContext(c)
  /\ Hold(c, runs[Run(c)], results[Run(c)])

\* No such run, a different registration context, or an unfit request.
Refuse(c) ==
  /\ pc[c] = "acquire"
  /\ \/ Unfit(c)
     \/ ~Registers(c) /\ runs[Run(c)] = None
     \/ runs[Run(c)] # None /\ owner[Run(c)] = None /\ ~SameContext(c)
  /\ Rollback(c)

\* The rows of trace_events the transaction sees under an event ID.
Known(c) == {x \in trace_events \cup fresh[c] : IdOf(x) = Event(c).id}

Advance(c) ==
  /\ next' = [next EXCEPT ![c] = @ + 1]
  /\ pc' = [pc EXCEPT ![c] = IF next[c] = Len(job[c].events) THEN "commit" ELSE "check"]

\* Fault: an event is taken for a replay by its ID alone.
ReplayById(c) ==
  /\ pc[c] = "check" /\ ~LineRefused(c)
  /\ Known(c) # {}
  /\ Advance(c)
  /\ UNCHANGED <<tables, owner, job, view>>

\* Exact replay: nothing is written, whatever the run's status.
Replay(c) ==
  /\ pc[c] = "check" /\ ~LineRefused(c)
  /\ \E x \in Known(c) : x.event = Event(c)
  /\ Advance(c)
  /\ UNCHANGED <<tables, owner, job, view>>

\* A new event passes the lifecycle and payload checks.
Accept(c) ==
  /\ pc[c] = "check" /\ ~LineRefused(c)
  /\ Known(c) = {} /\ Acceptable(row[c], answers[c], Event(c))
  /\ pc' = [pc EXCEPT ![c] = "claim"]
  /\ UNCHANGED <<tables, owner, job, next, view>>

\* A known ID with other content, or an event the run cannot take.
Reject(c) ==
  /\ pc[c] = "check"
  /\ \/ LineRefused(c)
     \/ Known(c) # {} /\ \A x \in Known(c) : x.event # Event(c)
     \/ Known(c) = {} /\ ~Acceptable(row[c], answers[c], Event(c))
  /\ Rollback(c)

\* Fault: the insertion relies on the earlier look-up of the ID.
InsertUnchecked(c) ==
  /\ pc[c] = "claim"
  /\ fresh' = [fresh EXCEPT ![c] = @ \cup
                 {[event |-> Event(c), sequence |-> row[c].event_count + 1]}]
  /\ row' = [row EXCEPT ![c] = Project(@, Event(c))]
  /\ answers' = [answers EXCEPT ![c] = Answer(@, Event(c))]
  /\ Advance(c)
  /\ UNCHANGED <<tables, owner, job>>

\* INSERT INTO trace_events and the projections of the event.
Insert(c) ==
  /\ pc[c] = "claim" /\ ~Blocked(c)
  /\ \A x \in trace_events : IdOf(x) # Event(c).id
  /\ fresh' = [fresh EXCEPT ![c] = @ \cup
                 {[event |-> Event(c), sequence |-> row[c].event_count + 1]}]
  /\ row' = [row EXCEPT ![c] = Project(@, Event(c))]
  /\ answers' = [answers EXCEPT ![c] = Answer(@, Event(c))]
  /\ Advance(c)
  /\ UNCHANGED <<tables, owner, job>>

\* Another run committed the same event ID after this transaction looked.
LoseClaim(c) ==
  /\ pc[c] = "claim" /\ ~Blocked(c)
  /\ \E x \in trace_events : IdOf(x) = Event(c).id
  /\ Rollback(c)

\* Fault: the checksum is checked and the missing finish event is not.
CompleteFile(c) == job[c].mode = "import" => job[c].intact

\* An import must have ended with the finish event of an intact file.
Complete(c) ==
  job[c].mode = "import" =>
    job[c].intact /\ job[c].events[Len(job[c].events)].kind = "FINISH"

\* COMMIT; the caller sees it succeed ("ok") or loses the connection.
Commit(c) ==
  /\ pc[c] = "commit" /\ Complete(c)
  /\ runs' = [runs EXCEPT ![Run(c)] = row[c]]
  /\ results' = [results EXCEPT ![Run(c)] = answers[c]]
  /\ trace_events' = trace_events \cup fresh[c]
  /\ owner' = [owner EXCEPT ![Run(c)] = None]
  /\ fresh' = [fresh EXCEPT ![c] = {}]
  /\ row' = [row EXCEPT ![c] = None]
  /\ answers' = [answers EXCEPT ![c] = NoAnswers]
  /\ \/ pc' = [pc EXCEPT ![c] = "ok"] /\ UNCHANGED <<job, next>>
     \/ /\ pc' = [pc EXCEPT ![c] = "idle"]
        /\ job' = [job EXCEPT ![c] = NoJob]
        /\ next' = [next EXCEPT ![c] = 1]

Incomplete(c) == pc[c] = "commit" /\ ~Complete(c) /\ Rollback(c)

\* The caller has its answer and may call again.
Return(c) ==
  /\ pc[c] = "ok"
  /\ pc' = [pc EXCEPT ![c] = "idle"]
  /\ job' = [job EXCEPT ![c] = NoJob]
  /\ next' = [next EXCEPT ![c] = 1]
  /\ UNCHANGED <<tables, owner, view>>

\* Fault: only the wait for a row is bounded.
TimeoutOfRowWait(c) == pc[c] = "acquire" /\ Blocked(c) /\ Rollback(c)

\* A waiting statement reaches statement_timeout, or is the deadlock victim.
Timeout(c) == Blocked(c) /\ Rollback(c)

\* The connection or the process is lost in the middle of a transaction.
Abort(c) == Active(c) /\ Rollback(c)

\* What the server and the client do next on behalf of an open transaction.
Proceed(c) ==
  \/ Create(c) \/ Lock(c) \/ Refuse(c)
  \/ Replay(c) \/ Accept(c) \/ Reject(c)
  \/ Insert(c) \/ LoseClaim(c)
  \/ Commit(c) \/ Incomplete(c)
  \/ Return(c) \/ Timeout(c)

Next == \E c \in Clients : Begin(c) \/ Proceed(c) \/ Abort(c)

Spec == Init /\ [][Next]_vars
FairSpec == Spec /\ \A c \in Clients : WF_vars(Proceed(c))
-----------------------------------------------------------------------------
(* Properties *)

Stored(r) == runs[r] # None
Log(r) == RowsOf(r, trace_events)
Holding(c) == pc[c] \in {"check", "claim", "commit"}

\* Every variable holds values of its column or Python type.
TypeOK ==
  /\ runs \in [Runs -> RunRows \cup {None}]
  /\ results \in [Runs -> [Questions -> QuestionRows]]
  /\ trace_events \in SUBSET TraceRows
  /\ owner \in [Runs -> Clients \cup {None}]
  /\ pc \in [Clients -> {"idle", "acquire", "check", "claim", "commit", "ok"}]
  /\ job \in [Clients -> Jobs \cup {NoJob}]
  /\ next \in [Clients -> Nat \ {0}]
  /\ row \in [Clients -> RunRows \cup {None}]
  /\ answers \in [Clients -> [Questions -> QuestionRows]]
  /\ fresh \in [Clients -> SUBSET TraceRows]

\* An event ID names one event in the whole database, also among the rows that
\* are not committed yet: two runs whose deliveries race for an ID never both
\* get it (the on_conflict branch of _ingest).
EventKeysUnique ==
  LET all == trace_events \cup UNION {fresh[c] : c \in Clients} IN
  \A x, y \in all : IdOf(x) = IdOf(y) => x = y

\* The sequence numbers of a run are 1..event_count, without gap or repetition.
GapFree(rw, rows) ==
  /\ \A x \in rows : x.sequence \in 1..rw.event_count
  /\ \A n \in 1..rw.event_count : \E x \in rows : x.sequence = n
  /\ \A x, y \in rows : x.sequence = y.sequence => x = y

\* START is the first event and no other; FINISH is the last event; the status
\* column says how far the log is, and the run keeps the metadata it began with.
InLifecycle(rw, rows) ==
  /\ rw.status = "registered" <=> rows = {}
  /\ \A x \in rows : x.event.kind = "START" <=> x.sequence = 1
  /\ \A x \in rows : x.event.kind = "START" => x.event.body = rw.meta
  /\ \A x \in rows : x.event.kind = "FINISH" =>
       /\ x.sequence = rw.event_count
       /\ rw.status = x.event.body.status
       /\ rw.summary = x.event.body
  /\ rw.status \in Final => \E x \in rows : x.event.kind = "FINISH"

\* The log of every committed run is gap free and follows the lifecycle,
\* whatever the transactions of live sinks, retries and imports did at once.
LogWellFormed ==
  \A r \in Runs : Stored(r) => GapFree(runs[r], Log(r)) /\ InLifecycle(runs[r], Log(r))

\* A question row says exactly what the one QUESTION event of the log says.
Projected(ans, rows) ==
  /\ \A q \in Questions : ans[q].status \in Final =>
       \E x \in rows : /\ x.event.kind = "QUESTION" /\ x.event.qid = q
                       /\ x.event.body.status = ans[q].status
                       /\ x.event.body.score = ans[q].score
  /\ \A x \in rows : x.event.kind = "QUESTION" =>
       x.event.qid \in Questions /\ ans[x.event.qid].status \in Final
  /\ \A x, y \in rows :
       /\ x.event.kind = "QUESTION" /\ y.event.kind = "QUESTION"
       /\ x.event.qid = y.event.qid
       => x = y

\* Column projections (run_questions) never disagree with the events they are
\* projected from: they are written in one transaction and under one lock.
ProjectionsMatchLog ==
  \A r \in Runs : Stored(r) => Projected(results[r], Log(r))

\* The answered questions are the first ones of the plan, as many as the
\* counters say, and a failure is the last of them.
InPlanOrder(rw, ans) ==
  /\ rw.attempted = rw.completed + rw.failed
  /\ \A q \in Questions : ans[q].status # "absent" =>
       (ans[q].status \in Final <=> ans[q].position <= rw.attempted)
  /\ \A q \in Questions : ans[q].status = "failed" =>
       rw.failed = 1 /\ ans[q].position = rw.attempted
  /\ rw.failed = 0 \/ (rw.failed = 1 /\ \E q \in Questions : ans[q].status = "failed")

\* Question results arrive in the order of the plan with nothing after a
\* failure, even when several deliverers race with different outcomes.
ResultsInPlanOrder ==
  \A r \in Runs : Stored(r) => InPlanOrder(runs[r], results[r])

\* The summary of a final run counts and adds up the question rows.
SummaryHonest(rw, ans) ==
  /\ rw.status = "completed" =>
       \A q \in Questions : ans[q].status \in {"absent", "completed"}
  /\ rw.summary.completed = Cardinality({q \in Questions : ans[q].status = "completed"})
  /\ rw.summary.failed = Cardinality({q \in Questions : ans[q].status = "failed"})
  /\ rw.summary.total = TotalScore(ans)

\* A final status is earned: a completed run has every planned question
\* completed, and the summary's counts and total are those of the question rows.
FinalSummaryHonest ==
  \A r \in Runs : Stored(r) /\ runs[r].status \in Final =>
    SummaryHonest(runs[r], results[r])

\* A run that an import created is final: no partial import is ever visible.
ImportsAreWhole ==
  \A r \in Runs : Stored(r) /\ runs[r].mode = "import" => runs[r].status \in Final

\* What a caller was told is stored: every event of an acknowledged call is in
\* the log with the content that was sent, and an acknowledged import is final.
AcknowledgedIsStored ==
  \A c \in Clients : pc[c] = "ok" =>
    /\ Stored(Run(c))
    /\ \A i \in DOMAIN job[c].events : \E x \in trace_events : x.event = job[c].events[i]
    /\ job[c].mode = "import" => runs[Run(c)].status \in Final

\* Events are never changed or removed, and nothing about a finalized run
\* changes: not its row, its questions or its log.
FinalizedFrozen ==
  [][/\ trace_events \subseteq trace_events'
     /\ \A r \in Runs : Stored(r) /\ runs[r].status \in Final =>
          runs'[r] = runs[r] /\ results'[r] = results[r] /\ Log(r)' = Log(r)]_vars

\* S is a set of transactions that only wait for each other.
Stuck(S) == \A c \in S : \E d \in S : WaitsFor(c, d)

\* Deadlock takes two imports: live deliveries and registrations hold no event
\* key while they wait, so they are never part of a cycle of waits.
DeadlockNeedsTwoImports ==
  \A S \in SUBSET Clients : S # {} /\ Stuck(S) =>
    \E a, b \in S : a # b /\ job[a].mode = "import" /\ job[b].mode = "import"

\* Every transaction ends: statement_timeout bounds each wait, so no caller is
\* blocked for ever by another transaction, not even by a deadlock.
EveryTransactionEnds == \A c \in Clients : Active(c) ~> ~Active(c)
=============================================================================
