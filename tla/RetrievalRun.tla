----------------------------- MODULE RetrievalRun -----------------------------
(***************************************************************************)
(* One retrieval benchmark run: the serial loop of evaluate, the export    *)
(* directory its DiagnosticExportSink writes (events.jsonl, run.json,      *)
(* manifest.json), the downstream sink that stores each event, and the     *)
(* buffer through which the embedding boundary hands over its observations.*)
(*                                                                         *)
(* A call may fail wherever the code calls out: the embedding, the search  *)
(* after it, a file write, the downstream sink (before or after it stored  *)
(* the event).  The process may crash between any two steps, and a later   *)
(* process may try the same run ID again.  Latencies and ranked lists are  *)
(* left out; a question's metrics are one score.                           *)
(***************************************************************************)
EXTENDS Integers, Sequences, FiniteSets, SequencesExt

CONSTANTS
  Configs,   \* what a caller may ask for: see ConfigAssumption
  Questions, \* question IDs
  Text,      \* Text[q]: the text of a question, by its digest
  Scores,    \* the scores a completed question may get
  None,      \* a file that does not exist, a missing value
  Torn       \* a file, or a last line, that was not written to its end

ASSUME ConfigAssumption ==
  \A c \in Configs :
    /\ c.plan \in Seq(Questions) /\ Len(c.plan) > 0
    /\ \A i, j \in DOMAIN c.plan : c.plan[i] = c.plan[j] => i = j
    /\ c.warmups \in 0..Len(c.plan)
    /\ c.full \in Nat            \* questions of the whole benchmark
    /\ c.observed \in BOOLEAN    \* dense or hybrid: embeddings are observed
    /\ c.downstream \in BOOLEAN  \* a downstream sink is attached
    /\ c.labelled \in BOOLEAN    \* every question has gold documents

ASSUME ScoreAssumption == Scores \subseteq Nat

VARIABLES
  config,    \* the configuration of the current process, or None
  pc,        \* where the process is
  dir,       \* the run ID is reserved: its directory exists
  log,       \* the lines of events.jsonl
  run_json, manifest,   \* the other two files: None, Torn or their content
  stored,    \* the events the downstream store has committed
  pending,   \* the observation buffer
  warmed,    \* warmup_completed
  traces,    \* the question traces in memory
  error,     \* error_type is set
  out        \* the event being emitted, then the summary being finalized

files == <<dir, log, run_json, manifest>>
memory == <<pending, warmed, traces, error>>
vars == <<config, pc, files, stored, memory, out>>

Running == {"evaluate", "write", "deliver", "run.json", "manifest.json", "load"}
Ended == {"done", "sink_error", "buffer_error", "benchmark_error", "refused", "crashed"}
-----------------------------------------------------------------------------
(* Events *)

Start(c) == [kind |-> "START", qid |-> None, body |-> c, seen |-> None]

Answered(q, status, score, seen) ==
  [kind |-> "QUESTION", qid |-> q, body |-> [status |-> status, score |-> score],
   seen |-> seen]

Finish(s) == [kind |-> "FINISH", qid |-> None, body |-> s, seen |-> None]

\* The traces of completed questions, by their places.
Completed == {i \in DOMAIN traces : traces[i].body.status = "completed"}

\* The sum of the scores: the points of all questions.
Total ==
  Cardinality(UNION {{traces[i].qid} \X (1..traces[i].body.score) : i \in DOMAIN traces})

\* Fault: the warmups are counted with the completed questions.
SummaryWithWarmups ==
  LET completed == Cardinality(Completed) IN
  [meta |-> config,
   status |-> IF error THEN "failed" ELSE "completed",
   completed |-> completed + warmed,
   failed |-> Len(traces) - completed,
   unattempted |-> Len(config.plan) - Len(traces),
   warm |-> warmed,
   full |-> ~error /\ Len(traces) = config.full,
   total |-> Total]

\* The RunSummary of evaluate: counts and the aggregate over its traces.
Summary ==
  LET completed == Cardinality(Completed) IN
  [meta |-> config,
   status |-> IF error THEN "failed" ELSE "completed",
   completed |-> completed,
   failed |-> Len(traces) - completed,
   unattempted |-> Len(config.plan) - Len(traces),
   warm |-> warmed,
   full |-> ~error /\ Len(traces) = config.full,
   total |-> Total]
-----------------------------------------------------------------------------
(* The observation buffer *)

\* What a retriever call comes to: the embedding fails; the search fails after
\* the embedding was observed; the result breaks the contract; all is well.
Calls == {"embedding_error", "search_error", "invalid", "valid"}
Raises(call) == call \in {"embedding_error", "search_error"}

\* _validate_result refuses what the retriever returned.
Invalid(call) == call = "invalid"

\* Fault: the run goes on after a failed question.
GoesOn(status) == FALSE

\* The first failed question ends the loop.
FailsFast(status) == status = "failed"

Observed(call, q) ==
  IF config.observed /\ call # "embedding_error" THEN Append(pending, Text[q]) ELSE pending

\* take: the oldest observation must be of this query's text.
Mismatch(buffer, q) == buffer # <<>> /\ Head(buffer) # Text[q]

\* Fault: the buffer is emptied before the retriever is called.
TakenBefore(buffer) == IF pending = <<>> THEN None ELSE Head(pending)

\* Fault: everything observed so far goes into the trace.
TakenAll(buffer) == buffer

Taken(buffer) == IF buffer = <<>> THEN None ELSE Head(buffer)

\* Fault: the observation is read and left in the buffer.
RestKept(buffer) == buffer

Rest(buffer) == IF buffer = <<>> THEN <<>> ELSE Tail(buffer)
-----------------------------------------------------------------------------
Init ==
  /\ config = None /\ pc = "idle"
  /\ dir = FALSE /\ log = <<>> /\ run_json = None /\ manifest = None
  /\ stored = <<>>
  /\ pending = <<>> /\ warmed = 0 /\ traces = <<>> /\ error = FALSE
  /\ out = None

\* Fault: mkdir with exist_ok.
FreeAlways == TRUE

\* mkdir succeeds: no process has used this run ID.
Free == ~dir

\* DiagnosticExportSink.__init__ reserves the run ID, and evaluate checks the
\* benchmark before it emits the start event.
Reserve ==
  /\ pc = "idle" /\ Free
  /\ dir' = TRUE
  /\ \E c \in Configs :
       /\ config' = c
       /\ IF c.labelled
          THEN pc' = "write" /\ out' = Start(c)
          ELSE pc' = "benchmark_error" /\ out' = None
  /\ UNCHANGED <<log, run_json, manifest, stored, memory>>

\* The run ID exists already: directories are never reused.
Refuse ==
  /\ pc = "idle" /\ dir
  /\ pc' = "refused"
  /\ UNCHANGED <<config, files, stored, memory, out>>

\* Fault: after a failed warmup all warmups are run again.
WarmAgain(call) ==
  /\ pc = "evaluate" /\ ~error /\ warmed < config.warmups
  /\ pending' = <<>>
  /\ warmed' = IF call = "valid" THEN warmed + 1 ELSE 0
  /\ UNCHANGED <<config, pc, files, stored, traces, error, out>>

\* One warmup question; any failure ends the warmups and the run.
Warm(call) ==
  /\ pc = "evaluate" /\ ~error /\ warmed < config.warmups
  /\ LET q == config.plan[warmed + 1]
         buffer == Observed(call, q)
     IN IF Raises(call) \/ Mismatch(buffer, q)
        THEN pending' = buffer /\ error' = TRUE /\ UNCHANGED warmed
        ELSE /\ pending' = Rest(buffer)
             /\ error' = Invalid(call)
             /\ warmed' = IF call = "valid" THEN warmed + 1 ELSE warmed
  /\ UNCHANGED <<config, pc, files, stored, traces, out>>

\* One measured question.  The buffer is emptied outside the try of the call.
Ask(call) ==
  /\ pc = "evaluate" /\ ~error /\ warmed = config.warmups
  /\ Len(traces) < Len(config.plan)
  /\ LET q == config.plan[Len(traces) + 1]
         buffer == Observed(call, q)
     IN IF Mismatch(buffer, q)
        THEN /\ pc' = "buffer_error" /\ pending' = buffer
             /\ UNCHANGED <<traces, error, out>>
        ELSE \E score \in IF call = "valid" THEN Scores ELSE {0} :
               LET status == IF call = "valid" THEN "completed" ELSE "failed"
                   trace == Answered(q, status, score, Taken(buffer))
               IN /\ pending' = Rest(buffer)
                  /\ traces' = Append(traces, trace)
                  /\ error' = FailsFast(status)
                  /\ out' = trace
                  /\ pc' = "write"
  /\ UNCHANGED <<config, files, stored, warmed>>

\* The end of the loop: the buffer must be empty, then the finish event.
Summarize ==
  /\ pc = "evaluate"
  /\ error \/ (warmed = config.warmups /\ Len(traces) = Len(config.plan))
  /\ IF pending = <<>>
     THEN pc' = "write" /\ out' = Finish(Summary)
     ELSE pc' = "buffer_error" /\ UNCHANGED out
  /\ UNCHANGED <<config, files, stored, memory>>

\* Where the process goes on once the event has been emitted.
Emitted == IF out.kind = "FINISH" THEN "run.json" ELSE "evaluate"

\* emit, first half: the line is written and flushed.
Write ==
  /\ pc = "write"
  /\ log' = Append(log, out)
  /\ pc' = IF config.downstream THEN "deliver" ELSE Emitted
  /\ UNCHANGED <<config, dir, run_json, manifest, stored, memory, out>>

\* emit, second half: the downstream sink acknowledges the event.
Deliver ==
  /\ pc = "deliver"
  /\ stored' = Append(stored, out)
  /\ pc' = Emitted
  /\ UNCHANGED <<config, files, memory, out>>

\* Fault: delivery errors are swallowed.
DeliverySwallowed ==
  /\ pc = "deliver"
  /\ stored' \in {stored, Append(stored, out)}
  /\ pc' = Emitted
  /\ UNCHANGED <<config, files, memory, out>>

\* The downstream sink raises; the event may have been stored all the same.
DeliveryFails ==
  /\ pc = "deliver"
  /\ stored' \in {stored, Append(stored, out)}
  /\ pc' = "sink_error"
  /\ UNCHANGED <<config, files, memory, out>>

\* finalize writes run.json, then manifest.json with the digests of both files.
WriteRun ==
  /\ pc = "run.json"
  /\ run_json' = out.body
  /\ pc' = "manifest.json"
  /\ UNCHANGED <<config, dir, log, manifest, stored, memory, out>>

WriteManifest ==
  /\ pc = "manifest.json"
  /\ manifest' = [events |-> log, run |-> run_json]
  /\ pc' = "load"
  /\ UNCHANGED <<config, dir, log, run_json, stored, memory, out>>

\* What an interrupted file operation leaves behind.
Interrupted ==
  \/ UNCHANGED files
  \/ pc = "write" /\ log' \in {Append(log, Torn), Append(log, out)}
       /\ UNCHANGED <<dir, run_json, manifest>>
  \/ pc = "run.json" /\ run_json' \in {Torn, out.body} /\ UNCHANGED <<dir, log, manifest>>
  \/ pc = "manifest.json" /\ manifest' \in {Torn, [events |-> log, run |-> run_json]}
       /\ UNCHANGED <<dir, log, run_json>>

\* A write raises (disk full), and the exception ends the run.
WriteFails ==
  /\ pc \in {"write", "run.json", "manifest.json"}
  /\ Interrupted
  /\ pc' = "sink_error"
  /\ UNCHANGED <<config, stored, memory, out>>

\* The lines of the export that hold a question, and the place of one among them.
Recorded == {i \in DOMAIN log : log[i] # Torn /\ log[i].kind = "QUESTION"}
Nth(i) == Cardinality({j \in Recorded : j <= i})
Finished == \E i \in DOMAIN log : log[i] # Torn /\ log[i].kind = "FINISH"

\* The checks of load_export.
Loadable ==
  /\ manifest \notin {None, Torn}
  /\ manifest.events = log /\ manifest.run = run_json
  /\ run_json \notin {None, Torn}
  /\ log # <<>> /\ \A i \in DOMAIN log : log[i] # Torn
  /\ Head(log) = Start(run_json.meta)
  /\ Last(log) = Finish(run_json)
  /\ Cardinality(Recorded) = run_json.completed + run_json.failed
  /\ \A i \in Recorded : log[i].qid = run_json.meta.plan[Nth(i)]

\* run_benchmark proves that the export can be read back.
Load ==
  /\ pc = "load"
  /\ pc' = IF Loadable THEN "done" ELSE "load_error"
  /\ UNCHANGED <<config, files, stored, memory, out>>

\* The process dies; a delivery on its way may still be committed.
Crash ==
  /\ pc \in Running
  /\ pc' = "crashed"
  /\ Interrupted
  /\ stored' \in {stored} \cup (IF pc = "deliver" THEN {Append(stored, out)} ELSE {})
  /\ UNCHANGED <<config, memory, out>>

\* A new process tries the run ID again.
Retry ==
  /\ pc \in Ended
  /\ pc' = "idle"
  /\ config' = None /\ out' = None
  /\ pending' = <<>> /\ warmed' = 0 /\ traces' = <<>> /\ error' = FALSE
  /\ UNCHANGED <<files, stored>>

\* import_export reads a finalized export and stores what is missing of it.
Import ==
  /\ Loadable /\ IsPrefix(stored, log)
  /\ stored' = log
  /\ UNCHANGED <<config, pc, files, memory, out>>

Proceed ==
  \/ \E call \in Calls : Warm(call) \/ Ask(call)
  \/ Summarize
  \/ Write \/ Deliver \/ DeliveryFails
  \/ WriteRun \/ WriteManifest \/ WriteFails
  \/ Load

Next == Reserve \/ Refuse \/ Proceed \/ Crash \/ Retry \/ Import

Spec == Init /\ [][Next]_vars
FairSpec == Spec /\ WF_vars(Proceed)
-----------------------------------------------------------------------------
(* Properties *)

Summaries ==
  [meta : Configs, status : {"completed", "failed"}, completed : Nat, failed : Nat,
   unattempted : Nat, warm : Nat, full : BOOLEAN, total : Nat]

Bodies == Configs \cup [status : {"completed", "failed"}, score : Nat] \cup Summaries

EventRecords ==
  [kind : {"START", "QUESTION", "FINISH"}, qid : Questions \cup {None}, body : Bodies,
   seen : {Text[q] : q \in Questions} \cup {None}]

Manifests == [events : Seq(EventRecords), run : Summaries]

\* A file that is absent or torn is told from one that was written, and so is a
\* missing value from a text.
ASSUME NoneAssumption ==
  /\ None # Torn /\ Torn \notin EventRecords /\ None \notin {Text[q] : q \in Questions}
  /\ None \notin Summaries \cup Manifests /\ Torn \notin Summaries \cup Manifests

\* Every variable holds values of its Python or file type.
TypeOK ==
  /\ config \in Configs \cup {None}
  /\ pc \in {"idle"} \cup Running \cup Ended
  /\ dir \in BOOLEAN
  /\ log \in Seq(EventRecords \cup {Torn})
  /\ run_json \in Summaries \cup {None, Torn}
  /\ manifest \in Manifests \cup {None, Torn}
  /\ stored \in Seq(EventRecords)
  /\ pending \in Seq({Text[q] : q \in Questions})
  /\ warmed \in Nat
  /\ traces \in Seq(EventRecords)
  /\ error \in BOOLEAN
  /\ out \in EventRecords \cup {None}

\* The configuration under which the run ID was first used.
Used == Head(log).body

\* The store never has an event the export lacks, and with a downstream sink
\* attached it is at most the one event in delivery behind, whatever failed.
StoreFollowsExport ==
  /\ IsPrefix(stored, log)
  /\ log # <<>> /\ Head(log) # Torn /\ Used.downstream =>
       \A i \in DOMAIN log : log[i] = Torn \/ i <= Len(stored) + 1

\* A manifest on disk means an export that load_export accepts and, if events
\* were delivered as well, a store that has every one of them: no failed or
\* interrupted run is ever finalized.
ManifestMeansComplete ==
  manifest \notin {None, Torn} =>
    Loadable /\ (Used.downstream => stored = log)

\* An observation in a trace is one of its own question, a completed question
\* of an observed run has one, and an unobserved run has none.
ObservationsBelong ==
  \A i \in Recorded :
    LET t == log[i] IN
      /\ t.seen \in {None, Text[t.qid]}
      /\ t.seen # None => Used.observed
      /\ t.body.status = "completed" /\ Used.observed => t.seen # None

\* Once a question has been measured, the run cannot lose its finish event to
\* the observation buffer; only a failed warmup can.
MeasuredRunReports == pc = "buffer_error" => Recorded = {} /\ error

\* evaluate "fails fast with a structured failed run": a run that ends neither
\* by a crash nor by a failing sink has a finish event.
FailuresAreStructured == pc \in {"done", "buffer_error"} => Finished

\* The files of a run ID only grow: events are appended, run.json and
\* manifest.json are written once, and nothing is appended after them.
ExportWrittenOnce ==
  [][/\ IsPrefix(log, log')
     /\ run_json # None => run_json' = run_json /\ log' = log
     /\ manifest # None => manifest' = manifest /\ run_json' = run_json]_vars

\* Every call of the run returns or raises.
RunEnds == pc \in Running ~> pc \in Ended
=============================================================================
