# A verification development for epsa-rag-platform

This directory holds TLA+ modules that model the parts of epsa-rag-platform
whose correctness depends on order, concurrency, failure or long sequences of
calls, the TLC configurations that check them, and TLAPS proofs about them.
`PROJECT.json` is the machine-readable index: components, runs, properties,
the source lines behind every definition, hazards and theorems.

Paths below are relative to the repository root. `epsa_rag/` stands for
`src/epsa_rag/`, `epsa_observability/` for
`observability/database/src/epsa_observability/` and `api/` for
`observability/api/src/epsa_observability_api/`.

## 1. Inventory

The platform prepares a frozen question set and corpus, builds frozen indexes
over it, answers questions with one of three pipelines, evaluates retrieval and
whole systems, and records runs in PostgreSQL, which a read-only API serves.

| Component | State it keeps | Operations | What is hard |
|---|---|---|---|
| Data preparation `epsa_rag/data` | version directories of dataset and corpus | `prepare`: stage, validate, publish both | two publications, crash in between, two processes |
| Index publication `epsa_rag/retrieval/persistence.py`, `pipeline.py` | version directories of the indexes | `build_bm25_index`, `build_dense_index`, `load_*` | check-then-publish, staging left behind, partial `all` |
| Query embedding cache `retrieval/dense/query_cache.py` | immutable entries, frozen collections, observation buffer | `load`, `store`, `build_collection`, `load_collection`, `embed_query`, `record`, `take`, `require_empty` | concurrent publication, crash while freezing, buffer order after a failure |
| Retrieval backends and fusion `retrieval/hybrid_retriever.py`, `fusion/rrf.py` | none | `retrieve`, `reciprocal_rank_fusion` | ties, duplicates, branch order |
| Retrieval evaluation `evaluation/retrieval` | the event export, run.json, manifest.json, the observation buffer | `evaluate`, `emit`, `finalize`, `load_export` | failure in warmup or in the sink, crash while finalizing |
| Experiment store `epsa_observability` | tables `runs`, `run_questions`, `trace_events` | `register_run`, `ingest_event`, `import_export`, reads | concurrent transactions, replays, lost acknowledgements, partial imports, deadlock |
| Observability API `api/` | none (reads the store) | list, get, questions, trace, compare | pages and comparisons read while writers commit |
| System evaluation `evaluation/system` | one directory per run: metadata, traces, summary, manifest | `evaluate_systems`, `write_trace`, `finalize` | crash and resume, stored failures, late validation |
| Pipelines `epsa_rag/pipeline` | none across questions | `run` of the fixed, adaptive and EPSA pipelines, `merge_retrieval_hops` | second-hop decision, merge and terminal state must agree |
| EPSA components 01-09 `epsa_rag/epsa` | none | one pure function each | tie-breaks, limits, order of the guards |
| Component evaluators `evaluation/components` | report files | one comparison per component | none beyond file output |
| Core contracts, instrumentation `epsa_rag/core`, `epsa_rag/instrumentation` | none | record types, digests, events, sinks | none |

How they interact. `evaluate` drives a retriever and emits events to
`DiagnosticExportSink`, which appends them to `events.jsonl` and then hands each
one to an optional downstream sink, the `PostgresInstrumentationSink` of the
store. A finalized export can later be imported into the store by
`import_export`, over the rows the live sink may already have written. The
embedding provider reports each query embedding through a callback into the
observation buffer, which `evaluate` and the system runner empty. The EPSA
pipeline calls the retriever once or twice, the controller once or twice (each
pass runs components 01-09 in order) and the answer generator once. The API only
reads tables.

What makes each part correct:

- *Experiment store.* An event ID names one event; the log of a run is numbered
  without gaps and follows START, QUESTION..., FINISH; projections agree with the
  log; results follow the plan; the final summary counts what is stored; an
  import is all or nothing; what was acknowledged is stored; a final run never
  changes; a waiting transaction ends.
- *Retrieval evaluation.* A run that ends without a crash ends in a finish event
  that says what happened; the export and the store never disagree by more than
  the event in flight; manifest.json implies a complete export.
- *System evaluation.* A trace is evaluated and stored once; a restart resumes
  after the last stored trace; a manifest covers exactly the planned traces.
- *Cache, indexes, data.* A published directory is complete, valid and never
  replaced; two publishers agree on the winner.
- *Pipelines.* The second hop, the pass behind the answer, the merged ranking and
  the terminal state agree.
- *Algorithms.* The result equals its declarative definition and respects its
  limits.

`PROJECT.json` lists 25 components with their sources and every hazard at its
line.

## 2. Plan

The order is by what can go wrong most and is tested least.

| Step | Modules | State |
|---|---|---|
| 1 | `ExperimentLedger` (abstract), `ExperimentStore`, `ExperimentStoreLedger` (refinement), `ExperimentStoreProofs` | modelled, checked, proved |
| 2 | `RetrievalRun`; `RetrievalStorage` (composition with the ledger); `RetrievalRunProofs` | modelled, checked, proved |
| 3 | `SystemRun`; `SystemRunProofs` | modelled, checked, proved |
| 4 | `CacheMap` (abstract), `QueryCache` (with the refinement), `QueryCacheProofs` | modelled, checked, proved |
| 5 | `BenchmarkSelection` (functions), `ArtifactPublication`, `ArtifactPublicationProofs` | modelled, checked, proved |
| 6 | `RagSystems` over `HybridRanking`: the three pipelines, both hops, the merge, the terminal states; `RagSystemsProofs` | modelled, checked, proved |
| 7 | `EvidenceUnits`, `EvidenceGraph`, `PathSearch`, `Sufficiency`, `ContextPruning`, `NextHopQuery` over `Ordering`: EPSA components 01 and 03 to 09 as functions, called by `RagSystems`; `EvidenceSearchProofs`, `EvidenceProofs` | modelled, checked, proved |

The safety and action properties of all steps are proved (a subsection *Proofs* in each
section). Of the query of component 09 the proofs use only that its input is accepted, not what it names.
No module that is proved about uses a RECURSIVE operator.

Bounds: two actors wherever two suffice for a race (every rule of the code is
about a pair: a holder and a waiter, a winner and a loser, the first and the
second publication), two or three questions, and one failing call per run. The
section of each module names its own.

How the modules use each other:

```
ExperimentLedger <= ExperimentStoreLedger = ExperimentStore    CacheMap <= QueryCache
       ^                                                       BenchmarkSelection <- ArtifactPublication
       +-- RetrievalStorage = RetrievalRun                     SystemRun

Ordering <- HybridRanking <----------------------------------- RagSystems
         <- EvidenceUnits <- EvidenceGraph <- PathSearch <- Sufficiency
              <- ContextPruning <- NextHopQuery <---------------- RagSystems
```

(`<=` is implemented by, `<-` is used by, `=` extends.)

## 3. The experiment store

### State

`ExperimentStore` models `repository.py`, `validation.py`, `sink.py`,
`importer.py` and `connection.py` over the tables of migration `0001`.

| Variable | Code |
|---|---|
| `runs`, `results`, `trace_events` | the committed rows of `runs`, `run_questions`, `trace_events` |
| `owner` | who holds the row lock of a run (`SELECT ... FOR UPDATE`) or has an uncommitted insertion of it |
| `pc` | where a client's transaction is: `acquire` the run row, `check` an event, `claim` its ID, `commit`, then `ok` with an acknowledgement |
| `job`, `next` | what the caller asked for (one event, a registration, the events of an export) and the position in it |
| `row`, `answers`, `fresh` | the transaction's own view: the run row, the question rows and its uncommitted events |

An event is a record with an ID, a run, a kind, a question and the part of the
payload the store tells apart. Two events with one content hash are one record;
payload validation against pydantic models is the set `Conforms[m]`, and
`validate_metadata`'s role rules are `Admits[m]`.

### Actions

`Begin` opens a transaction for any job. `Create` is the winning
`INSERT ... ON CONFLICT DO NOTHING` of `_register`, with its pending question
rows. `Lock` is `_locked_run`; `Refuse` an unknown run, another registration
context, or a request refused before anything is read. `Replay`, `Accept`
and `Reject` are the branches of `_ingest` after it looked the event ID up;
`Insert` writes the projection, the event and the counters; `LoseClaim` is the
branch for an ID that another run committed meanwhile. `Commit` is the COMMIT,
acknowledged or not; `Incomplete` the checks `_import` makes after its last
line; `Timeout` a statement timeout or the server's choice of a deadlock victim;
`Abort` the loss of the client or the connection at any point.

Statements are the unit of interleaving, because READ COMMITTED takes a new
snapshot for each. A transaction waits (`WaitsFor`) for the owner of its run's
row and, when it inserts an event, for another transaction with an uncommitted
row under the same ID.

### The abstract ledger

`ExperimentLedger` is what a user of the store relies on: for each registered run a book
with its metadata, its role and the log of its events; one step registers a run or appends
events to one book at once, and nothing else ever changes. It has no counters, question
rows or sequence numbers: what may follow a log is said of the log alone (`MayFollow`), by
the sets of questions it has asked, answered and failed.
`ExperimentStoreLedger` gives the refinement mapping (the committed rows in
sequence order); the run `store_safety` checks `LedgerSpec == Ledger!Spec`, and
`ImplementsLedger` proves it.

### Runs

`store_safety` (278,567 distinct states): two clients, two runs, rival metadata for one run,
an event ID used by both runs, a question result with two outcomes, good and
damaged exports. It checks the type invariant, eight safety properties and
the refinement. Two clients suffice for every race of the code, since each rule is
about a transaction and the one it waits for or lost to; the job a client
takes is chosen anew for each transaction, so retries and replays by either are included.
Each log holds at most the events of the model, so nothing is cut by a
constraint.

`store_waits` (141 thousand states): two exports that claim the same two event IDs in
opposite order. It shows that only two imports can wait for each other
(`DeadlockNeedsTwoImports`) and that every transaction ends
(`EveryTransactionEnds`).

Deadlock checking is on in both: a client can always begin another transaction.

### Fairness

`FairSpec` adds weak fairness of `Proceed(c)` for each client: an open
transaction goes on, because the client is a synchronous call and the server
answers each statement; a statement that waits ends at `statement_timeout`
(60,000 ms, `connection.py:28`), which is `Timeout`. Fairness is not assumed of `Begin` or `Abort`. The
mutant that bounds only row waits breaks the liveness property, so it is
the timeout of every statement that carries it.

### Proofs

`ExperimentStoreProofs` proves, for any number of clients, runs, events and
exports and for every value of the other constants allowed by the assumptions:

| Theorem | Statement |
|---|---|
| `TypeCorrect` | `Spec => []TypeOK` |
| `Invariance` | `Spec => []Inv` |
| `KeysAreUnique` | `Spec => []EventKeysUnique` |
| `LogsAreWellFormed` | `Spec => []LogWellFormed` |
| `ProjectionsAgree` | `Spec => []ProjectionsMatchLog` |
| `PlanIsFollowed` | `Spec => []ResultsInPlanOrder` |
| `SummariesAreHonest` | `Spec => []FinalSummaryHonest` |
| `ImportsAtomic` | `Spec => []ImportsAreWhole` |
| `AcknowledgedKept` | `Spec => []AcknowledgedIsStored` |
| `FinalizedStaysFrozen` | `Spec => FinalizedFrozen` |
| `DeadlocksAreImports` | `Spec => []DeadlockNeedsTwoImports` |
| `HistoryInvariant` | `Spec => []History` |
| `ImplementsLedger` | `Spec => LedgerSpec` |

The last two make up the second half of `ExperimentStoreProofs`.

The safety properties speak of committed tables, and none is inductive: what
`Commit` writes is the transaction's own view, so the invariant must say that
the view of every open transaction is already consistent (`ViewOK`), that it is
what the committed run looked like when its row was locked and that nobody else
can have changed it since (`LockOK`, `ContextOK`, `FrozenOK`), that its uncommitted keys
clash with none (`KeyOK`), that a claimed event was acceptable for that view,
that the part of the job before `next` is stored or pending (`DoneOK`), and that
an import's job went in export order (`ImportOK`). The tables and
the views share one predicate `Consistent(row, answers, rows)`; the central
lemma shows that one accepted event takes a consistent triple to a consistent
triple, and the theorem about `Next` has one step for each action.

The refinement needs more: the ledger takes all events of a commit in one step and judges
each against the log before it, while the store judged them one at a time, in its
projections and before the commit. `History` adds what connects the two. Every log is
`Lawful`: each of its events may follow those before it, by the ledger's rules. The rows of
an open transaction are those for the events of its job that the committed log lacks,
numbered on from it (`ListOK`), so that a replay inside an import leaves no gap. The
registration in its view is that of the run and of its job (`RegistrationOK`). The lemma
`ColumnsOfLog` says that counters and question rows are what the ledger reads off the log,
`AcceptableFollows` that an accepted event may follow, and `ViewContinues` that the log
after a commit is the log before it with the added events at its end. A commit is then
a step `Register` (nothing new, as in a replay), `Deliver` or `Import` of the ledger, and
every other action leaves the books alone.

The assumptions are the named ASSUMEs of `ExperimentStore` and `ExperimentStoreLedger`: the
question IDs of a plan are distinct, events and exports have the types of the
pydantic models, and `None` is not a value. TLC evaluates them in both runs.

Only model-checked: `EveryTransactionEnds` (liveness).

### Abstractions of the store

Timestamps, hashes and JSON envelopes are left out (content equality stands for
hash equality); latencies and metric values are one integer `score` whose sum stands for
the aggregates `validate_summary` recomputes. The reads `get_run`, `list_runs`
and `get_question_trace` change nothing and are left out (see *Not modelled*).
Schema migration is not modelled.

## 4. The retrieval evaluation run

`RetrievalRun` models one run ID: `evaluate` (`evaluator.py`), its
`DiagnosticExportSink` and `load_export` (`exports.py`), the observation buffer
(`query_cache.py:123`) and an optional downstream sink.

| Variable | Code |
|---|---|
| `dir`, `log`, `run_json`, `manifest` | the run's directory, `events.jsonl`, `run.json`, `manifest.json`; `Torn` is a file or last line that was not written to its end |
| `stored` | the events the downstream store has committed for this run |
| `pending` | the observation buffer: texts observed and not yet taken |
| `warmed`, `traces`, `error` | `warmup_completed`, `traces`, `error_type is not None` in `evaluate` |
| `config`, `pc`, `out` | what the process was asked for, where it is, the event it is emitting |

`Reserve` and `Refuse` are the exclusive `mkdir` of the sink; `Warm` and `Ask`
one retriever call each, with the four outcomes that the code tells apart
(`Calls`) and `take` after it, which is inside the `try` for a warmup and outside
for a measured question; `Summarize` is the code after the loop (`require_empty`,
summary, finish event); `Write` and `Deliver` the two halves of `emit`;
`WriteRun`, `WriteManifest` and `Load` finalization and the read-back;
`WriteFails` and `DeliveryFails` the exceptions, `Crash` and `Retry` the death of
the process and another use of the run ID; `Import` is `import_export` of the
store. `RetrievalStorage` sees the deliveries as writes to `ExperimentLedger`:
`NeverRefused` says that each of them obeys the ledger's rules, so the
assumption the store makes of its writer is met by the writer.

`retrieval_run` (2,286 distinct states): four configurations of the run ID (with
and without embeddings, warmups, a downstream sink and labels; a selection
smaller than the benchmark; two questions with the same text), every call
failing or not. Three questions suffice for a first, a failed and a skipped one;
nothing cuts the state space, since a run ID is used once.

`retrieval_warmup_failure` finds the one way a run without a crash ends without
a finish event: a warmup whose search fails after its embedding was observed
leaves the observation in the buffer, and `require_empty` raises where the failed run
should be reported.

Fairness: `WF(Proceed)`, since `evaluate` is one synchronous call that goes on
until it returns or raises; nothing is assumed of `Reserve`, `Retry`, `Import`
or `Crash`. The mutant that runs the warmups again
after a failed one breaks `RunEnds`.

Abstractions: latencies, ranked lists and metrics are one score; a trace carries
the text it observed; the API's tries within one embedding call are one
outcome. The branch in which `Load` finds a bad export is in the model, and
`TypeOK` has no state for it: it is never taken. The lines of a log that hold
questions are the set `Recorded` of their places, `Nth` counts a question's place
among them, and a sum of scores is the size of a set of points (`Total`): sets,
so that the theorems below can reason about them.

### Proofs

`RetrievalRunProofs` proves, for all configurations (plans of any length, any number
of warmups), texts and scores that the assumptions of `RetrievalRun` allow:

| Theorem | Statement |
|---|---|
| `Invariance` | `Spec => []Inv` |
| `TypeCorrect` | `Spec => []TypeOK` |
| `StoreFollows` | `Spec => []StoreFollowsExport` |
| `ManifestCommits` | `Spec => []ManifestMeansComplete` |
| `ObservationsStay` | `Spec => []ObservationsBelong` |
| `OnlyWarmupsAreLost` | `Spec => []MeasuredRunReports` |
| `FilesGrow` | `Spec => ExportWrittenOnce` |

The properties speak of files that outlive the process, so none of them says how a file
came about. `Inv` does: `Book(c, t)` says that the directory and the store hold the
events `t` of one configuration `c` in order (`EventsOf`: the start event, questions of
the plan with observations of their own, then perhaps a finish event whose counts fit),
whole but for a torn last line, and that each file was begun only when the one before it
was complete. A book never needs the process that wrote it (`BookFit`), which is what a
crash leaves and an import reads. For a running process `ProcessFit` adds how far it
is, and that its traces in memory are the questions of the log; `MemoryFit` that the
buffer is empty except after a failed warmup, without which an observation could reach
the next question. `BookLoads` then shows that a book with a whole manifest passes
every check of `load_export`, and `WritesOnce` that a step which writes finds the later
files missing. Of `NoneAssumption` the proofs use that a file which is absent or torn
is told from one that was written, and a missing observation from a text.

The second half of `RetrievalRunProofs` proves the composition with the ledger:

| Theorem | Statement |
|---|---|
| `LawAbiding` | `Spec => []Lawful` |
| `NothingRefused` | `Spec => NeverRefused` |

`Lawful` adds to `Inv` that every whole line of the export may follow the lines before it
by the ledger's own rule (`LinesObey`), and what makes the next line such a one
(`RunObeys`): no more warmups than asked for, no failure before the last trace, and an
event about to be written that may follow the log. `QuestionFollows` and `FinishFollows`
take the two sides together: the questions asked are a prefix of the plan, and the
summary's counts and points, which `evaluate` takes from its traces in memory, are those
the ledger counts in the log. `StoreCatchesUp` then shows that the only thing the store
ever becomes is the log, or what a step just wrote to it, so that what a delivery or an
import adds are lines of the export. Of `StorageAssumption` the proofs use that no question
and no book is taken for a missing one (`None`).

Only `RunEnds` (liveness) stays with TLC.

## 5. The system evaluation run

`SystemRun` models one directory of `ResumableSystemRunStore` and the workers
(processes) that run `evaluate_systems` on it.

| Variable | Code |
|---|---|
| `dir`, `metadata`, `summary`, `manifest` | the directory and its three JSON files |
| `traces` | the trace files, by question, system and top_k |
| `pc`, `meta`, `mem`, `held` | where a worker is, the metadata it was started with, `traces` of the loop, the trace in `write_trace` |
| `calls`, `crashes` | history: the number of evaluations paid for, crashes so far (bounded by `MaxCrashes`) |

`Open` is `__init__` (`Opening` lists its branches) up to `mkdir`, and
`WriteMetadata` the write after it; `Resume` and `Miss` are the two results of
`load_trace`; `Ask` is `_evaluate_one`, in which every exception becomes a failed
trace; `Stage` and `Replace` are the two halves of `write_trace`, and `Compare` is what the first half
does with a trace that another worker stored meanwhile, which takes two workers; `Validate` is
`_validate_paired_hop1`; `WriteSummary` and `WriteManifest` are `finalize`; `Load`
is `load_system_export`. `Crash` ends a worker between any two of these and may
leave a file that is not written by a replace torn; `Restart` lets a worker that
returned or raised be started again, with the same or other metadata.

`system_run` (17,855 distinct states): one worker, two rival plans for the run
ID (two questions under two systems; one question under two systems and two
top_ks), two values of the Hop-1 results, two crashes. Two crashes are
enough for one in the campaign and one while finalizing; a plan of four pairs has a
first, a middle and a last one. `OneCallLostPerCrash` and `StoredIsPrefix` relate
what is on disk to what was paid for across restarts; `ManifestCovers` says that a
manifest always means the whole campaign.

`system_run_finalize_crash` shows that a crash while finalizing leaves a run that
is refused as completed and has no manifest. `system_run_shared` shows what
happens when two processes resume one run: nothing reserves the run for one
of them, and a trace is replaced after it was listed in the manifest. The passing
run therefore has one worker, and the theorems the hypothesis `LoneWorker`: the
properties hold for one process at a time.

Fairness: `WF(Proceed(w))`, since the runner is a serial loop of calls that
return or raise (the API client has a timeout and a limit on retries,
`system/pipeline.py:168`). Nothing is assumed of `Open`, `Restart` or `Crash`.

Abstractions: a trace keeps its status, its Hop-1 results if it completed, and what tells it from
another trace of its pair (its author for a completed one, as it carries latencies that no other
has; the error for a failed one, which holds nothing else); the summary keeps
its counts; temporary files, whose suffix no reader matches, are left out; a write that
raises leaves the same files as a crash at that point and is modelled as one.

### Proofs

`SystemRunProofs` proves, for all plans (any numbers of questions, systems and
top_ks), all outcomes and any bound on the crashes:

| Theorem | Statement |
|---|---|
| `Invariance` | `LoneWorker` gives `Spec => []Inv` |
| `TypeCorrect` | `LoneWorker` gives `Spec => []TypeOK` |
| `PrefixStored` | `LoneWorker` gives `Spec => []StoredIsPrefix` |
| `CallsAreKept` | `LoneWorker` gives `Spec => []OneCallLostPerCrash` |
| `SummaryIsPaired` | `LoneWorker` gives `Spec => []PairedHop1` |
| `ManifestMeansWhole` | `LoneWorker` gives `Spec => []ManifestCovers` |
| `TracesStay` | `LoneWorker` gives `Spec => TracesAreFinal` |

`LoneWorker == \A u, w \in Workers : u = w` is how the program is meant to be used (one
command at a time resumes a run); `system_run_shared` shows that the properties
fail without it. `Inv` says what makes a restart safe: the stored traces are the first
`n` of the campaign of the metadata on disk, for some `n` (`Campaign`), and the
process remembers an initial part of them exactly as they are on disk. So the pair that
is due next is either stored (and resumed) or the first one missing, and the process
that asks for it knows that it is missing (`WorkerOK`). From the first byte of a summary on, the prefix is
the whole campaign and paired (`Sealed`). The order of the campaign, questions times
systems times top_ks, is taken apart by division with remainder (`PairPlace`, `PairIsKey`,
`DivMod`). `NoneAssumption` tells an absent or torn file from one that was written.
`RunEnds` stays with TLC (liveness); so do the two violated properties, which are about
crashes while finalizing and about two workers.

## 6. The query embedding cache

`QueryCache` models `retrieval/dense/query_cache.py`: processes that embed
queries in one of the three cache modes, build a frozen collection for a dataset,
or load one, over one directory.

| Variable | Code |
|---|---|
| `entries` | the entry directory of each text; a directory is there whole or not at all, because it is staged and renamed |
| `collections` | the manifest of each collection version; `Torn` is one that was not written to its end, since it is opened under its final name |
| `pc`, `job` | where a process is, and the call it is in |
| `todo`, `read` | the misses of the call with their vectors, and the vectors read back for the references |
| `out` | the vector that an embedding call returns |
| `crashes` | history, bounded by `MaxCrashes` |

`Begin` takes a call; `Lookup` is `load`; `Live` and `ProviderFails` are the two
ends of an API call, and a vector is chosen anew for each, since the API does not promise
the same one twice; `Store`, `Publish` and `Lost` are `store`: the look for a winner, the
rename, and what the loser of the rename does. `Check`, `Scan`, `Batch`,
`Reference`, `Open` and `Write` are `build_collection` in its order, `Validate` is
`load_collection`, `Return` hands the result to the caller and `Crash` ends a process
between any two steps. The buffer of observations belongs to `RetrievalRun`.

`CacheMap` is what a caller relies on: a map from texts to vectors in which a text is
bound once, and collections that are frozen once over bound texts. The refinement
mapping of `Map` reads the entries, and takes a torn manifest for no collection.

`query_cache` (382,064 distinct states): two processes, three questions of which two have
the same text, two datasets that claim one version (one of which repeats a text),
two possible vectors, one crash. It checks that a returned vector is
the stored one (`ReturnedIsStored`), the refinement (`ImplementsMap`) and that
every call ends (`CallsEnd`). Two processes give every race, which is always between
the winner and a loser of one rename or one exclusive open; two texts give a
hit next to a miss.

Fairness: `WF(Proceed(p))`, since each call is synchronous and the provider's calls
have a timeout and a bounded number of tries. Nothing is assumed of `Begin`,
`Return` or `Crash`.

### Proofs

`QueryCacheProofs` proves, for any number of processes, questions, texts, datasets,
vectors and crashes:

| Theorem | Statement |
|---|---|
| `Invariance` | `Spec => []Inv` |
| `ReturnedAreStored` | `Spec => []ReturnedIsStored` |
| `ProcessesImplementMap` | `Spec => ImplementsMap` |

What a process returns it has read some steps earlier, and others may have acted since. The invariant
therefore says of each process what of its locals is still true of the disk: the vectors it has read
back are those of the entries (`ReadOK`), its misses carry a vector once the
provider has answered (`MissesOK`), and the manifest it is writing is torn and belongs to
no other process (`WriterOK`), for otherwise two builds could complete one version with two
contents. That entries and whole manifests are never written again keeps all of this true
(`OthersKeep`). The refinement is proved step by step: `Publish` binds an unbound text,
`Write` freezes a collection over bound texts, and every other step, `Crash` and the opening
of a torn manifest included, is a stutter of `CacheMap`. The assumptions are that a dataset
has questions (`DatasetAssumption`) and that a missing or torn file is none of the values
written (`NoneAssumption`). `CallsEnd` (liveness) stays with TLC.

## 7. Publication of data and indexes

`BenchmarkSelection` holds the pure part of `data/`: which records are valid, which
examples a configuration selects and in which order, and the corpus of their
paragraphs. `ArtifactPublication` models the calls of
`data/pipeline.py` and `retrieval/persistence.py`, `retrieval/pipeline.py` over the
file system.

| Variable | Code |
|---|---|
| `disk` | each version directory: absent, `Empty` (a directory without files), `Torn` or its content |
| `pc`, `job` | where a process is, and whether it prepares, builds or evaluates |
| `staged` | the prepared artifacts, or the corpus an index is built from |
| `relied` | history: what a successful call published or loaded |
| `orphans`, `crashes` | history: datasets whose publisher died before its corpus was there; crashes, bounded |

`Fetch` is the source and its reuse; `Target` the refusal of an existing
target; `Select` the selection with its validation; `PublishDataset` and
`PublishCorpus` the two renames and `Clear` and `Rmdir` what is done about
the dataset when the second fails; `Open` and `New` load the benchmark and look at the target of an
index, `Build` and `PublishIndex` make it, `Read` loads it again; `Return`, `Crash`.

`artifact_publication` (875,849 distinct states): two processes, three configurations that
are rivals for a dataset version or a corpus version, two sources with an invalid record, two
difficulties, a repeated paragraph and equal ranks, both kinds of index, one crash.
`ReliedOnStays` says that what a successful call published or loaded is never changed
afterwards, `DatasetHasCorpus` that only a crash leaves a dataset without its
corpus, and `PublishedIsSound` that whatever is published is what its own
manifest says of it, selection and corpus included. There is no
fairness: the three are safety properties, and the code does not retry.

`Eligible` is a set of records, and the selection takes the record at each place of the
order by rank, where the place of a record is the number of records before it (`Place`): the same
list as the `sorted` of the code, since the order is total on records with different IDs, and
a definition by counting that can be reasoned about for every source.

An observation, not a finding, as no document promises anything about it: `_publish` takes
only `FileExistsError` for a lost race, while a rename onto a directory with
files raises `ENOTEMPTY` on Linux, so the loser reports another error than the intended one;
the outcome on disk is the same.

### Proofs

`ArtifactPublicationProofs` proves, for any number of processes, configurations, sources,
index versions and crashes:

| Theorem | Statement |
|---|---|
| `Invariance` | `Spec => []Inv` |
| `ReliedOnIsKept` | `Spec => []ReliedOnStays` |
| `DatasetsKeepCorpora` | `Spec => []DatasetHasCorpus` |
| `PublishedStaysSound` | `Spec => []PublishedIsSound` |

None of the three is inductive, because a dataset may be on disk before its corpus and may
be removed again: that a successful call's dataset stays depends on nobody being left who would
remove it. `Inv` follows the life of a version: a whole dataset is that of a validated preparation
(`DatasetsFit`); at most one preparation is between its two renames under one name
(`OneHolder`), since the rename of a dataset needs its name to be free, and it has its own
dataset there (`HeldFit`); and once a corpus is in place its dataset is too, and no such
preparation is left (`CorporaFit`), so that what was relied on (`ReliedFit`) is out of reach of `Clear`. A dataset without corpus has
its holder, or one that is removing the emptied directory, or was orphaned by a crash
(`Accompanied`). `PublishedIsSound` then needs the selection itself: the places of the
eligible records are 0 to n - 1, each taken once (`PlacesAreFilled`), so the selected records are
those of least rank (`SelectionIsLeast`). The assumptions are that the records of a source have numbers for IDs
and ranks (`SourceAssumption`), that configurations name sources and versions
(`ConfigAssumption`), what chunks are (`ChunkAssumption`), and that an absent, empty or torn
directory is told from one with content (`NoneAssumption`).

## 8. The pipelines and the components of EPSA

`RagSystems` answers one question with one of the three systems. The deterministic
components are functions in modules of their own, one for each component, and the
actions call them in the order of `EPSAController.run_pass`.

| Module | Code | What it holds |
|---|---|---|
| `Ordering` | (shared) | sorting by a strict order, lexicographic order, the first k |
| `HybridRanking` | `retrieval/hybrid_retriever.py`, `fusion/rrf.py`, the backends' search, `pipeline/merge.py` | hits of a branch, fused scores and ranking, the merge of two hops and its contract |
| `EvidenceUnits` | components 01, 03, 04 | the record of the analysis, the units of a paragraph, pronoun resolution, features and scores |
| `EvidenceGraph` | component 05 | nodes, typed edges with their evidence |
| `PathSearch` | component 06 | the four templates, scores, bonuses, order, limit |
| `Sufficiency` | component 07 | the guards of each question type in their order, the decision, what is missing |
| `ContextPruning` | component 08 | selection, expansion, strategy, order |
| `NextHopQuery` | component 09 | what the second query asks for |

| Variable of `RagSystems` | Code |
|---|---|
| `run`, `phase` | the system, the question and the order of path IDs; the next step |
| `hops` | the `RetrievalHop`s: query, ranks in each branch, results |
| `control` | the accepted `AdaptiveControlOutput` |
| `merged` | the merged ranking with its occurrences |
| `work`, `passes` | locals of the pass under way; the finished `EPSAPassResult`s |
| `context`, `terminal` | what the answer is generated from; the terminal state |
| `failure` | `none` or what raised |

`RetrieveHop` is one retrieval, of the question or of the query of the second hop;
`Control` the controller of the adaptive baseline with the validation of its output; `MergeHops`
the merge; `Analyze` (01, 03, 04), `SearchPaths` (05, 06), `DecidePass` (07) and
`FinishPass` (08, and 09 in the first pass) make up a pass; `Answer` renders the context
and asks for the answer; `Trace` builds and validates the trace. `ProviderFails` is an exception of the
embedding, the controller or the answer. Every contract that a record or a component checks of its
input is a condition of the step that builds it, and fails the run.

`rag_systems` (98,582 distinct states): five paragraphs over eight names, one of them
generic, two in no paragraph; twenty-four questions, one for each way in which the rules
for type, structure, seeds, hints and anchors differ, under two opposite orders of path
IDs; in each hop every pair of four lexical and four dense rankings, with ties and with
paragraphs that one branch does not find; `CandidateK` 4 and `TopK` 2 of 5 chunks; eight outputs
of the controlling model, of which five are unusable. `MaxPaths` is that of
the code (10); `MaxUnits` is 3 where the code has 6, so that paragraphs of two and three
sentences reach it. Both limits are reached, as are all terminal states and
all pruning strategies. The properties say that

- the fused ranking respects a chunk that is better in every branch
  (`FusionRespectsBranches`), and the merge keeps every hit of every hop at its
  place (`MergeKeepsEveryHit`);
- a path says what the retrieved sentences say (`PathsAreGrounded`), although the
  search sees only the graph, to which all sentences contributed;
- a decision "sufficient" is backed by the selected sentences, stated without the guards
  of component 07 (`SufficientMeansBacked`);
- the pruned context keeps the evidence, adds only neighbours, and only as the limit allows
  (`ContextKeepsEvidence`);
- the second hop, the pass used for the answer and the terminal state agree
  (`SecondHopAsNeeded`);
- no contract between the components ever fails, but in the one known case
  (`OnlyKnownFailures`).

`rag_lone_seed` shows that case: a yes/no question with fewer than two seeds is searched by
the factoid template, whose paths component 07 refuses with an exception.
`rag_query_words` shows that the relation of the second query is taken from the words
of a message of component 07 ("evidence is incomplete").

The runs say `CHECK_DEADLOCK FALSE` because a run ends. No fairness is
stated: the number of steps is bounded by the two hops, and what is checked is safety.

Observations made with the model that contradict no document: a question
without seeds is never sufficient; neither is a comparison; neither is a factoid without
relation hints whose expected answer type is generic.

Abstractions: what a text mentions, which tokens it has, and whether a name looks like a person or a
place are inputs (the lexical rules are regular expressions and word lists); scores are exact fractions
where the code has floats, with the same weights and clamping; the SHA-256 identifiers that break the
last ties are two opposite orders; edge weights, traces, confidence, token
estimates and the wording of prompts, contexts and queries are left out, as nothing acts on them.

### Proofs

`RagSystemsProofs` proves, for any number of chunks, all scores, weights, rank constants and
limits, all questions and all outputs of the controlling model:

| Theorem | Statement |
|---|---|
| `RunsFollowThePlan` | `Spec => []RunInv` |
| `FusionAlwaysRespectsBranches` | `Spec => []FusionRespectsBranches` |
| `MergeAlwaysKeepsEveryHit` | `Spec => []MergeKeepsEveryHit` |
| `MergeAlwaysFits` | `Spec => []MergeFits`: the contracts of the merge's records never fail |
| `SecondHopAlwaysAsNeeded` | `Spec => []SecondHopAsNeeded` |

`RunInv` says of each phase how many retrievals and passes there are, whether the second
retrieval was requested and whether the merge is made (`AtRetrieve` to `AtEnd`); that the
merge, once made, is that of the retrievals there are (`MergeMade`), for which it has to be known that
nobody retrieves after it; and that every retrieval is the fusion of ranks that its branches may
give (`HopFits`).

The rest is about the algorithms. The sort of `Ordering` places an element by the number of
those before it: for any strict total order that numbering is one to one, and the result has the order
(`Listed`). Ranks and scores are such an order (`FusionOrders`), and a chunk that is better in
every branch has at least the same part of the score from each, and the better best rank, which
decides between equal scores (`BetterComesFirst`).
The merge is a fold over the hits in turn; `Merges` is what holds after each of them, and
`MergeNew` and `MergeKnown` are its two steps. Sums and folds of the community modules
are recursive functions on the subsets of a set; induction over them is done by
least counterexample (`LeastNat`, `FoldExists`), as the theorems on induction that
take an operator cannot be used.

The assumptions are `RankingAssumption`, the limits that `config.py` validates, and
`SystemsAssumption`: there are three systems, and the scores of an index are numbers for all
chunks. As scores are only compared, naturals stand for them.

`EvidenceSearchProofs` and `EvidenceProofs` prove what components 03 to 09 do with the
retrieved paragraphs, for all paragraphs, questions, weights and limits:

| Theorem | Statement |
|---|---|
| `EvidenceIsOfTheRun` | `Spec => []EvidenceInv` |
| `OnlyKnownFailuresHappen` | `Spec => []OnlyKnownFailures` |
| `PathsAreAlwaysGrounded` | `Spec => []PathsAreGrounded` |
| `SufficientAlwaysBacked` | `Spec => []SufficientMeansBacked` |
| `ContextAlwaysKeepsEvidence` | `Spec => []ContextKeepsEvidence` |

None of the four is inductive: which contract a step may break depends on what earlier steps left in
`work`, and that on the chunks of the pass. `EvidenceInv` says, on top of `RunInv`, what each phase
of a pass has to work on (`UnitsKnown`, `PathsKnown`, `DecisionKnown`), that each finished pass
keeps its evidence (`PassesAreKept`) and belongs to its retrieval or to the merge
(`PassesOfHops`), that the answer was generated from the context of its system (`AnswerKnown`), and
that only known failures happened. Each step is one lemma (`AnalyzeEvidence` to `TraceEvidence`),
and each rests on a statement about a component, all of them for arbitrary input:

- 03 and 04: each sentence of the chunks is one unit and no other (`Extracts`, `UnitsNamed`), and
  its score is a natural number (`ScoreFits`). The list of units is a fold that concatenates;
  `Flattened` describes it one prefix at a time.
- 05: what the search looks up in the graph is what the units say (`Indexed`, `LookedUp`), although
  edges of all units are mixed, because an edge has the ID of its unit at one end; the graph breaks no
  contract (`GraphFits`).
- 06: a path is a bridge, a single sentence or a comparison of units (`PathsMade`), there are
  finitely many (`PathsFinite`), and its nodes name it (`NodesName`), so that the order by score, answer
  and ID is strict and total (`PathsOrdered`) and sorting loses nothing (`Searches`).
- 07: the decision is for one of the paths or says what is missing (`DecideGives`), breaks no contract
  (`DecisionFits`), and a path that passes the guards of its type backs the answer
  (`SufficientBacked`). The only input it refuses is that of the known failure (`InputsFit`).
- 08: the loop over the units is described by its longest good prefix (`VisitLoop`): what is near was taken,
  or there was no room. With the order of the units (`UnitsOrdered`), what is kept is exactly
  that (`Prunes`, `PrunedKeeps`).
- 09: the generator never refuses what the decision gives it (`QueryFits`).
- The traces of the three systems are never refused (`BaselineTraceFits`, `EPSATraceFits`).

The assumptions are those above and

- `ParagraphAssumption`, `EvidenceAssumption`: every chunk has a paragraph, and the lexical rules find
  what their types allow: finitely many names and tokens, and no seed twice (`extract_seed_entities`
  drops a name that it has seen). Names are positive naturals in alphabetical order.
- `SearchAssumption`: the limit of paths is a natural number (`EPSAControllerConfig.max_paths`); with 0 the
  search gives none.
- `PruningAssumption`: a context has room for more than two sentences; `ResearchContextPrunerV1Config`
  fixes 6. The loop looks at its limit only after it has taken a sentence, so with a limit of 2 the two
  sentences of a bridge and a neighbour would exceed it; no configuration of the code can ask for that.

### What is proved and what is only checked

Theorems hold for every value of the constants that the named assumptions allow; TLC evaluates
the assumptions on the instances of the runs. Proved are all safety and action properties that the
passing runs check, the refinement of the ledger (`LedgerSpec`) and the composition with it
(`NeverRefused`) among them, and in addition the refinement of `CacheMap`. The
liveness properties (`EveryTransactionEnds`, `RunEnds` twice, `CallsEnd`) are out of reach of
the proof system, which has no rules for fairness and ENABLED, and stay with TLC. The
inductive invariants were checked by TLC on the instances of the runs before they were proved.

## 9. Fault definitions

Definitions whose comment begins with *Fault:* are plausible bugs of the code.
No specification uses them; `mutants` in `PROJECT.json` names, for each
property, one that breaks it when it takes the place of the faithful
definition.

## 10. Not modelled

| Part | Why |
|---|---|
| EPSA 02 chunk analysis | rules over strings; component 03 takes only the chunk's identity and title from it, so no later decision depends on it |
| the lexical rules of components 01 and 03 (seeds, relations, comparison targets, sentence splitting) | regular expressions and word lists without state or order; their results are inputs of `EvidenceUnits` |
| `next_hop_query/generator.py` | a reconstructed generator that no pipeline uses; its checks of the input, which the used one shares, are in `NextHopQuery` |
| BM25 and FAISS scoring, tokenizing, embedding | floating point and libraries; the scores are inputs of `HybridRanking` |
| Observability API and the reads of the store | each request only reads, in transactions of its own. That a final run never changes is `FinalizedFrozen`; paging by registration time would need a clock in `ExperimentStore`, whose state space is at its limit |
| schema migration, command lines, settings | run once by an operator, or pure I/O |
| retrieval metrics, answer scoring, token counts, reports | arithmetic on a finished run |
| component evaluators, system evaluation support | offline comparison with a fixture and wiring; no state between calls |
| core contracts, instrumentation | record types and digests used by what is modelled |
