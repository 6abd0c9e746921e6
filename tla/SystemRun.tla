------------------------------ MODULE SystemRun ------------------------------
(***************************************************************************)
(* One paired system evaluation: the runner that asks every question under *)
(* every condition (a system and a top_k), and the directory of its        *)
(* ResumableSystemRunStore: metadata.json, one file for each trace,        *)
(* summary.json and manifest.json.                                         *)
(*                                                                         *)
(* A worker is a process that reserves or resumes the run.  It may crash   *)
(* between any two file operations, losing its memory, and may be started  *)
(* again, also with other metadata.  Nothing locks the directory: two      *)
(* workers may be at it at once.  A trace keeps what the runner compares:  *)
(* whether it failed, the Hop-1 result, and what tells it from another one *)
(* of the same pair.  A completed trace holds latencies and equals no      *)
(* other: its author stands for them.  A failed one holds only its error.  *)
(***************************************************************************)
EXTENDS Integers, Sequences, FiniteSets

CONSTANTS
  Workers,
  Metas,       \* run metadata payloads: see MetaAssumption
  Questions, Systems,
  Hops,        \* Hop-1 retrieval results
  Errors,      \* types and messages of exceptions
  MaxCrashes,  \* bound on the number of crashes
  None,        \* a file that does not exist, a missing value
  Torn         \* a file that was not written to its end

ASSUME MetaAssumption ==
  \A m \in Metas :
    /\ m.questions \in Seq(Questions) /\ Len(m.questions) > 0
    /\ m.systems \in Seq(Systems) /\ Len(m.systems) > 0
    /\ m.top_ks \in Seq(Nat \ {0}) /\ Len(m.top_ks) > 0
    /\ \A s \in {m.questions, m.systems, m.top_ks} :
         \A i, j \in DOMAIN s : s[i] = s[j] => i = j

ASSUME BoundAssumption == MaxCrashes \in Nat

TraceType == [status : {"completed"}, hop1 : Hops, by : Workers]
             \cup [status : {"failed"}, hop1 : {None}, error : Errors]

SummaryType == [meta : Metas, completed : Nat, failed : Nat,
                status : {"completed", "completed_with_failures"}]

\* A file that is absent or torn is told from one that was written.
ASSUME NoneAssumption ==
  /\ None # Torn
  /\ \A none \in {None, Torn} :
       none \notin Metas /\ none \notin TraceType /\ none \notin SummaryType

TopKs == UNION {{m.top_ks[i] : i \in DOMAIN m.top_ks} : m \in Metas}
Keys == Questions \X Systems \X TopKs

VARIABLES
  dir, metadata, summary, manifest,  \* the files of the run
  traces,    \* traces[k]: the file of a question under a condition, or None
  pc,        \* where each worker is
  meta,      \* the metadata it was started with
  mem,       \* the traces in its memory, in order
  held,      \* the trace it has just evaluated
  calls,     \* how many evaluations were paid for
  crashes

files == <<dir, metadata, summary, manifest, traces>>
vars == <<files, pc, meta, mem, held, calls, crashes>>

Running == {"reserve", "evaluate", "ask", "write", "replace", "summary.json",
            "manifest.json", "load"}
Ended == {"done", "completed", "conflict", "frozen", "unpaired", "error"}
-----------------------------------------------------------------------------
(* The order of the campaign *)

Total(m) == Len(m.questions) * Len(m.systems) * Len(m.top_ks)

\* The n-th pair: questions outermost, then top_ks, then systems.
Pair(m, n) ==
  LET systems == Len(m.systems)
      conditions == systems * Len(m.top_ks)
      condition == (n - 1) % conditions
  IN <<m.questions[((n - 1) \div conditions) + 1],
       m.systems[(condition % systems) + 1],
       m.top_ks[(condition \div systems) + 1]>>

Pairs(m) == {Pair(m, n) : n \in 1..Total(m)}

Due(w) == Pair(meta[w], Len(mem[w]) + 1)

\* Fault: the campaign ends before its last pair.
CompleteEarly(w) == Len(mem[w]) >= Total(meta[w]) - 1

Complete(w) == Len(mem[w]) = Total(meta[w])

\* Fault: a stored failure is not taken for a result.
FoundCompleted(w) == traces[Due(w)] # None /\ traces[Due(w)].status = "completed"

\* load_trace finds the file of the pair that is due, failed or not.
Found(w) == traces[Due(w)] # None

Completed(w) == {n \in DOMAIN mem[w] : mem[w][n].status = "completed"}

\* Fault: the results of one question are keyed by the whole condition.
PairedByCondition(w) ==
  \A i, j \in Completed(w) :
    Pair(meta[w], i) = Pair(meta[w], j) => mem[w][i].hop1 = mem[w][j].hop1

\* _validate_paired_hop1: all completed systems saw the same Hop-1 results.
Paired(w) ==
  \A i, j \in Completed(w) :
    LET a == Pair(meta[w], i)
        b == Pair(meta[w], j)
    IN a[1] = b[1] /\ a[3] = b[3] => mem[w][i].hop1 = mem[w][j].hop1

\* _summarize.
Summary(w) ==
  LET completed == Cardinality(Completed(w)) IN
  [meta |-> meta[w], completed |-> completed, failed |-> Len(mem[w]) - completed,
   status |-> IF completed = Len(mem[w]) THEN "completed" ELSE "completed_with_failures"]

\* The inventory of finalize: every file and its digest.
Inventory == [metadata |-> metadata, summary |-> summary, traces |-> traces]
-----------------------------------------------------------------------------
Init ==
  /\ dir = FALSE /\ metadata = None /\ summary = None /\ manifest = None
  /\ traces = [k \in Keys |-> None]
  /\ pc = [w \in Workers |-> "idle"]
  /\ meta = [w \in Workers |-> None]
  /\ mem = [w \in Workers |-> <<>>]
  /\ held = [w \in Workers |-> None]
  /\ calls = 0
  /\ crashes = 0

Goto(w, where) == pc' = [pc EXCEPT ![w] = where]
Keep == UNCHANGED <<mem, held, calls, crashes>>

\* Fault: whatever metadata is on disk, the run is resumed.
OpeningLax(m) ==
  CASE summary # None -> "completed"
    [] summary = None /\ metadata \notin {None, Torn} -> "evaluate"
    [] summary = None /\ metadata = Torn -> "error"
    [] summary = None /\ metadata = None /\ dir -> "error"
    [] OTHER -> "reserve"

\* Where a worker started with metadata m goes on: the branches of __init__.
Opening(m) ==
  CASE summary # None -> "completed"
    [] summary = None /\ metadata = m -> "evaluate"
    [] summary = None /\ metadata = Torn -> "error"
    [] summary = None /\ metadata \notin {None, Torn, m} -> "conflict"
    [] summary = None /\ metadata = None /\ dir -> "error"
    [] OTHER -> "reserve"

\* The run is opened: reserved when it is new, resumed when it is the same.
Open(w) ==
  /\ pc[w] = "idle"
  /\ \E m \in Metas :
       /\ meta' = [meta EXCEPT ![w] = m]
       /\ Goto(w, Opening(m))
       /\ dir' = (dir \/ Opening(m) = "reserve")
  /\ UNCHANGED <<metadata, summary, manifest, traces>> /\ Keep

WriteMetadata(w) ==
  /\ pc[w] = "reserve"
  /\ metadata' = meta[w]
  /\ Goto(w, "evaluate")
  /\ UNCHANGED <<dir, summary, manifest, traces, meta>> /\ Keep

\* A stored trace is taken as it is.
Resume(w) ==
  /\ pc[w] = "evaluate" /\ ~Complete(w)
  /\ Found(w)
  /\ mem' = [mem EXCEPT ![w] = Append(@, traces[Due(w)])]
  /\ UNCHANGED <<files, pc, meta, held, calls, crashes>>

Miss(w) ==
  /\ pc[w] = "evaluate" /\ ~Complete(w)
  /\ ~Found(w)
  /\ Goto(w, "ask")
  /\ UNCHANGED <<files, meta>> /\ Keep

Outcomes(w) == [status : {"completed"}, hop1 : Hops, by : {w}]
               \cup [status : {"failed"}, hop1 : {None}, error : Errors]

\* Fault: a failed question is asked again.
AskAgain(w) ==
  /\ pc[w] = "ask"
  /\ \/ \E trace \in Outcomes(w) :
          /\ trace.status = "completed"
          /\ held' = [held EXCEPT ![w] = trace]
          /\ calls' = calls + 1
          /\ Goto(w, "write")
     \/ Goto(w, "evaluate") /\ UNCHANGED <<held, calls>>
  /\ UNCHANGED <<files, meta, mem, crashes>>

\* _evaluate_one: the pipeline runs, and any exception becomes a failed trace
\* without its observations.
Ask(w) ==
  /\ pc[w] = "ask"
  /\ \E trace \in Outcomes(w) : held' = [held EXCEPT ![w] = trace]
  /\ calls' = calls + 1
  /\ Goto(w, "write")
  /\ UNCHANGED <<files, meta, mem, crashes>>

\* The trace that was evaluated is appended to those in memory.
Remember(w) ==
  /\ mem' = [mem EXCEPT ![w] = Append(@, held[w])]
  /\ held' = [held EXCEPT ![w] = None]

\* A trace that another worker stored meanwhile: write_trace returns when it is the same,
\* and refuses to replace any other.
Compare(w) ==
  IF traces[Due(w)] = held[w]
  THEN Goto(w, "evaluate") /\ Remember(w)
  ELSE Goto(w, "frozen") /\ UNCHANGED <<mem, held>>

\* Fault: the trace is written under its final name, and is torn meanwhile.
StageInPlace(w) ==
  /\ pc[w] = "write"
  /\ IF traces[Due(w)] = None
     THEN /\ traces' = [traces EXCEPT ![Due(w)] = Torn]
          /\ Goto(w, "replace") /\ UNCHANGED <<mem, held>>
     ELSE Compare(w) /\ UNCHANGED traces
  /\ UNCHANGED <<dir, metadata, summary, manifest, meta, calls, crashes>>

\* write_trace looks whether the trace exists and writes a temporary file.
Stage(w) ==
  /\ pc[w] = "write"
  /\ IF traces[Due(w)] = None
     THEN Goto(w, "replace") /\ UNCHANGED <<mem, held>>
     ELSE Compare(w)
  /\ UNCHANGED <<files, meta, calls, crashes>>

\* os.replace puts the temporary file in place.
Replace(w) ==
  /\ pc[w] = "replace"
  /\ traces' = [traces EXCEPT ![Due(w)] = held[w]]
  /\ Remember(w)
  /\ Goto(w, "evaluate")
  /\ UNCHANGED <<dir, metadata, summary, manifest, meta, calls, crashes>>

\* After the last pair: the paired check, then finalize.
Validate(w) ==
  /\ pc[w] = "evaluate" /\ Complete(w)
  /\ Goto(w, IF Paired(w) THEN "summary.json" ELSE "unpaired")
  /\ UNCHANGED <<files, meta>> /\ Keep

\* Both files are created exclusively: a second one raises.
WriteSummary(w) ==
  /\ pc[w] = "summary.json"
  /\ IF summary = None
     THEN summary' = Summary(w) /\ Goto(w, "manifest.json")
     ELSE Goto(w, "frozen") /\ UNCHANGED summary
  /\ UNCHANGED <<dir, metadata, manifest, traces, meta>> /\ Keep

WriteManifest(w) ==
  /\ pc[w] = "manifest.json"
  /\ IF manifest = None
     THEN manifest' = Inventory /\ Goto(w, "load")
     ELSE Goto(w, "frozen") /\ UNCHANGED manifest
  /\ UNCHANGED <<dir, metadata, summary, traces, meta>> /\ Keep

\* The checks of load_system_export.
Loadable ==
  /\ manifest \notin {None, Torn}
  /\ manifest.metadata = metadata /\ manifest.summary = summary
  /\ \A k \in Keys : manifest.traces[k] # None => manifest.traces[k] = traces[k]
  /\ summary \notin {None, Torn}
  /\ Cardinality({k \in Keys : traces[k] # None}) = Total(summary.meta)

Load(w) ==
  /\ pc[w] = "load"
  /\ Goto(w, IF Loadable THEN "done" ELSE "error")
  /\ UNCHANGED <<files, meta>> /\ Keep

\* The process dies; a file it is writing may be left torn.
Crash(w) ==
  /\ pc[w] \in Running
  /\ crashes < MaxCrashes
  /\ crashes' = crashes + 1
  /\ \/ UNCHANGED files
     \/ pc[w] = "reserve" /\ metadata' \in {Torn, meta[w]}
          /\ UNCHANGED <<dir, summary, manifest, traces>>
     \/ pc[w] = "summary.json" /\ summary = None /\ summary' \in {Torn, Summary(w)}
          /\ UNCHANGED <<dir, metadata, manifest, traces>>
     \/ pc[w] = "manifest.json" /\ manifest = None /\ manifest' \in {Torn, Inventory}
          /\ UNCHANGED <<dir, metadata, summary, traces>>
  /\ Goto(w, "idle")
  /\ meta' = [meta EXCEPT ![w] = None]
  /\ mem' = [mem EXCEPT ![w] = <<>>]
  /\ held' = [held EXCEPT ![w] = None]
  /\ UNCHANGED calls

\* The process has returned or raised, and is started again.
Restart(w) ==
  /\ pc[w] \in Ended
  /\ Goto(w, "idle")
  /\ meta' = [meta EXCEPT ![w] = None]
  /\ mem' = [mem EXCEPT ![w] = <<>>]
  /\ held' = [held EXCEPT ![w] = None]
  /\ UNCHANGED <<files, calls, crashes>>

Proceed(w) ==
  \/ WriteMetadata(w) \/ Resume(w) \/ Miss(w) \/ Ask(w) \/ Stage(w) \/ Replace(w)
  \/ Validate(w) \/ WriteSummary(w) \/ WriteManifest(w) \/ Load(w)

Next == \E w \in Workers : Open(w) \/ Proceed(w) \/ Crash(w) \/ Restart(w)

Spec == Init /\ [][Next]_vars
FairSpec == Spec /\ \A w \in Workers : WF_vars(Proceed(w))
-----------------------------------------------------------------------------

(* Properties *)

\* Every variable has its type; no file of a trace is ever torn.
TypeOK ==
  /\ dir \in BOOLEAN
  /\ metadata \in Metas \cup {None, Torn}
  /\ summary \in SummaryType \cup {None, Torn}
  /\ traces \in [Keys -> TraceType \cup {None}]
  /\ manifest \in {None, Torn} \cup
       [metadata : {metadata}, summary : {summary}, traces : [Keys -> TraceType \cup {None}]]
  /\ pc \in [Workers -> Running \cup Ended \cup {"idle"}]
  /\ meta \in [Workers -> Metas \cup {None}]
  /\ mem \in [Workers -> Seq(TraceType)]
  /\ held \in [Workers -> TraceType \cup {None}]
  /\ calls \in Nat
  /\ crashes \in 0..MaxCrashes

Stored == {k \in Keys : traces[k] # None}

\* A trace that was stored is never replaced (write_trace: "refusing to replace
\* a completed system trace"), whatever crashes and restarts intervene.
TracesAreFinal == [][\A k \in Stored : traces'[k] = traces[k]]_vars

\* Restarts, also with other metadata, leave on disk a prefix of one campaign:
\* the traces of its first pairs in its order, and a worker remembers an
\* initial part of them (the resume check of __init__ and the loop of
\* evaluate_systems).
StoredIsPrefix ==
  \/ Stored = {}
  \/ /\ metadata \in Metas
     /\ \E n \in 1..Total(metadata) : Stored = {Pair(metadata, i) : i \in 1..n}
     /\ \A w \in Workers : \A i \in DOMAIN mem[w] : mem[w][i] = traces[Pair(metadata, i)]

\* "Persist each question-condition result before moving to the next API call":
\* all pairs were evaluated once, but for one evaluation lost in each crash and
\* the one in flight.
OneCallLostPerCrash ==
  calls <= Cardinality(Stored) + crashes
             + Cardinality({w \in Workers : pc[w] \in {"write", "replace"}})

\* A run whose summary was begun has the same Hop-1 results in every completed
\* trace of one question and top_k.
PairedHop1 ==
  summary # None =>
    \A j, k \in Stored :
      /\ j[1] = k[1] /\ j[3] = k[3]
      /\ traces[j].status = "completed" /\ traces[k].status = "completed"
      => traces[j].hop1 = traces[k].hop1

\* "Final immutable file inventory": what a manifest lists is what is stored.
InventoryHolds == manifest \notin {None, Torn} => Loadable

\* A manifest means a whole campaign: its files pass load_system_export, there is
\* a trace for each planned pair and for no other, and the summary counts
\* them, those stored before a crash included.
ManifestCovers ==
  manifest \notin {None, Torn} =>
    /\ Loadable
    /\ summary.meta = metadata
    /\ Stored = Pairs(metadata)
    /\ summary.completed = Cardinality({k \in Stored : traces[k].status = "completed"})
    /\ summary.failed = Cardinality({k \in Stored : traces[k].status = "failed"})

\* "completed run ID already exists" is only said of a run that was completed.
RefusedOnlyWhenComplete ==
  \A w \in Workers : pc[w] = "completed" => manifest \notin {None, Torn}

\* A worker that goes on ends, in a summary or in an exception, whatever
\* fails (the loop over the pairs is bounded and every call returns).
RunEnds == \A w \in Workers : pc[w] \in Running ~> pc[w] \notin Running
=============================================================================
