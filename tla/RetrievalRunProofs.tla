------------------------- MODULE RetrievalRunProofs -------------------------
(***************************************************************************)
(* Proofs about RetrievalRun, for every set of configurations: the types,  *)
(* that the store follows the export, that a manifest means a complete     *)
(* run, that observations stay with their questions, that a measured run   *)
(* reports, that the files are written once, and that the store has no     *)
(* reason to refuse a run.                                                 *)
(*                                                                         *)
(* The inductive invariant Inv says what the files of the run ID are,      *)
(* apart from a torn last line: the events of one configuration in order.  *)
(* The process that writes them has in memory exactly what they say.       *)
(*                                                                         *)
(* Lawful adds the rules of the ledger. Every event of an export may       *)
(* follow those before it: the invariant says so of each whole line and of *)
(* the event about to be written, and what evaluate remembers (no failure  *)
(* before the last trace, no more warmups than asked for) makes the next   *)
(* event such a one.                                                       *)
(***************************************************************************)
EXTENDS RetrievalStorage, FiniteSetTheorems, SequenceTheorems, TLAPS

Texts == {Text[q] : q \in Questions}

\* The event of the i-th question of configuration c, with an observation of its own.
IsQuestion(c, i, e) ==
  /\ i \in 1..Len(c.plan) /\ e \in EventRecords
  /\ e.kind = "QUESTION" /\ e.qid = c.plan[i] /\ e.seen \in {None, Text[e.qid]}
  /\ e.body \in [status : {"completed", "failed"}, score : Nat]
  /\ e.seen # None => c.observed
  /\ e.body.status = "completed" /\ c.observed => e.seen # None

\* The finish event of a run of configuration c with n measured questions.
IsFinish(c, n, e) ==
  \E s \in Summaries : e = Finish(s) /\ s.meta = c /\ s.completed + s.failed = n

\* The events of one run, as far as it came.
EventsOf(c, s) ==
  /\ s \in Seq(EventRecords)
  /\ \A i \in DOMAIN s :
       /\ i = 1 => s[i] = Start(c)
       /\ i > 1 => IsQuestion(c, i - 1, s[i]) \/ (i = Len(s) /\ IsFinish(c, i - 2, s[i]))

\* With a downstream sink attached, all of these events have been stored.
Delivered(c, t) == c.downstream => Len(stored) = Len(t)

\* What is on disk and in the store of a run of configuration c with whole lines t.
Book(c, t) ==
  /\ EventsOf(c, t)
  /\ log = t \/ log = Append(t, Torn)
  /\ Len(stored) <= Len(t) /\ stored \in Seq(EventRecords)
  /\ \A i \in DOMAIN stored : stored[i] = t[i]
  /\ c.downstream /\ t # <<>> => Len(t) <= Len(stored) + 1
  /\ run_json # None =>
       /\ log = t /\ t # <<>> /\ Delivered(c, t)
       /\ \E s \in Summaries : t[Len(t)] = Finish(s) /\ run_json \in {Torn, s}
  /\ manifest # None =>
       /\ run_json \notin {None, Torn}
       /\ manifest \in {Torn, [events |-> log, run |-> run_json]}

Blank == log = <<>> /\ run_json = None /\ manifest = None /\ stored = <<>>

BookFit ==
  /\ ~dir => Blank
  /\ dir => \E c \in Configs, t \in Seq(EventRecords) : Book(c, t)

\* The traces in memory are the questions of these events.
Traced(s) == Len(s) = Len(traces) + 1 /\ \A i \in DOMAIN traces : s[i + 1] = traces[i]

\* A process that runs knows what it has written, and what it is about to write.
ProcessFit ==
  pc \in Running =>
    /\ dir /\ config \in Configs /\ Book(config, log)
    /\ pc \in {"evaluate", "write", "deliver", "run.json"} => run_json = None
    /\ pc # "load" => manifest = None
    /\ pc # "deliver" => Delivered(config, log)
    /\ pc = "evaluate" => Traced(log)
    /\ pc = "write" =>
         /\ out \in EventRecords /\ EventsOf(config, Append(log, out))
         /\ out.kind # "FINISH" => Traced(Append(log, out))
    /\ pc = "deliver" =>
         /\ config.downstream /\ log # <<>> /\ out = log[Len(log)] /\ Len(log) = Len(stored) + 1
         /\ out.kind # "FINISH" => Traced(log)
    /\ pc \in {"run.json", "manifest.json", "load"} =>
         log # <<>> /\ out = log[Len(log)] /\ out.kind = "FINISH"
    /\ pc = "manifest.json" => run_json = out.body
    /\ pc = "load" => manifest \notin {None, Torn}

\* The observation buffer is empty unless a warmup failed.
MemoryFit ==
  /\ config \in Configs \cup {None}
  /\ pc \in {"idle"} \cup Running \cup Ended
  /\ pending \in Seq(Texts) /\ warmed \in Nat /\ error \in BOOLEAN
  /\ traces \in Seq(EventRecords) /\ out \in EventRecords \cup {None}
  /\ pc = "idle" =>
       config = None /\ pending = <<>> /\ warmed = 0 /\ traces = <<>> /\ error = FALSE
  /\ pc \in Running =>
       /\ \A i \in DOMAIN traces : IsQuestion(config, i, traces[i])
       /\ error = FALSE \/ traces # <<>> => pending = <<>>
       /\ traces # <<>> => warmed = config.warmups
  /\ pc = "buffer_error" => error /\ log = <<Start(config)>>

Inv == dir \in BOOLEAN /\ BookFit /\ ProcessFit /\ MemoryFit
-----------------------------------------------------------------------------
(* Events and their order *)

\* The three kinds of events.
LEMMA StartIsEvent ==
  ASSUME NEW c \in Configs
  PROVE  Start(c) \in EventRecords /\ Start(c).kind = "START" /\ Start(c).body = c
BY DEF Start, EventRecords, Bodies

\* A finish event carries its summary.
LEMMA FinishIsEvent ==
  ASSUME NEW s \in Summaries
  PROVE  Finish(s) \in EventRecords /\ Finish(s).kind = "FINISH" /\ Finish(s).body = s
BY DEF Finish, EventRecords, Bodies

\* A question event carries its question, its result and its observation.
LEMMA AnsweredIsEvent ==
  ASSUME NEW q \in Questions, NEW status \in {"completed", "failed"}, NEW score \in Nat,
         NEW seen \in Texts \cup {None}
  PROVE  /\ Answered(q, status, score, seen) \in EventRecords
         /\ Answered(q, status, score, seen).kind = "QUESTION"
         /\ Answered(q, status, score, seen).qid = q
         /\ Answered(q, status, score, seen).seen = seen
         /\ Answered(q, status, score, seen).body = [status |-> status, score |-> score]
BY DEF Answered, EventRecords, Bodies, Texts

\* The plan of a configuration.
LEMMA PlanShape ==
  ASSUME NEW c \in Configs
  PROVE  /\ c.plan \in Seq(Questions) /\ Len(c.plan) \in Nat
         /\ \A i \in 1..Len(c.plan) : c.plan[i] \in Questions
         /\ c.warmups \in Nat /\ c.warmups <= Len(c.plan)
         /\ c.observed \in BOOLEAN /\ c.downstream \in BOOLEAN
<1>1. c.plan \in Seq(Questions) /\ c.warmups \in 0..Len(c.plan)
      /\ c.observed \in BOOLEAN /\ c.downstream \in BOOLEAN
  BY ConfigAssumption
<1>2. Len(c.plan) \in Nat
  BY <1>1, LenProperties
<1>3. QED
  BY <1>1, <1>2

\* A run begins with its start event.
LEMMA FirstEvent ==
  ASSUME NEW c \in Configs
  PROVE  EventsOf(c, <<>>) /\ EventsOf(c, Append(<<>>, Start(c)))
<1>1. EventsOf(c, <<>>)
  BY DEF EventsOf
<1>2. Append(<<>>, Start(c)) \in Seq(EventRecords)
  BY StartIsEvent
<1>3. Append(<<>>, Start(c)) = <<Start(c)>>
  OBVIOUS
<1>4. \A i \in DOMAIN <<Start(c)>> : i = 1 /\ <<Start(c)>>[i] = Start(c)
  OBVIOUS
<1>5. QED
  BY <1>1, <1>2, <1>3, <1>4 DEF EventsOf

\* After the start event and n questions come the next question or the finish event.
LEMMA NextEvent ==
  ASSUME NEW c \in Configs, NEW s, EventsOf(c, s), Len(s) >= 1,
         s[Len(s)].kind # "FINISH",
         NEW e \in EventRecords, IsQuestion(c, Len(s), e) \/ IsFinish(c, Len(s) - 1, e)
  PROVE  EventsOf(c, Append(s, e))
<1> DEFINE n == Len(s)
           t == Append(s, e)
<1>1. s \in Seq(EventRecords) /\ n \in Nat /\ DOMAIN s = 1..n
  BY LenProperties DEF EventsOf
<1>2. /\ t \in Seq(EventRecords) /\ Len(t) = n + 1 /\ DOMAIN t = 1..(n + 1)
      /\ \A i \in 1..n : t[i] = s[i]
      /\ t[n + 1] = e
  BY <1>1, AppendProperties, LenProperties
<1>3. \A i \in 1..n : i > 1 => IsQuestion(c, i - 1, s[i])
  <2>1. SUFFICES ASSUME NEW i \in 1..n, i > 1, i = n, IsFinish(c, i - 2, s[i])
                 PROVE  FALSE
    BY <1>1 DEF EventsOf
  <2>2. QED
    BY <2>1, FinishIsEvent DEF IsFinish
<1>4. s[1] = Start(c)
  BY <1>1 DEF EventsOf
<1> HIDE DEF n, t
<1>5. ASSUME NEW i \in 1..(n + 1)
      PROVE  /\ i = 1 => t[i] = Start(c)
             /\ i > 1 => IsQuestion(c, i - 1, t[i]) \/ (i = Len(t) /\ IsFinish(c, i - 2, t[i]))
  <2>1. CASE i \in 1..n
    BY <1>1, <1>2, <1>3, <1>4, <2>1
  <2>2. CASE i = n + 1
    <3>1. i > 1 /\ i - 1 = n /\ i - 2 = n - 1 /\ t[i] = e /\ i = Len(t)
      BY <1>1, <1>2, <2>2 DEF n
    <3>2. IsQuestion(c, n, e) \/ IsFinish(c, n - 1, e)
      BY DEF n
    <3>3. QED
      BY <3>1, <3>2
  <2>3. QED
    BY <1>1, <2>1, <2>2
<1>6. EventsOf(c, t)
  BY <1>2, <1>5 DEF EventsOf
<1>7. QED
  BY <1>6 DEF t

\* A finished run: its last event has the summary, and before it are the questions.
LEMMA FinishedRun ==
  ASSUME NEW c \in Configs, NEW t, EventsOf(c, t), t # <<>>, t[Len(t)].kind = "FINISH"
  PROVE  /\ Len(t) \in Nat /\ Len(t) >= 2 /\ DOMAIN t = 1..Len(t)
         /\ t[1] = Start(c)
         /\ \A i \in 2..(Len(t) - 1) : IsQuestion(c, i - 1, t[i])
         /\ \E s \in Summaries :
              t[Len(t)] = Finish(s) /\ s.meta = c /\ s.completed + s.failed = Len(t) - 2
<1>1. t \in Seq(EventRecords) /\ Len(t) \in Nat /\ DOMAIN t = 1..Len(t)
  BY LenProperties DEF EventsOf
<1>2. Len(t) # 0
  BY <1>1, EmptySeq
<1>3. t[1] = Start(c)
  BY <1>1, <1>2 DEF EventsOf
<1>4. Len(t) # 1
  BY <1>3, StartIsEvent
<1>5. Len(t) >= 2
  BY <1>1, <1>2, <1>4
<1>6. \A i \in 2..(Len(t) - 1) : IsQuestion(c, i - 1, t[i])
  <2>1. TAKE i \in 2..(Len(t) - 1)
  <2>2. i \in 1..Len(t) /\ i > 1 /\ i # Len(t)
    <3>1. Len(t) \in Nat
      BY <1>1
    <3>2. QED
      BY <3>1
  <2>3. QED
    BY <1>1, <2>2 DEF EventsOf
<1>7. IsFinish(c, Len(t) - 2, t[Len(t)])
  <2>1. Len(t) \in DOMAIN t /\ Len(t) > 1
    BY <1>1, <1>5
  <2>2. ~IsQuestion(c, Len(t) - 1, t[Len(t)])
    BY DEF IsQuestion
  <2>3. \A i \in DOMAIN t :
          i > 1 => IsQuestion(c, i - 1, t[i]) \/ (i = Len(t) /\ IsFinish(c, i - 2, t[i]))
    BY DEF EventsOf
  <2>4. QED
    BY <2>1, <2>2, <2>3
<1>8. QED
  BY <1>1, <1>3, <1>5, <1>6, <1>7 DEF IsFinish
-----------------------------------------------------------------------------
(* What the files say *)

\* The lines of a book are typed, and whole but for the last.
LEMMA BookShape ==
  ASSUME NEW c \in Configs, NEW t, Book(c, t)
  PROVE  /\ t \in Seq(EventRecords) /\ Len(t) \in Nat /\ DOMAIN t = 1..Len(t)
         /\ log \in Seq(EventRecords \cup {Torn}) /\ DOMAIN log = 1..Len(log)
         /\ log = t \/ (Len(log) = Len(t) + 1 /\ log[Len(log)] = Torn)
         /\ \A i \in 1..Len(t) : log[i] = t[i] /\ t[i] \in EventRecords /\ t[i] # Torn
         /\ stored \in Seq(EventRecords) /\ Len(stored) \in Nat /\ DOMAIN stored = 1..Len(stored)
<1>1. t \in Seq(EventRecords) /\ stored \in Seq(EventRecords)
  BY DEF Book, EventsOf
<1>2. /\ Len(t) \in Nat /\ DOMAIN t = 1..Len(t)
      /\ Len(stored) \in Nat /\ DOMAIN stored = 1..Len(stored)
  BY <1>1, LenProperties
<1>3. \A i \in 1..Len(t) : t[i] \in EventRecords /\ t[i] # Torn
  BY <1>1, <1>2, NoneAssumption
<1>4. t \in Seq(EventRecords \cup {Torn})
  BY <1>1
<1>5. CASE log = t
  BY <1>1, <1>2, <1>3, <1>4, <1>5
<1>6. CASE log = Append(t, Torn)
  <2>1. /\ Append(t, Torn) \in Seq(EventRecords \cup {Torn})
        /\ Len(Append(t, Torn)) = Len(t) + 1
        /\ \A i \in 1..Len(t) : Append(t, Torn)[i] = t[i]
        /\ Append(t, Torn)[Len(t) + 1] = Torn
    BY <1>4, AppendProperties
  <2>2. DOMAIN log = 1..Len(log)
    BY <1>6, <2>1, LenProperties
  <2>3. QED
    BY <1>1, <1>2, <1>3, <1>6, <2>1, <2>2
<1>7. QED
  BY <1>5, <1>6 DEF Book

\* One sequence is a prefix of another if it agrees with it as far as it goes.
LEMMA PrefixMeans ==
  ASSUME NEW X, NEW s \in Seq(X), NEW t \in Seq(X)
  PROVE  IsPrefix(s, t) <=> Len(s) <= Len(t) /\ \A i \in 1..Len(s) : s[i] = t[i]
<1>1. /\ Len(s) \in Nat /\ DOMAIN s = 1..Len(s) /\ Len(t) \in Nat /\ DOMAIN t = 1..Len(t)
  BY LenProperties
<1>2. SubSeq(s, 1, Len(s)) = [i \in 1..Len(s) |-> s[i]]
  BY <1>1
<1>3. Len(s) <= Len(t) => SubSeq(t, 1, Len(s)) = [i \in 1..Len(s) |-> t[i]]
  BY <1>1
<1>4. QED
  BY <1>2, <1>3 DEF IsPrefix

\* A book with a whole manifest is one that load_export accepts.
LEMMA BookLoads ==
  ASSUME NEW c \in Configs, NEW t, Book(c, t), manifest \notin {None, Torn}
  PROVE  /\ Loadable /\ log = t /\ Head(log) = Start(c) /\ log \in Seq(EventRecords)
         /\ c.downstream => stored = log
         /\ run_json \in Summaries
<1>1. /\ run_json # None /\ run_json # Torn /\ log = t /\ t # <<>>
      /\ manifest = [events |-> log, run |-> run_json]
      /\ c.downstream => Len(stored) = Len(t)
  BY DEF Book, Delivered
<1>2. PICK s \in Summaries : t[Len(t)] = Finish(s) /\ run_json = s
  BY <1>1 DEF Book
<1>3. EventsOf(c, t)
  BY DEF Book
<1>4. t[Len(t)].kind = "FINISH"
  BY <1>2, FinishIsEvent
<1>5. /\ Len(t) \in Nat /\ Len(t) >= 2 /\ DOMAIN t = 1..Len(t)
      /\ t[1] = Start(c)
      /\ \A i \in 2..(Len(t) - 1) : IsQuestion(c, i - 1, t[i])
      /\ \E r \in Summaries :
           t[Len(t)] = Finish(r) /\ r.meta = c /\ r.completed + r.failed = Len(t) - 2
  BY <1>1, <1>3, <1>4, FinishedRun
<1>6. s.meta = c /\ s.completed + s.failed = Len(t) - 2
  <2>1. PICK r \in Summaries :
          t[Len(t)] = Finish(r) /\ r.meta = c /\ r.completed + r.failed = Len(t) - 2
    BY <1>5
  <2>2. r = s
    BY <1>2, <2>1, FinishIsEvent
  <2>3. QED
    BY <2>1, <2>2
<1>7. /\ log \in Seq(EventRecords) /\ \A i \in DOMAIN log : log[i] # Torn
      /\ stored \in Seq(EventRecords) /\ Len(stored) \in Nat /\ DOMAIN stored = 1..Len(stored)
  BY <1>1, BookShape
<1>8. Recorded = 2..(Len(t) - 1)
  <2>1. log[1].kind = "START"
    BY <1>1, <1>5, StartIsEvent
  <2>2. \A i \in 2..(Len(t) - 1) : log[i].kind = "QUESTION"
    BY <1>1, <1>5 DEF IsQuestion
  <2>3. DOMAIN log = 1..Len(t) /\ \A i \in DOMAIN log : log[i] # Torn
    BY <1>1, <1>5, <1>7
  <2>4. \A i \in 1..Len(t) : i = 1 \/ i = Len(t) \/ i \in 2..(Len(t) - 1)
    <3>1. Len(t) \in Nat
      BY <1>5
    <3>2. QED
      BY <3>1
  <2>5. 2..(Len(t) - 1) \subseteq 1..Len(t)
    BY <1>5
  <2>6. \A i \in 1..Len(t) : log[i].kind = "QUESTION" <=> i \in 2..(Len(t) - 1)
    BY <1>1, <1>4, <1>5, <2>1, <2>2, <2>4
  <2>7. QED
    BY <2>3, <2>5, <2>6 DEF Recorded
<1>9. Cardinality(Recorded) = Len(t) - 2
  BY <1>5, <1>8, FS_Interval
<1>10. \A i \in Recorded : log[i].qid = c.plan[Nth(i)]
  <2>1. TAKE i \in Recorded
  <2>2. i \in 2..(Len(t) - 1)
    BY <1>8
  <2>3. {j \in Recorded : j <= i} = 2..i
    BY <1>5, <1>8, <2>2
  <2>4. Cardinality(2..i) = i - 1
    BY <1>5, <2>2, FS_Interval
  <2>5. QED
    BY <1>1, <1>5, <2>2, <2>3, <2>4 DEF Nth, IsQuestion
<1>11. c.downstream => stored = log
  <2>1. SUFFICES ASSUME c.downstream PROVE stored = log
    OBVIOUS
  <2>2. \A i \in DOMAIN stored : stored[i] = t[i]
    BY DEF Book
  <2>3. QED
    BY <1>1, <1>5, <1>7, <2>1, <2>2
<1>12. Head(log) = Start(c) /\ Last(log) = Finish(s)
  BY <1>1, <1>2, <1>5 DEF Last
<1>13. Loadable
  BY <1>1, <1>2, <1>6, <1>7, <1>9, <1>10, <1>12 DEF Loadable
<1>14. QED
  BY <1>1, <1>2, <1>7, <1>11, <1>12, <1>13
-----------------------------------------------------------------------------
(* The steps of a run *)

Artifacts == <<log, run_json, manifest, stored>>

\* Files and store that stay say the same.
LEMMA SameBook ==
  ASSUME UNCHANGED Artifacts
  PROVE  /\ \A c, t : Book(c, t)' <=> Book(c, t)
         /\ Blank' <=> Blank
BY DEF Book, Delivered, Blank, Artifacts

\* A process that goes on with its memory unchanged.
LEMMA MemoryStays ==
  ASSUME MemoryFit, UNCHANGED <<config, memory>>, pc \in Running,
         pc' \in Running \cup (Ended \ {"buffer_error"}), out' \in EventRecords \cup {None}
  PROVE  MemoryFit'
<1>1. pc' \in Running \cup Ended /\ pc' # "idle" /\ pc' # "buffer_error"
  BY DEF Running, Ended
<1>2. QED
  BY <1>1 DEF MemoryFit, memory

\* The first event of a run has no predecessor.
LEMMA EmptyBook ==
  ASSUME Blank, NEW c \in Configs
  PROVE  Book(c, log) /\ log = <<>>
<1>1. EventsOf(c, <<>>)
  BY FirstEvent
<1>2. QED
  BY <1>1 DEF Book, Blank

\* The run ID is reserved, and the start event is about to be written.
LEMMA ReserveKeeps ==
  ASSUME Inv, Reserve
  PROVE  Inv'
<1>1. /\ pc = "idle" /\ ~dir /\ dir' = TRUE
      /\ UNCHANGED <<log, run_json, manifest, stored, memory>>
  BY DEF Reserve, Free
<1>2. PICK c \in Configs :
        /\ config' = c
        /\ \/ pc' = "write" /\ out' = Start(c)
           \/ pc' = "benchmark_error" /\ out' = None
  BY DEF Reserve
<1>3. Book(c, log) /\ log = <<>> /\ Blank
  BY <1>1, EmptyBook DEF Inv, BookFit
<1>4. Book(c, log)' /\ log' = <<>> /\ run_json' = None /\ manifest' = None /\ stored' = <<>>
  BY <1>1, <1>3 DEF Book, Blank
<1>5. BookFit'
  <2>1. <<>> \in Seq(EventRecords)
    OBVIOUS
  <2>2. QED
    BY <1>1, <1>4, <2>1 DEF BookFit
<1>6. /\ pending' = <<>> /\ warmed' = 0 /\ traces' = <<>> /\ error' = FALSE
  BY <1>1 DEF Inv, MemoryFit, memory
<1>7. MemoryFit'
  <2>1. pc' \in Running \cup Ended /\ pc' # "idle" /\ pc' # "buffer_error"
    BY <1>2 DEF Running, Ended
  <2>2. out' \in EventRecords \cup {None}
    BY <1>2, StartIsEvent
  <2>3. <<>> \in Seq(Texts) /\ <<>> \in Seq(EventRecords) /\ DOMAIN <<>> = {} /\ 0 \in Nat
    OBVIOUS
  <2>4. /\ pending' \in Seq(Texts) /\ warmed' \in Nat /\ error' \in BOOLEAN
        /\ traces' \in Seq(EventRecords) /\ config' \in Configs
    BY <1>2, <1>6, <2>3
  <2>5. \A i \in DOMAIN traces' : FALSE
    BY <1>6
  <2>6. QED
    BY <1>6, <2>1, <2>2, <2>4, <2>5 DEF MemoryFit
<1>8. ProcessFit'
  <2>1. CASE pc' = "write"
    <3>1. out' = Start(c) /\ out'.kind # "FINISH" /\ out' \in EventRecords
      BY <1>2, <2>1, StartIsEvent
    <3>2. EventsOf(c, Append(<<>>, Start(c)))
      BY FirstEvent
    <3>3. Traced(Append(log, out))'
      BY <1>4, <1>6 DEF Traced
    <3>4. Delivered(config, log)'
      BY <1>4 DEF Delivered
    <3>5. QED
      BY <1>1, <1>2, <1>4, <2>1, <3>1, <3>2, <3>3, <3>4 DEF ProcessFit
  <2>2. CASE pc' = "benchmark_error"
    BY <2>2 DEF ProcessFit, Running
  <2>3. QED
    BY <1>2, <2>1, <2>2
<1>9. QED
  BY <1>1, <1>5, <1>7, <1>8 DEF Inv

\* A call that is refused, and the start of another process, leave all as it is.
LEMMA RefuseKeeps ==
  ASSUME Inv, Refuse \/ Retry
  PROVE  Inv'
<1>1. UNCHANGED <<dir, log, run_json, manifest, stored>> /\ pc' \in {"refused", "idle"}
  BY DEF Refuse, Retry, files
<1>2. BookFit'
  BY <1>1, SameBook DEF Inv, BookFit, Artifacts
<1>3. ProcessFit'
  BY <1>1 DEF ProcessFit, Running
<1>4. MemoryFit'
  <2>1. CASE Refuse
    <3>1. pc' = "refused" /\ UNCHANGED <<config, memory, out>>
      BY <2>1 DEF Refuse
    <3>2. pc' \in Ended /\ pc' \notin Running /\ pc' # "idle" /\ pc' # "buffer_error"
      BY <3>1 DEF Ended, Running
    <3>3. QED
      BY <3>1, <3>2 DEF Inv, MemoryFit, memory
  <2>2. CASE Retry
    <3>1. /\ pc' = "idle" /\ config' = None /\ out' = None
          /\ pending' = <<>> /\ warmed' = 0 /\ traces' = <<>> /\ error' = FALSE
      BY <2>2 DEF Retry
    <3>2. <<>> \in Seq(Texts) /\ <<>> \in Seq(EventRecords) /\ pc' \notin Running
      BY <3>1 DEF Running
    <3>3. QED
      BY <3>1, <3>2 DEF MemoryFit
  <2>3. QED
    BY <2>1, <2>2
<1>5. QED
  BY <1>1, <1>2, <1>3, <1>4 DEF Inv

\* A run that ends: whatever the interrupted operation left is still a book.
LEMMA EndKeeps ==
  ASSUME Inv, pc \in Running, pc' \in Ended, UNCHANGED <<config, memory, dir, out>>,
         pc' = "buffer_error" => error /\ log' = <<Start(config)>>,
         \E t \in Seq(EventRecords) : Book(config, t)'
  PROVE  Inv'
<1>1. dir /\ config \in Configs
  BY DEF Inv, ProcessFit
<1>2. PICK c \in Configs : c = config
  BY <1>1
<1>3. \E t \in Seq(EventRecords) : Book(c, t)'
  BY <1>2 DEF Book
<1>4. BookFit'
  BY <1>1, <1>3 DEF BookFit
<1>5. pc' \notin Running /\ pc' # "idle"
  BY DEF Ended, Running
<1>6. ProcessFit'
  BY <1>5 DEF ProcessFit
<1>7. MemoryFit'
  BY <1>5 DEF Inv, MemoryFit, memory
<1>8. QED
  BY <1>4, <1>6, <1>7 DEF Inv
-----------------------------------------------------------------------------
(* The questions of a run *)

\* With an empty buffer, a call observes at most the text of its own question.
LEMMA OwnObservation ==
  ASSUME config \in Configs, pending = <<>>, NEW call \in Calls, NEW q \in Questions
  PROVE  /\ Observed(call, q) \in Seq(Texts)
         /\ ~Mismatch(Observed(call, q), q)
         /\ Rest(Observed(call, q)) = <<>>
         /\ Taken(Observed(call, q)) \in {None, Text[q]}
         /\ Taken(Observed(call, q)) # None => config.observed
         /\ call = "valid" /\ config.observed => Taken(Observed(call, q)) # None
<1>1. Text[q] \in Texts /\ Text[q] # None
  BY NoneAssumption DEF Texts
<1>2. config.observed \in BOOLEAN
  BY PlanShape
<1>3. CASE config.observed /\ call # "embedding_error"
  <2>1. Observed(call, q) = <<Text[q]>>
    BY <1>3 DEF Observed
  <2>2. <<Text[q]>> \in Seq(Texts) /\ Head(<<Text[q]>>) = Text[q] /\ Tail(<<Text[q]>>) = <<>>
        /\ <<Text[q]>> # <<>>
    BY <1>1
  <2>3. QED
    BY <1>1, <1>2, <1>3, <2>1, <2>2 DEF Mismatch, Rest, Taken
<1>4. CASE ~(config.observed /\ call # "embedding_error")
  <2>1. Observed(call, q) = <<>>
    BY <1>4 DEF Observed
  <2>2. <<>> \in Seq(Texts)
    OBVIOUS
  <2>3. QED
    BY <1>2, <1>4, <2>1, <2>2 DEF Mismatch, Rest, Taken
<1>5. QED
  BY <1>3, <1>4

\* A process in its loop.
LEMMA InLoop ==
  ASSUME Inv, pc = "evaluate"
  PROVE  /\ dir /\ config \in Configs /\ Book(config, log) /\ EventsOf(config, log)
         /\ run_json = None /\ manifest = None /\ Delivered(config, log) /\ Traced(log)
         /\ traces \in Seq(EventRecords) /\ Len(traces) \in Nat
         /\ \A i \in DOMAIN traces : IsQuestion(config, i, traces[i])
         /\ error = FALSE \/ traces # <<>> => pending = <<>>
         /\ traces # <<>> => warmed = config.warmups
         /\ pending \in Seq(Texts) /\ warmed \in Nat /\ error \in BOOLEAN
         /\ Len(log) = Len(traces) + 1 /\ log[Len(log)].kind # "FINISH" /\ log # <<>>
         /\ DOMAIN log = 1..Len(log)
<1>1. pc \in Running
  BY DEF Running
<1>2. /\ dir /\ config \in Configs /\ Book(config, log) /\ EventsOf(config, log)
      /\ run_json = None /\ manifest = None /\ Delivered(config, log) /\ Traced(log)
  BY <1>1 DEF Inv, ProcessFit, Book
<1>3. /\ traces \in Seq(EventRecords)
      /\ \A i \in DOMAIN traces : IsQuestion(config, i, traces[i])
      /\ error = FALSE \/ traces # <<>> => pending = <<>>
      /\ traces # <<>> => warmed = config.warmups
      /\ pending \in Seq(Texts) /\ warmed \in Nat /\ error \in BOOLEAN
  BY <1>1 DEF Inv, MemoryFit
<1>4. /\ Len(traces) \in Nat /\ DOMAIN traces = 1..Len(traces)
      /\ Len(log) = Len(traces) + 1 /\ log # <<>> /\ DOMAIN log = 1..Len(log)
      /\ \A i \in DOMAIN traces : log[i + 1] = traces[i]
  BY <1>2, <1>3, LenProperties, EmptySeq DEF Traced, EventsOf
<1>5. log[Len(log)].kind # "FINISH"
  <2>1. CASE Len(traces) = 0
    <3>1. log[1] = Start(config)
      BY <1>2, <1>4, <2>1 DEF EventsOf
    <3>2. QED
      BY <1>2, <1>4, <2>1, <3>1, StartIsEvent
  <2>2. CASE Len(traces) # 0
    <3>1. Len(traces) \in DOMAIN traces
      BY <1>4, <2>2
    <3>2. log[Len(log)] = traces[Len(traces)]
      BY <1>4, <3>1
    <3>3. QED
      BY <1>3, <3>1, <3>2 DEF IsQuestion
  <2>3. QED
    BY <2>1, <2>2
<1>6. QED
  BY <1>2, <1>3, <1>4, <1>5

\* A warmup leaves the buffer empty unless it fails.
LEMMA WarmKeeps ==
  ASSUME Inv, NEW call \in Calls, Warm(call)
  PROVE  Inv'
<1>1. /\ pc = "evaluate" /\ ~error /\ warmed < config.warmups
      /\ UNCHANGED <<config, pc, files, stored, traces, out>>
  BY DEF Warm
<1>2. /\ config \in Configs /\ pending = <<>> /\ traces = <<>> /\ warmed \in Nat
      /\ pending \in Seq(Texts)
  <2>1. error = FALSE
    BY <1>1, InLoop
  <2>2. /\ config \in Configs /\ pending = <<>> /\ warmed \in Nat /\ pending \in Seq(Texts)
        /\ traces # <<>> => warmed = config.warmups
    BY <1>1, <2>1, InLoop
  <2>3. config.warmups \in Nat
    BY <2>2, PlanShape
  <2>4. traces = <<>>
    BY <1>1, <2>2, <2>3
  <2>5. QED
    BY <2>2, <2>4
<1>3. PICK q \in Questions : q = config.plan[warmed + 1]
  BY <1>1, <1>2, PlanShape
<1>4. /\ Observed(call, q) \in Seq(Texts) /\ ~Mismatch(Observed(call, q), q)
      /\ Rest(Observed(call, q)) = <<>>
  BY <1>2, OwnObservation
<1>5. \/ pending' = Observed(call, q) /\ error' = TRUE /\ warmed' = warmed
      \/ pending' = <<>> /\ error' = Invalid(call) /\ warmed' \in {warmed, warmed + 1}
  BY <1>3, <1>4 DEF Warm
<1>6. /\ pending' \in Seq(Texts) /\ error' \in BOOLEAN /\ warmed' \in Nat
      /\ error' = FALSE => pending' = <<>>
  <2>1. Invalid(call) \in BOOLEAN
    BY DEF Invalid
  <2>2. error' \in BOOLEAN /\ (error' = FALSE => pending' = <<>>)
    BY <1>5, <2>1
  <2>3. warmed' \in Nat
    BY <1>2, <1>5
  <2>4. <<>> \in Seq(Texts)
    OBVIOUS
  <2>5. pending' \in Seq(Texts)
    BY <1>4, <1>5, <2>4
  <2>6. QED
    BY <2>2, <2>3, <2>5
<1>7. MemoryFit'
  BY <1>1, <1>2, <1>6 DEF Inv, MemoryFit, Running
<1>8. BookFit'
  BY <1>1, SameBook DEF Inv, BookFit, Artifacts, files
<1>9. ProcessFit'
  BY <1>1 DEF Inv, ProcessFit, Book, Traced, Delivered, files
<1>10. QED
  BY <1>1, <1>7, <1>8, <1>9 DEF Inv, files

\* A list that follows another by one place still does so when both are extended alike.
LEMMA StillTraced ==
  ASSUME NEW s \in Seq(EventRecords), NEW t \in Seq(EventRecords), NEW e \in EventRecords,
         Len(s) = Len(t) + 1, \A i \in DOMAIN t : s[i + 1] = t[i]
  PROVE  /\ Len(Append(s, e)) = Len(Append(t, e)) + 1
         /\ \A i \in DOMAIN Append(t, e) : Append(s, e)[i + 1] = Append(t, e)[i]
<1>1. /\ Len(s) \in Nat /\ Len(t) \in Nat /\ DOMAIN t = 1..Len(t) /\ DOMAIN s = 1..Len(s)
  BY LenProperties
<1>2. /\ Len(Append(s, e)) = Len(s) + 1 /\ Len(Append(t, e)) = Len(t) + 1
      /\ \A i \in 1..Len(s) : Append(s, e)[i] = s[i]
      /\ \A i \in 1..Len(t) : Append(t, e)[i] = t[i]
      /\ Append(s, e)[Len(s) + 1] = e /\ Append(t, e)[Len(t) + 1] = e
      /\ DOMAIN Append(t, e) = 1..(Len(t) + 1)
  BY AppendProperties, LenProperties
<1>3. ASSUME NEW i \in 1..(Len(t) + 1)
      PROVE  Append(s, e)[i + 1] = Append(t, e)[i]
  <2>1. CASE i \in 1..Len(t)
    <3>1. i + 1 \in 1..Len(s)
      BY <1>1, <2>1
    <3>2. QED
      BY <1>1, <1>2, <2>1, <3>1
  <2>2. CASE i = Len(t) + 1
    BY <1>1, <1>2, <2>2
  <2>3. QED
    BY <1>1, <2>1, <2>2
<1>4. QED
  BY <1>1, <1>2, <1>3

\* A measured question: its trace, with its own observation, is the next event.
LEMMA AskKeeps ==
  ASSUME Inv, NEW call \in Calls, Ask(call)
  PROVE  Inv'
<1>1. /\ pc = "evaluate" /\ ~error /\ warmed = config.warmups
      /\ Len(traces) < Len(config.plan)
      /\ UNCHANGED <<config, files, stored, warmed>>
  BY DEF Ask
<1>2. PICK c \in Configs : c = config
  BY <1>1, InLoop
<1>3. /\ pending = <<>> /\ warmed \in Nat /\ pending \in Seq(Texts)
      /\ traces \in Seq(EventRecords) /\ Len(traces) \in Nat
      /\ Len(log) = Len(traces) + 1 /\ log[Len(log)].kind # "FINISH"
      /\ dir /\ Book(c, log) /\ EventsOf(c, log) /\ log \in Seq(EventRecords)
      /\ run_json = None /\ manifest = None /\ Delivered(c, log) /\ Traced(log)
      /\ \A i \in DOMAIN traces : IsQuestion(c, i, traces[i])
  <2>1. error = FALSE
    BY <1>1, InLoop
  <2>2. QED
    BY <1>1, <1>2, <2>1, InLoop DEF EventsOf
<1>4. PICK n \in Nat : n = Len(traces) + 1
  BY <1>3
<1>5. n \in 1..Len(c.plan) /\ n = Len(log)
  BY <1>1, <1>2, <1>3, <1>4, PlanShape
<1>6. PICK q \in Questions : q = c.plan[n]
  BY <1>5, PlanShape
<1>7. /\ ~Mismatch(Observed(call, q), q) /\ Rest(Observed(call, q)) = <<>>
      /\ Taken(Observed(call, q)) \in {None, Text[q]}
      /\ Taken(Observed(call, q)) # None => c.observed
      /\ call = "valid" /\ c.observed => Taken(Observed(call, q)) # None
  BY <1>2, <1>3, OwnObservation
<1>8. PICK seen \in Texts \cup {None} : seen = Taken(Observed(call, q))
  BY <1>7 DEF Texts
<1>9. PICK status \in {"completed", "failed"} :
        status = IF call = "valid" THEN "completed" ELSE "failed"
  OBVIOUS
<1>10. PICK score \in Nat :
         /\ pending' = <<>> /\ traces' = Append(traces, Answered(q, status, score, seen))
         /\ error' = (status = "failed") /\ out' = Answered(q, status, score, seen)
         /\ pc' = "write"
  <2>1. config.plan[Len(traces) + 1] = q
    BY <1>2, <1>4, <1>6
  <2>2. \E score \in IF call = "valid" THEN Scores ELSE {0} :
          /\ pending' = <<>> /\ traces' = Append(traces, Answered(q, status, score, seen))
          /\ error' = FailsFast(status) /\ out' = Answered(q, status, score, seen)
          /\ pc' = "write"
    BY <1>7, <1>8, <1>9, <2>1, Zenon DEF Ask
  <2>3. \A score \in IF call = "valid" THEN Scores ELSE {0} : score \in Nat
    BY ScoreAssumption
  <2>4. QED
    BY <2>2, <2>3 DEF FailsFast
<1>11. PICK e \in EventRecords : e = Answered(q, status, score, seen)
  BY AnsweredIsEvent
<1>12. IsQuestion(c, n, e)
  <2>1. /\ e.kind = "QUESTION" /\ e.qid = q /\ e.seen = seen
        /\ e.body = [status |-> status, score |-> score]
    BY <1>11, AnsweredIsEvent
  <2>2. e.body \in [status : {"completed", "failed"}, score : Nat] /\ e.body.status = status
    BY <2>1
  <2>3. seen \in {None, Text[q]} /\ (seen # None => c.observed)
        /\ (status = "completed" /\ c.observed => seen # None)
    BY <1>7, <1>8, <1>9
  <2>4. QED
    BY <1>5, <1>6, <1>11, <2>1, <2>2, <2>3 DEF IsQuestion
<1>13. EventsOf(c, Append(log, e))
  BY <1>3, <1>4, <1>5, <1>12, NextEvent
<1>14. Traced(Append(log, out))'
  <2>1. Len(Append(log, e)) = Len(Append(traces, e)) + 1
        /\ \A i \in DOMAIN Append(traces, e) : Append(log, e)[i + 1] = Append(traces, e)[i]
    BY <1>3, StillTraced DEF Traced
  <2>2. log' = log /\ out' = e /\ traces' = Append(traces, e)
    BY <1>1, <1>10, <1>11 DEF files
  <2>3. QED
    BY <2>1, <2>2 DEF Traced
<1>15. BookFit'
  BY <1>1, SameBook DEF Inv, BookFit, Artifacts, files
<1>16. ProcessFit'
  <2>1. /\ dir' /\ config' = c /\ Book(c, log)' /\ run_json' = None /\ manifest' = None
        /\ Delivered(c, log)' /\ log' = log /\ out' = e /\ pc' = "write"
    BY <1>1, <1>2, <1>3, <1>10, <1>11 DEF files, Book, Delivered
  <2>2. EventsOf(config, Append(log, out))'
    BY <1>13, <2>1 DEF EventsOf
  <2>3. QED
    BY <1>14, <2>1, <2>2 DEF ProcessFit
<1>17. MemoryFit'
  <2>1. /\ traces' = Append(traces, e) /\ pending' = <<>> /\ out' = e /\ pc' = "write"
        /\ config' = c /\ warmed' = warmed /\ warmed' = config'.warmups
    BY <1>1, <1>2, <1>10, <1>11
  <2>2. error' \in BOOLEAN
    BY <1>10
  <2>3. traces' \in Seq(EventRecords) /\ <<>> \in Seq(Texts)
    BY <1>3, <2>1, AppendProperties
  <2>4. \A i \in DOMAIN traces' : IsQuestion(c, i, traces'[i])
    <3>1. DOMAIN traces = 1..(n - 1) /\ n - 1 = Len(traces)
      BY <1>3, <1>4, LenProperties
    <3>2. /\ DOMAIN traces' = 1..n /\ traces'[n] = e
          /\ \A i \in 1..(n - 1) : traces'[i] = traces[i]
      BY <1>3, <1>4, <2>1, AppendProperties, LenProperties
    <3>3. \A i \in 1..n : i = n \/ i \in 1..(n - 1)
      BY <1>4
    <3>4. QED
      BY <1>3, <1>12, <3>1, <3>2, <3>3
  <2>5. QED
    BY <1>3, <2>1, <2>2, <2>3, <2>4 DEF MemoryFit, Running
<1>18. QED
  BY <1>1, <1>15, <1>16, <1>17 DEF Inv, files
-----------------------------------------------------------------------------
(* The end of the loop *)

\* The aggregate over the traces is a natural number.
LEMMA TotalIsNat ==
  ASSUME traces \in Seq(EventRecords),
         \A i \in DOMAIN traces : traces[i].body.score \in Nat
  PROVE  Total \in Nat
<1> DEFINE Points(i) == {traces[i].qid} \X (1..traces[i].body.score)
           S == {Points(i) : i \in DOMAIN traces}
           f == [i \in DOMAIN traces |-> Points(i)]
<1>1. IsFiniteSet(DOMAIN traces)
  <2>1. Len(traces) \in Nat /\ DOMAIN traces = 1..Len(traces)
    BY LenProperties
  <2>2. QED
    BY <2>1, FS_Interval
<1>2. IsFiniteSet(S)
  <2>1. f \in Surjection(DOMAIN traces, S)
    <3>1. f \in [DOMAIN traces -> S]
      OBVIOUS
    <3>2. \A T \in S : \E i \in DOMAIN traces : f[i] = T
      OBVIOUS
    <3>3. QED
      BY <3>1, <3>2 DEF Surjection
  <2>2. QED
    BY <1>1, <2>1, FS_Surjection
<1>3. \A T \in S : IsFiniteSet(T)
  <2>1. TAKE T \in S
  <2>2. PICK i \in DOMAIN traces : T = Points(i)
    OBVIOUS
  <2>3. PICK m \in Nat : m = traces[i].body.score
    OBVIOUS
  <2>4. IsFiniteSet({traces[i].qid}) /\ IsFiniteSet(1..m)
    <3>1. IsFiniteSet({traces[i].qid})
      BY FS_Singleton, Zenon
    <3>2. 1 \in Int /\ m \in Int
      OBVIOUS
    <3>3. IsFiniteSet(1..m)
      BY <3>2, FS_Interval
    <3>4. QED
      BY <3>1, <3>3
  <2>5. IsFiniteSet({traces[i].qid} \X (1..m))
    BY <2>4, FS_Product
  <2>6. QED
    BY <2>2, <2>3, <2>5
<1>4. IsFiniteSet(UNION S)
  BY <1>2, <1>3, FS_UNION
<1>5. Cardinality(UNION S) \in Nat
  BY <1>4, FS_CardinalityType
<1>6. QED
  BY <1>5 DEF Total

\* The summary counts every measured question once.
LEMMA SummaryIsSummary ==
  ASSUME Inv, pc = "evaluate"
  PROVE  /\ Summary \in Summaries /\ Summary.meta = config
         /\ Summary.completed + Summary.failed = Len(traces)
<1>1. /\ config \in Configs /\ traces \in Seq(EventRecords) /\ Len(traces) \in Nat
      /\ \A i \in DOMAIN traces : IsQuestion(config, i, traces[i])
      /\ warmed \in Nat /\ DOMAIN traces = 1..Len(traces)
  BY InLoop, LenProperties
<1>2. IsFiniteSet(1..Len(traces)) /\ Cardinality(1..Len(traces)) = Len(traces)
  BY <1>1, FS_Interval
<1>3. Completed \in SUBSET (1..Len(traces))
  BY <1>1 DEF Completed
<1>4. Cardinality(Completed) \in Nat /\ Cardinality(Completed) <= Len(traces)
  <2>1. IsFiniteSet(Completed) /\ Cardinality(Completed) <= Cardinality(1..Len(traces))
    BY <1>2, <1>3, FS_Subset
  <2>2. QED
    BY <1>2, <2>1, FS_CardinalityType
<1>5. PICK k \in Nat : k = Cardinality(Completed) /\ k <= Len(traces)
  BY <1>4
<1>6. Len(config.plan) \in Nat /\ Len(traces) <= Len(config.plan)
  <2>1. Len(config.plan) \in Nat
    BY <1>1, PlanShape
  <2>2. Len(traces) # 0 => Len(traces) \in 1..Len(config.plan)
    BY <1>1 DEF IsQuestion
  <2>3. QED
    BY <1>1, <2>1, <2>2
<1>7. \A i \in DOMAIN traces : traces[i].body.score \in Nat
  BY <1>1 DEF IsQuestion
<1>8. PICK total \in Nat : total = Total
  BY <1>1, <1>7, TotalIsNat
<1>9. PICK status \in {"completed", "failed"} : status = IF error THEN "failed" ELSE "completed"
  OBVIOUS
<1>10. PICK full \in BOOLEAN : full = (~error /\ Len(traces) = config.full)
  OBVIOUS
<1>11. /\ Len(traces) - k \in Nat /\ Len(config.plan) - Len(traces) \in Nat
       /\ k + (Len(traces) - k) = Len(traces)
  BY <1>1, <1>5, <1>6
<1>12. Summary = [meta |-> config, status |-> status, completed |-> k,
                  failed |-> Len(traces) - k, unattempted |-> Len(config.plan) - Len(traces),
                  warm |-> warmed, full |-> full, total |-> total]
  BY <1>5, <1>8, <1>9, <1>10, Zenon DEF Summary
<1>13. QED
  BY <1>1, <1>11, <1>12 DEF Summaries

\* The finish event is the next one; only a failed warmup leaves something in the buffer.
LEMMA SummarizeKeeps ==
  ASSUME Inv, Summarize
  PROVE  Inv'
<1>1. pc = "evaluate" /\ UNCHANGED <<config, files, stored, memory>>
  BY DEF Summarize
<1>2. PICK c \in Configs : c = config
  BY <1>1, InLoop
<1>3. /\ dir /\ Book(c, log) /\ EventsOf(c, log) /\ log \in Seq(EventRecords) /\ log # <<>>
      /\ run_json = None /\ manifest = None /\ Delivered(c, log) /\ Traced(log)
      /\ Len(traces) \in Nat /\ Len(log) = Len(traces) + 1 /\ log[Len(log)].kind # "FINISH"
      /\ error = FALSE \/ traces # <<>> => pending = <<>>
      /\ error \in BOOLEAN /\ DOMAIN log = 1..Len(log)
  BY <1>1, <1>2, InLoop DEF EventsOf
<1>4. CASE pending = <<>>
  <2>1. pc' = "write" /\ out' = Finish(Summary)
    BY <1>4 DEF Summarize
  <2>2. PICK s \in Summaries : s = Summary /\ s.meta = c /\ s.completed + s.failed = Len(traces)
    BY <1>1, <1>2, SummaryIsSummary
  <2>3. PICK e \in EventRecords : e = Finish(s) /\ e.kind = "FINISH"
    BY FinishIsEvent
  <2>4. IsFinish(c, Len(log) - 1, e)
    BY <1>3, <2>2, <2>3 DEF IsFinish
  <2>5. EventsOf(c, Append(log, e))
    BY <1>3, <2>4, NextEvent
  <2>6. BookFit'
    BY <1>1, SameBook DEF Inv, BookFit, Artifacts, files
  <2>7. MemoryFit'
    BY <1>1, <2>1, <2>2, <2>3, MemoryStays DEF Inv, Running
  <2>8. ProcessFit'
    <3>1. /\ dir' /\ config' = c /\ Book(c, log)' /\ run_json' = None /\ manifest' = None
          /\ Delivered(c, log)' /\ log' = log /\ out' = e /\ pc' = "write"
      BY <1>1, <1>2, <1>3, <2>1, <2>2, <2>3 DEF files, Book, Delivered
    <3>2. EventsOf(config, Append(log, out))'
      BY <2>5, <3>1 DEF EventsOf
    <3>3. QED
      BY <2>3, <3>1, <3>2 DEF ProcessFit
  <2>9. QED
    BY <1>1, <2>6, <2>7, <2>8 DEF Inv, files
<1>5. CASE pending # <<>>
  <2>1. pc' = "buffer_error" /\ out' = out
    BY <1>5 DEF Summarize
  <2>2. error = TRUE /\ traces = <<>>
    BY <1>3, <1>5
  <2>3. log[1] = Start(c) /\ Len(log) = 1
    BY <1>3, <2>2 DEF EventsOf
  <2>4. log = <<Start(c)>>
    <3>1. /\ <<Start(c)>> \in Seq(EventRecords) /\ Len(<<Start(c)>>) = 1
          /\ \A i \in 1..1 : log[i] = <<Start(c)>>[i]
      BY <2>3, StartIsEvent
    <3>2. QED
      BY <1>3, <2>3, <3>1, SeqEqual
  <2>5. Book(config, log)'
    BY <1>1, <1>2, <1>3 DEF Book, files
  <2>6. log' \in Seq(EventRecords)
    BY <1>1, <1>3 DEF files
  <2>7. error /\ log' = <<Start(config)>>
    BY <1>1, <1>2, <2>2, <2>4 DEF files
  <2>8. QED
    BY <1>1, <2>1, <2>5, <2>6, <2>7, EndKeeps DEF files, Running, Ended
<1>6. QED
  BY <1>4, <1>5
-----------------------------------------------------------------------------
(* The files and the store *)

\* A line of the next event, written whole or torn.
LEMMA LineWritten ==
  ASSUME NEW c \in Configs, NEW t, Book(c, t), log = t, run_json = None, manifest = None,
         Delivered(c, t),
         NEW e \in EventRecords, EventsOf(c, Append(t, e)),
         UNCHANGED <<run_json, manifest, stored>>
  PROVE  /\ log' = Append(t, e) => Book(c, Append(t, e))'
         /\ log' = Append(t, Torn) => Book(c, t)'
<1>1. /\ t \in Seq(EventRecords) /\ Len(t) \in Nat /\ DOMAIN t = 1..Len(t)
      /\ stored \in Seq(EventRecords) /\ Len(stored) \in Nat /\ DOMAIN stored = 1..Len(stored)
  BY BookShape
<1>2. /\ Len(Append(t, e)) = Len(t) + 1 /\ \A i \in 1..Len(t) : Append(t, e)[i] = t[i]
  BY <1>1, AppendProperties
<1>3. Len(stored) <= Len(t) /\ \A i \in DOMAIN stored : stored[i] = t[i]
  BY DEF Book
<1>4. \A i \in DOMAIN stored : stored[i] = Append(t, e)[i]
  BY <1>1, <1>2, <1>3
<1>5. Len(stored) <= Len(t) + 1
  BY <1>1, <1>3
<1>6. c.downstream => Len(t) + 1 <= Len(stored) + 1
  <2>1. SUFFICES ASSUME c.downstream PROVE Len(t) + 1 <= Len(stored) + 1
    OBVIOUS
  <2>2. Len(stored) = Len(t)
    BY <2>1 DEF Delivered
  <2>3. QED
    BY <1>1, <2>2
<1>7. ASSUME log' = Append(t, e)
      PROVE  Book(c, Append(t, e))'
  BY <1>1, <1>2, <1>4, <1>5, <1>6, <1>7 DEF Book
<1>8. ASSUME log' = Append(t, Torn)
      PROVE  Book(c, t)'
  BY <1>8 DEF Book
<1>9. QED
  BY <1>7, <1>8

\* The event in delivery is stored.
LEMMA EventStored ==
  ASSUME NEW c \in Configs, NEW t, Book(c, t), log = t, run_json = None, manifest = None,
         Len(t) = Len(stored) + 1, stored' = Append(stored, t[Len(t)]),
         UNCHANGED <<log, run_json, manifest>>
  PROVE  Book(c, t)' /\ Len(stored)' = Len(t)
<1>1. /\ t \in Seq(EventRecords) /\ Len(t) \in Nat /\ DOMAIN t = 1..Len(t)
      /\ stored \in Seq(EventRecords) /\ Len(stored) \in Nat /\ DOMAIN stored = 1..Len(stored)
  BY BookShape
<1>2. PICK e \in EventRecords : e = t[Len(t)]
  <2>1. Len(t) \in DOMAIN t
    BY <1>1
  <2>2. QED
    BY <1>1, <2>1
<1>3. /\ Append(stored, e) \in Seq(EventRecords) /\ Len(Append(stored, e)) = Len(stored) + 1
      /\ \A i \in 1..Len(stored) : Append(stored, e)[i] = stored[i]
      /\ Append(stored, e)[Len(stored) + 1] = e
      /\ DOMAIN Append(stored, e) = 1..(Len(stored) + 1)
  BY <1>1, AppendProperties, LenProperties
<1>4. \A i \in DOMAIN stored : stored[i] = t[i]
  BY DEF Book
<1>5. \A i \in DOMAIN Append(stored, e) : Append(stored, e)[i] = t[i]
  <2>1. \A i \in 1..(Len(stored) + 1) : i \in 1..Len(stored) \/ i = Len(stored) + 1
    BY <1>1
  <2>2. QED
    BY <1>1, <1>2, <1>3, <1>4, <2>1
<1>6. Len(stored') = Len(t) /\ stored' = Append(stored, e)
  BY <1>2, <1>3
<1>7. EventsOf(c, t)
  BY DEF Book
<1>8. QED
  BY <1>1, <1>3, <1>5, <1>6, <1>7 DEF Book

\* run.json is written, whole or torn, after the finish event.
LEMMA RunWritten ==
  ASSUME NEW c \in Configs, NEW t, Book(c, t), log = t, run_json = None, manifest = None,
         t # <<>>, Delivered(c, t),
         NEW s \in Summaries, t[Len(t)] = Finish(s), run_json' \in {Torn, s},
         UNCHANGED <<log, manifest, stored>>
  PROVE  Book(c, t)'
BY DEF Book, Delivered

\* manifest.json is written, whole or torn, after run.json.
LEMMA ManifestWritten ==
  ASSUME NEW c \in Configs, NEW t, Book(c, t), log = t, run_json \notin {None, Torn},
         manifest = None, manifest' \in {Torn, [events |-> log, run |-> run_json]},
         UNCHANGED <<log, run_json, stored>>
  PROVE  Book(c, t)'
BY DEF Book, Delivered

\* A process with its finish event written.
LEMMA AtFinish ==
  ASSUME Inv, pc \in {"run.json", "manifest.json", "load"}
  PROVE  /\ dir /\ config \in Configs /\ Book(config, log) /\ log \in Seq(EventRecords)
         /\ log # <<>> /\ Delivered(config, log)
         /\ out.body \in Summaries /\ log[Len(log)] = Finish(out.body)
         /\ out = log[Len(log)] /\ out.kind = "FINISH"
         /\ pc = "run.json" => run_json = None
         /\ pc # "load" => manifest = None
         /\ pc = "manifest.json" => run_json = out.body /\ run_json \notin {None, Torn}
         /\ pc = "load" => manifest \notin {None, Torn}
<1>1. pc \in Running /\ pc # "deliver"
  BY DEF Running
<1>2. /\ dir /\ config \in Configs /\ Book(config, log) /\ log # <<>> /\ Delivered(config, log)
      /\ out = log[Len(log)] /\ out.kind = "FINISH"
      /\ pc = "run.json" => run_json = None
      /\ pc # "load" => manifest = None
      /\ pc = "manifest.json" => run_json = out.body
      /\ pc = "load" => manifest \notin {None, Torn}
  BY <1>1 DEF Inv, ProcessFit
<1>3. PICK s \in Summaries : log[Len(log)] = Finish(s)
  <2>1. EventsOf(config, log)
    BY <1>2 DEF Book
  <2>2. QED
    BY <1>2, <2>1, FinishedRun
<1>4. out.body = s
  BY <1>2, <1>3, FinishIsEvent
<1>5. s # None /\ s # Torn
  BY NoneAssumption
<1>6. log \in Seq(EventRecords)
  BY <1>2 DEF Book, EventsOf
<1>7. QED
  BY <1>2, <1>3, <1>4, <1>5, <1>6

\* A process about to write an event.
LEMMA AtWrite ==
  ASSUME Inv, pc = "write"
  PROVE  /\ dir /\ config \in Configs /\ Book(config, log) /\ log \in Seq(EventRecords)
         /\ run_json = None /\ manifest = None /\ Delivered(config, log)
         /\ out \in EventRecords /\ EventsOf(config, Append(log, out))
         /\ out.kind # "FINISH" => Traced(Append(log, out))
<1>1. pc \in Running
  BY DEF Running
<1>2. QED
  BY <1>1 DEF Inv, ProcessFit, Book, EventsOf

\* A process whose event is written and not yet acknowledged.
LEMMA AtDeliver ==
  ASSUME Inv, pc = "deliver"
  PROVE  /\ dir /\ config \in Configs /\ Book(config, log) /\ log \in Seq(EventRecords)
         /\ run_json = None /\ manifest = None /\ config.downstream
         /\ log # <<>> /\ out = log[Len(log)] /\ Len(log) = Len(stored) + 1
         /\ out.kind # "FINISH" => Traced(log)
         /\ out \in EventRecords
<1>1. pc \in Running
  BY DEF Running
<1>2. /\ dir /\ config \in Configs /\ Book(config, log) /\ log \in Seq(EventRecords)
      /\ run_json = None /\ manifest = None /\ config.downstream
      /\ log # <<>> /\ out = log[Len(log)] /\ Len(log) = Len(stored) + 1
      /\ out.kind # "FINISH" => Traced(log)
  BY <1>1 DEF Inv, ProcessFit, Book, EventsOf
<1>3. Len(log) \in DOMAIN log
  BY <1>2, EmptySeq, LenProperties
<1>4. QED
  BY <1>2, <1>3

\* After an event a process goes on with the loop or with the files.
LEMMA EmittedKeeps ==
  ASSUME NEW c \in Configs, NEW t \in Seq(EventRecords), dir', config' = c, log' = t, t # <<>>,
         Book(c, t)', run_json' = None, manifest' = None, Delivered(c, t)',
         out' = t[Len(t)], out'.kind # "FINISH" => Traced(t)', pc' = Emitted'
  PROVE  BookFit' /\ ProcessFit' /\ pc' \in {"evaluate", "run.json"}
<1>1. BookFit'
  BY DEF BookFit
<1>2. Book(config, log)' /\ Delivered(config, log)'
  BY DEF Book, Delivered
<1>3. CASE out'.kind = "FINISH"
  <2>1. pc' = "run.json"
    BY <1>3 DEF Emitted
  <2>2. QED
    BY <1>1, <1>2, <1>3, <2>1 DEF ProcessFit
<1>4. CASE out'.kind # "FINISH"
  <2>1. pc' = "evaluate"
    BY <1>4 DEF Emitted
  <2>2. Traced(log)'
    BY <1>4 DEF Traced
  <2>3. QED
    BY <1>1, <1>2, <2>1, <2>2 DEF ProcessFit
<1>5. QED
  BY <1>3, <1>4

\* The event of memory becomes the last line of the export.
LEMMA WriteKeeps ==
  ASSUME Inv, Write
  PROVE  Inv'
<1>1. /\ pc = "write" /\ log' = Append(log, out)
      /\ UNCHANGED <<config, dir, run_json, manifest, stored, memory, out>>
  BY DEF Write
<1>2. PICK c \in Configs : c = config
  BY <1>1, AtWrite
<1>3. /\ dir /\ Book(c, log) /\ log \in Seq(EventRecords)
      /\ run_json = None /\ manifest = None /\ Delivered(c, log)
      /\ out \in EventRecords /\ EventsOf(c, Append(log, out))
      /\ out.kind # "FINISH" => Traced(Append(log, out))
  BY <1>1, <1>2, AtWrite
<1>4. PICK t \in Seq(EventRecords) : t = Append(log, out)
  BY <1>3, AppendProperties
<1>5. /\ Len(t) = Len(log) + 1 /\ t # <<>> /\ t[Len(t)] = out
  BY <1>3, <1>4, AppendProperties
<1>6. Book(c, t)'
  <2>1. PICK s : s = log
    OBVIOUS
  <2>2. PICK e : e = out
    OBVIOUS
  <2>3. Book(c, Append(s, e))'
    BY <1>1, <1>3, <2>1, <2>2, LineWritten
  <2>4. QED
    BY <1>4, <2>1, <2>2, <2>3
<1>7. /\ dir' /\ config' = c /\ log' = t /\ run_json' = None /\ manifest' = None
      /\ out' = t[Len(t)] /\ out' \in EventRecords
      /\ out'.kind # "FINISH" => Traced(t)'
  <2>1. Traced(t) => Traced(t)'
    BY <1>1 DEF Traced, memory
  <2>2. QED
    BY <1>1, <1>2, <1>3, <1>4, <1>5, <2>1
<1>8. CASE c.downstream
  <2>1. pc' = "deliver"
    BY <1>2, <1>8 DEF Write
  <2>2. Len(log') = Len(stored') + 1
    <3>1. Len(stored) = Len(log)
      BY <1>3, <1>8 DEF Delivered
    <3>2. QED
      BY <1>1, <1>4, <1>5, <3>1
  <2>3. BookFit'
    BY <1>6, <1>7 DEF BookFit
  <2>4. Traced(log)' <=> Traced(t)'
    BY <1>7 DEF Traced
  <2>5. Book(config, log)'
    BY <1>6, <1>7 DEF Book
  <2>6. ProcessFit'
    BY <1>5, <1>7, <1>8, <2>1, <2>2, <2>4, <2>5 DEF ProcessFit
  <2>7. MemoryFit'
    BY <1>1, <1>7, <2>1, MemoryStays DEF Inv, Running
  <2>8. QED
    BY <1>7, <2>3, <2>6, <2>7 DEF Inv
<1>9. CASE ~c.downstream
  <2>1. pc' = Emitted'
    BY <1>1, <1>2, <1>9 DEF Write, Emitted
  <2>2. Delivered(c, t)'
    BY <1>9 DEF Delivered
  <2>3. BookFit' /\ ProcessFit' /\ pc' \in {"evaluate", "run.json"}
    BY <1>5, <1>6, <1>7, <2>1, <2>2, EmittedKeeps
  <2>4. MemoryFit'
    BY <1>1, <1>7, <2>3, MemoryStays DEF Inv, Running
  <2>5. QED
    BY <1>7, <2>3, <2>4 DEF Inv
<1>10. QED
  BY <1>8, <1>9

\* The store has caught up with the export.
LEMMA DeliverKeeps ==
  ASSUME Inv, Deliver
  PROVE  Inv'
<1>1. /\ pc = "deliver" /\ stored' = Append(stored, out) /\ pc' = Emitted
      /\ UNCHANGED <<config, files, memory, out>>
  BY DEF Deliver
<1>2. PICK c \in Configs : c = config
  BY <1>1, AtDeliver
<1>3. PICK t \in Seq(EventRecords) : t = log
  BY <1>1, AtDeliver
<1>4. /\ dir /\ Book(c, t) /\ run_json = None /\ manifest = None
      /\ t # <<>> /\ out = t[Len(t)] /\ Len(t) = Len(stored) + 1
      /\ out.kind # "FINISH" => Traced(t)
      /\ out \in EventRecords
  BY <1>1, <1>2, <1>3, AtDeliver
<1>5. Book(c, t)' /\ Len(stored)' = Len(t)
  BY <1>1, <1>3, <1>4, EventStored DEF files
<1>6. Delivered(c, t)'
  BY <1>5 DEF Delivered
<1>7. Traced(t)' <=> Traced(t)
  BY <1>1 DEF Traced, memory
<1>8. BookFit' /\ ProcessFit' /\ pc' \in {"evaluate", "run.json"}
  <2>1. pc' = Emitted'
    BY <1>1 DEF Emitted
  <2>2. /\ dir' /\ config' = c /\ log' = t /\ run_json' = None /\ manifest' = None
        /\ out' = t[Len(t)]
        /\ out'.kind # "FINISH" => Traced(t)'
    BY <1>1, <1>2, <1>3, <1>4, <1>7 DEF files
  <2>3. QED
    BY <1>4, <1>5, <1>6, <2>1, <2>2, EmittedKeeps
<1>9. MemoryFit'
  BY <1>1, <1>4, <1>8, MemoryStays DEF Inv, Running
<1>10. QED
  BY <1>1, <1>8, <1>9 DEF Inv, files

\* run.json holds the summary of the finish event.
LEMMA WriteRunKeeps ==
  ASSUME Inv, WriteRun
  PROVE  Inv'
<1>1. /\ pc = "run.json" /\ run_json' = out.body /\ pc' = "manifest.json"
      /\ UNCHANGED <<config, dir, log, manifest, stored, memory, out>>
  BY DEF WriteRun
<1>2. PICK c \in Configs : c = config
  BY <1>1, AtFinish
<1>3. PICK t \in Seq(EventRecords) : t = log
  BY <1>1, AtFinish
<1>4. PICK s \in Summaries : s = out.body
  BY <1>1, AtFinish
<1>5. /\ dir /\ Book(c, t) /\ run_json = None /\ manifest = None /\ Delivered(c, t)
      /\ t # <<>> /\ out = t[Len(t)] /\ out.kind = "FINISH" /\ t[Len(t)] = Finish(s)
  BY <1>1, <1>2, <1>3, <1>4, AtFinish
<1>6. Book(c, t)'
  BY <1>1, <1>3, <1>4, <1>5, RunWritten
<1>7. BookFit'
  BY <1>1, <1>5, <1>6 DEF BookFit
<1>8. ProcessFit'
  <2>1. Book(config, log)' /\ Delivered(config, log)'
    BY <1>1, <1>2, <1>3, <1>5, <1>6 DEF Book, Delivered
  <2>2. QED
    BY <1>1, <1>2, <1>3, <1>5, <2>1 DEF ProcessFit
<1>9. out \in EventRecords
  BY <1>4, <1>5, FinishIsEvent
<1>10. MemoryFit'
  BY <1>1, <1>9, MemoryStays DEF Inv, Running
<1>11. QED
  BY <1>1, <1>7, <1>8, <1>10 DEF Inv

\* The manifest describes the files as they are.
LEMMA WriteManifestKeeps ==
  ASSUME Inv, WriteManifest
  PROVE  Inv'
<1>1. /\ pc = "manifest.json" /\ manifest' = [events |-> log, run |-> run_json]
      /\ pc' = "load"
      /\ UNCHANGED <<config, dir, log, run_json, stored, memory, out>>
  BY DEF WriteManifest
<1>2. PICK c \in Configs : c = config
  BY <1>1, AtFinish
<1>3. PICK t \in Seq(EventRecords) : t = log
  BY <1>1, AtFinish
<1>4. PICK s \in Summaries : s = out.body
  BY <1>1, AtFinish
<1>5. /\ dir /\ Book(c, t) /\ run_json \notin {None, Torn} /\ manifest = None
      /\ Delivered(c, t) /\ run_json = s
      /\ t # <<>> /\ out = t[Len(t)] /\ out.kind = "FINISH" /\ t[Len(t)] = Finish(s)
  BY <1>1, <1>2, <1>3, <1>4, AtFinish
<1>6. Book(c, t)'
  BY <1>1, <1>3, <1>5, ManifestWritten
<1>7. manifest' \notin {None, Torn}
  <2>1. manifest' \in Manifests
    BY <1>1, <1>3, <1>5 DEF Manifests
  <2>2. QED
    BY <2>1, NoneAssumption
<1>8. BookFit'
  BY <1>1, <1>5, <1>6 DEF BookFit
<1>9. ProcessFit'
  <2>1. Book(config, log)' /\ Delivered(config, log)'
    BY <1>1, <1>2, <1>3, <1>5, <1>6 DEF Book, Delivered
  <2>2. QED
    BY <1>1, <1>2, <1>3, <1>5, <1>7, <2>1 DEF ProcessFit
<1>10. out \in EventRecords
  BY <1>4, <1>5, FinishIsEvent
<1>11. MemoryFit'
  BY <1>1, <1>10, MemoryStays DEF Inv, Running
<1>12. QED
  BY <1>1, <1>8, <1>9, <1>11 DEF Inv
-----------------------------------------------------------------------------
(* Failures *)

\* A running process has a book.
LEMMA RunningBook ==
  ASSUME Inv, pc \in Running
  PROVE  dir /\ config \in Configs /\ Book(config, log) /\ log \in Seq(EventRecords)
BY DEF Inv, ProcessFit, Book, EventsOf

\* Whatever an interrupted operation leaves behind is a book.
LEMMA InterruptedBook ==
  ASSUME Inv, pc \in Running, Interrupted, UNCHANGED config,
         stored' = stored \/ (pc = "deliver" /\ stored' = Append(stored, out))
  PROVE  dir' = dir /\ \E t \in Seq(EventRecords) : Book(config, t)'
<1>1. PICK c \in Configs : c = config
  BY RunningBook
<1>2. PICK t \in Seq(EventRecords) : t = log
  BY RunningBook
<1>3. dir /\ Book(c, t)
  BY <1>1, <1>2, RunningBook
<1>4. SUFFICES dir' = dir /\ \E u \in Seq(EventRecords) : Book(c, u)'
  BY <1>1 DEF Book
<1>5. CASE UNCHANGED files /\ stored' = stored
  <2>1. Book(c, t)'
    BY <1>3, <1>5, SameBook DEF Artifacts, files
  <2>2. QED
    BY <1>5, <2>1 DEF files
<1>6. CASE pc = "deliver" /\ stored' = Append(stored, out)
  <2>1. UNCHANGED files
    BY <1>6 DEF Interrupted
  <2>2. /\ run_json = None /\ manifest = None /\ out = t[Len(t)] /\ Len(t) = Len(stored) + 1
    BY <1>2, <1>6, AtDeliver
  <2>3. Book(c, t)'
    BY <1>2, <1>3, <1>6, <2>1, <2>2, EventStored DEF files
  <2>4. QED
    BY <2>1, <2>3 DEF files
<1>7. CASE /\ pc = "write" /\ log' \in {Append(log, Torn), Append(log, out)}
           /\ UNCHANGED <<dir, run_json, manifest, stored>>
  <2>1. /\ run_json = None /\ manifest = None /\ Delivered(c, t)
        /\ out \in EventRecords /\ EventsOf(c, Append(t, out))
    BY <1>1, <1>2, <1>7, AtWrite
  <2>2. PICK e \in EventRecords : e = out
    BY <2>1
  <2>3. /\ log' = Append(t, e) => Book(c, Append(t, e))'
        /\ log' = Append(t, Torn) => Book(c, t)'
    BY <1>2, <1>3, <1>7, <2>1, <2>2, LineWritten
  <2>4. Append(t, e) \in Seq(EventRecords)
    BY AppendProperties
  <2>5. log' = Append(t, Torn) \/ log' = Append(t, e)
    BY <1>2, <1>7, <2>2
  <2>6. QED
    BY <1>7, <2>3, <2>4, <2>5
<1>8. CASE /\ pc = "run.json" /\ run_json' \in {Torn, out.body}
           /\ UNCHANGED <<dir, log, manifest, stored>>
  <2>1. PICK s \in Summaries : s = out.body
    BY <1>8, AtFinish
  <2>2. /\ run_json = None /\ manifest = None /\ Delivered(c, t) /\ t # <<>>
        /\ t[Len(t)] = Finish(s)
    BY <1>1, <1>2, <1>8, <2>1, AtFinish
  <2>3. Book(c, t)'
    BY <1>2, <1>3, <1>8, <2>1, <2>2, RunWritten
  <2>4. QED
    BY <1>8, <2>3
<1>9. CASE /\ pc = "manifest.json" /\ manifest' \in {Torn, [events |-> log, run |-> run_json]}
           /\ UNCHANGED <<dir, log, run_json, stored>>
  <2>1. run_json \notin {None, Torn} /\ manifest = None
    BY <1>9, AtFinish
  <2>2. Book(c, t)'
    BY <1>2, <1>3, <1>9, <2>1, ManifestWritten
  <2>3. QED
    BY <1>9, <2>2
<1>10. QED
  BY <1>5, <1>6, <1>7, <1>8, <1>9 DEF Interrupted, files

\* The downstream sink raises.
LEMMA DeliveryFailsKeeps ==
  ASSUME Inv, DeliveryFails
  PROVE  Inv'
<1>1. /\ pc = "deliver" /\ stored' \in {stored, Append(stored, out)} /\ pc' = "sink_error"
      /\ UNCHANGED <<config, files, memory, out>>
  BY DEF DeliveryFails
<1>2. pc \in Running /\ pc' \in Ended /\ pc' # "buffer_error"
  BY <1>1 DEF Running, Ended
<1>3. Interrupted
  BY <1>1 DEF Interrupted
<1>4. \E t \in Seq(EventRecords) : Book(config, t)'
  BY <1>1, <1>2, <1>3, InterruptedBook
<1>5. QED
  BY <1>1, <1>2, <1>4, EndKeeps DEF files

\* A write raises.
LEMMA WriteFailsKeeps ==
  ASSUME Inv, WriteFails
  PROVE  Inv'
<1>1. /\ pc \in {"write", "run.json", "manifest.json"} /\ Interrupted /\ pc' = "sink_error"
      /\ UNCHANGED <<config, stored, memory, out>>
  BY DEF WriteFails
<1>2. pc \in Running /\ pc' \in Ended /\ pc' # "buffer_error"
  BY <1>1 DEF Running, Ended
<1>3. dir' = dir /\ \E t \in Seq(EventRecords) : Book(config, t)'
  BY <1>1, <1>2, InterruptedBook
<1>4. QED
  BY <1>1, <1>2, <1>3, EndKeeps

\* The process dies.
LEMMA CrashKeeps ==
  ASSUME Inv, Crash
  PROVE  Inv'
<1>1. /\ pc \in Running /\ Interrupted /\ pc' = "crashed"
      /\ stored' = stored \/ (pc = "deliver" /\ stored' = Append(stored, out))
      /\ UNCHANGED <<config, memory, out>>
  BY DEF Crash
<1>2. pc' \in Ended /\ pc' # "buffer_error"
  BY <1>1 DEF Ended
<1>3. dir' = dir /\ \E t \in Seq(EventRecords) : Book(config, t)'
  BY <1>1, InterruptedBook
<1>4. QED
  BY <1>1, <1>2, <1>3, EndKeeps

\* A finalized export is always accepted.
LEMMA LoadKeeps ==
  ASSUME Inv, Load
  PROVE  Inv'
<1>1. pc = "load" /\ UNCHANGED <<config, files, stored, memory, out>>
  BY DEF Load
<1>2. /\ config \in Configs /\ Book(config, log) /\ manifest \notin {None, Torn}
      /\ log \in Seq(EventRecords)
  BY <1>1, AtFinish
<1>3. PICK c \in Configs, t \in Seq(EventRecords) : c = config /\ t = log
  BY <1>2
<1>4. Book(c, t)
  BY <1>2, <1>3
<1>5. Loadable
  BY <1>2, <1>4, BookLoads
<1>6. pc' = "done"
  BY <1>5 DEF Load
<1>7. Book(config, t)'
  BY <1>1, <1>3, <1>4 DEF Book, Delivered, files
<1>8. QED
  BY <1>1, <1>6, <1>7, EndKeeps DEF files, Running, Ended

\* What an import brings is what the book says.
LEMMA ImportKeeps ==
  ASSUME Inv, Import
  PROVE  Inv'
<1>1. /\ Loadable /\ stored' = log /\ UNCHANGED <<config, pc, files, memory, out>>
  BY DEF Import
<1>2. manifest \notin {None, Torn} /\ log # <<>>
  BY <1>1 DEF Loadable
<1>3. dir
  BY <1>2 DEF Inv, BookFit, Blank
<1>4. ASSUME NEW c \in Configs, NEW t, Book(c, t)
      PROVE  Book(c, t)' /\ Delivered(c, t)' /\ t = log
  <2>1. log = t /\ log \in Seq(EventRecords)
    BY <1>2, <1>4, BookLoads
  <2>2. stored' = t /\ UNCHANGED <<log, run_json, manifest>>
    BY <1>1, <2>1 DEF files
  <2>3. Len(t) \in Nat
    BY <2>1, LenProperties
  <2>4. Delivered(c, t)'
    BY <2>2 DEF Delivered
  <2>5. Book(c, t)'
    BY <1>4, <2>1, <2>2, <2>3, <2>4 DEF Book
  <2>6. QED
    BY <2>1, <2>4, <2>5
<1>5. BookFit'
  BY <1>1, <1>3, <1>4 DEF Inv, BookFit, files
<1>6. ProcessFit'
  <2>1. SUFFICES ASSUME pc \in Running PROVE ProcessFit'
    BY <1>1 DEF ProcessFit
  <2>2. pc = "load"
    BY <1>2, <2>1 DEF Inv, ProcessFit
  <2>3. PICK c \in Configs, t \in Seq(EventRecords) : c = config /\ t = log
    BY <2>1, RunningBook
  <2>4. Book(c, t)' /\ Delivered(c, t)'
    BY <1>4, <2>1, <2>3, RunningBook
  <2>5. Book(config, log)' /\ Delivered(config, log)'
    BY <1>1, <2>3, <2>4 DEF Book, Delivered, files
  <2>6. log # <<>> /\ out = log[Len(log)] /\ out.kind = "FINISH" /\ config \in Configs
    BY <2>2, AtFinish
  <2>7. QED
    BY <1>1, <1>2, <1>3, <2>2, <2>5, <2>6 DEF ProcessFit, files
<1>7. MemoryFit'
  BY <1>1 DEF Inv, MemoryFit, files, memory
<1>8. QED
  BY <1>1, <1>5, <1>6, <1>7 DEF Inv, files
-----------------------------------------------------------------------------
(* The invariant *)

\* Nothing has been written yet.
LEMMA InitHasInv ==
  ASSUME Init
  PROVE  Inv
<1>1. /\ config = None /\ pc = "idle" /\ dir = FALSE /\ log = <<>> /\ run_json = None
      /\ manifest = None /\ stored = <<>> /\ pending = <<>> /\ warmed = 0 /\ traces = <<>>
      /\ error = FALSE /\ out = None
  BY DEF Init
<1>2. BookFit
  BY <1>1 DEF BookFit, Blank
<1>3. pc \notin Running /\ pc # "buffer_error"
  BY <1>1 DEF Running
<1>4. ProcessFit
  BY <1>3 DEF ProcessFit
<1>5. <<>> \in Seq(Texts) /\ <<>> \in Seq(EventRecords)
  OBVIOUS
<1>6. MemoryFit
  BY <1>1, <1>3, <1>5 DEF MemoryFit
<1>7. QED
  BY <1>1, <1>2, <1>4, <1>6 DEF Inv

\* Every step keeps the invariant.
LEMMA StepKeepsInv ==
  ASSUME Inv, [Next]_vars
  PROVE  Inv'
<1>1. CASE UNCHANGED vars
  <2>1. UNCHANGED <<config, pc, files, stored, memory, out>>
    BY <1>1 DEF vars
  <2>2. BookFit'
    BY <2>1, SameBook DEF Inv, BookFit, Artifacts, files
  <2>3. ProcessFit'
    BY <2>1 DEF Inv, ProcessFit, Book, Traced, Delivered, files, memory
  <2>4. MemoryFit'
    BY <2>1 DEF Inv, MemoryFit, files, memory
  <2>5. QED
    BY <2>1, <2>2, <2>3, <2>4 DEF Inv, files
<1>2. CASE Reserve
  BY <1>2, ReserveKeeps
<1>3. CASE Refuse \/ Retry
  BY <1>3, RefuseKeeps
<1>4. ASSUME NEW call \in Calls, Warm(call) \/ Ask(call)
      PROVE  Inv'
  BY <1>4, WarmKeeps, AskKeeps
<1>5. CASE Summarize
  BY <1>5, SummarizeKeeps
<1>6. CASE Write
  BY <1>6, WriteKeeps
<1>7. CASE Deliver
  BY <1>7, DeliverKeeps
<1>8. CASE DeliveryFails
  BY <1>8, DeliveryFailsKeeps
<1>9. CASE WriteRun
  BY <1>9, WriteRunKeeps
<1>10. CASE WriteManifest
  BY <1>10, WriteManifestKeeps
<1>11. CASE WriteFails
  BY <1>11, WriteFailsKeeps
<1>12. CASE Load
  BY <1>12, LoadKeeps
<1>13. CASE Crash
  BY <1>13, CrashKeeps
<1>14. CASE Import
  BY <1>14, ImportKeeps
<1>15. QED
  BY <1>1, <1>2, <1>3, <1>4, <1>5, <1>6, <1>7, <1>8, <1>9, <1>10, <1>11, <1>12, <1>13, <1>14
     DEF Next, Proceed

\* The files are a book of one configuration, and the process that writes them knows it.
THEOREM Invariance == Spec => []Inv
<1>1. Init => Inv
  BY InitHasInv
<1>2. Inv /\ [Next]_vars => Inv'
  BY StepKeepsInv
<1>3. QED
  BY <1>1, <1>2, PTL DEF Spec
-----------------------------------------------------------------------------
(* What the invariant means *)

\* The invariant gives the types.
LEMMA InvIsTyped ==
  ASSUME Inv
  PROVE  TypeOK
<1>1. ASSUME ~dir
      PROVE  /\ log \in Seq(EventRecords \cup {Torn}) /\ stored \in Seq(EventRecords)
             /\ run_json = None /\ manifest = None
  <2>1. Blank
    BY <1>1 DEF Inv, BookFit
  <2>2. <<>> \in Seq(EventRecords \cup {Torn}) /\ <<>> \in Seq(EventRecords)
    OBVIOUS
  <2>3. QED
    BY <2>1, <2>2 DEF Blank
<1>2. ASSUME dir
      PROVE  /\ log \in Seq(EventRecords \cup {Torn}) /\ stored \in Seq(EventRecords)
             /\ run_json \in Summaries \cup {None, Torn}
             /\ manifest \in Manifests \cup {None, Torn}
  <2>1. PICK c \in Configs, t \in Seq(EventRecords) : Book(c, t)
    BY <1>2 DEF Inv, BookFit
  <2>2. log \in Seq(EventRecords \cup {Torn}) /\ stored \in Seq(EventRecords)
    BY <2>1, BookShape
  <2>3. run_json \in Summaries \cup {None, Torn}
    BY <2>1 DEF Book
  <2>4. manifest \in Manifests \cup {None, Torn}
    <3>1. CASE manifest \in {None, Torn}
      BY <3>1
    <3>2. CASE manifest \notin {None, Torn}
      <4>1. log \in Seq(EventRecords) /\ run_json \in Summaries
        BY <2>1, <3>2, BookLoads
      <4>2. manifest = [events |-> log, run |-> run_json]
        BY <2>1, <3>2 DEF Book
      <4>3. QED
        BY <4>1, <4>2 DEF Manifests
    <3>3. QED
      BY <3>1, <3>2
  <2>5. QED
    BY <2>2, <2>3, <2>4
<1>3. dir \in BOOLEAN
  BY DEF Inv
<1>4. QED
  BY <1>1, <1>2, <1>3 DEF Inv, MemoryFit, TypeOK, Texts

\* A log that begins with a whole line was written under one configuration.
LEMMA UsedByBook ==
  ASSUME Inv, log # <<>>, Head(log) # Torn
  PROVE  \E c \in Configs, t \in Seq(EventRecords) : Book(c, t) /\ t # <<>> /\ Used = c
<1>1. dir
  BY DEF Inv, BookFit, Blank
<1>2. PICK c \in Configs, t \in Seq(EventRecords) : Book(c, t)
  BY <1>1 DEF Inv, BookFit
<1>3. /\ Len(t) \in Nat /\ DOMAIN t = 1..Len(t)
      /\ log = t \/ (Len(log) = Len(t) + 1 /\ log[Len(log)] = Torn)
      /\ \A i \in 1..Len(t) : log[i] = t[i]
      /\ log \in Seq(EventRecords \cup {Torn})
  BY <1>2, BookShape
<1>4. Head(log) = log[1]
  BY <1>3
<1>5. Len(t) # 0
  <2>1. SUFFICES ASSUME Len(t) = 0 PROVE FALSE
    OBVIOUS
  <2>2. t = <<>>
    BY <2>1, EmptySeq
  <2>3. Len(log) = 1 /\ log[1] = Torn
    BY <1>3, <2>1, <2>2
  <2>4. QED
    BY <1>4, <2>3
<1>6. t[1] = Start(c)
  BY <1>2, <1>3, <1>5 DEF Book, EventsOf
<1>7. Used = c
  BY <1>3, <1>4, <1>5, <1>6, StartIsEvent DEF Used
<1>8. QED
  BY <1>2, <1>5, <1>7

\* The store is a prefix of the export, and at most one event behind.
LEMMA InvFollows ==
  ASSUME Inv
  PROVE  StoreFollowsExport
<1>1. IsPrefix(stored, log)
  <2>1. CASE ~dir
    <3>1. stored = <<>> /\ log = <<>> /\ <<>> \in Seq(EventRecords)
      BY <2>1 DEF Inv, BookFit, Blank
    <3>2. /\ stored \in Seq(EventRecords) /\ log \in Seq(EventRecords)
          /\ Len(stored) = 0 /\ Len(log) = 0
      BY <3>1
    <3>3. Len(stored) <= Len(log) /\ \A i \in 1..Len(stored) : stored[i] = log[i]
      BY <3>2
    <3>4. QED
      BY <3>2, <3>3, PrefixMeans
  <2>2. CASE dir
    <3>1. PICK c \in Configs, t \in Seq(EventRecords) : Book(c, t)
      BY <2>2 DEF Inv, BookFit
    <3>2. /\ Len(t) \in Nat /\ DOMAIN t = 1..Len(t)
          /\ log = t \/ Len(log) = Len(t) + 1
          /\ \A i \in 1..Len(t) : log[i] = t[i]
          /\ log \in Seq(EventRecords \cup {Torn}) /\ stored \in Seq(EventRecords)
          /\ Len(stored) \in Nat /\ DOMAIN stored = 1..Len(stored)
      BY <3>1, BookShape
    <3>3. Len(stored) <= Len(t) /\ \A i \in DOMAIN stored : stored[i] = t[i]
      BY <3>1 DEF Book
    <3>4. stored \in Seq(EventRecords \cup {Torn})
      BY <3>2
    <3>5. Len(stored) <= Len(log) /\ \A i \in 1..Len(stored) : stored[i] = log[i]
      BY <3>2, <3>3
    <3>6. QED
      BY <3>2, <3>4, <3>5, PrefixMeans
  <2>3. QED
    BY <2>1, <2>2
<1>2. ASSUME log # <<>>, Head(log) # Torn, Used.downstream, NEW i \in DOMAIN log, log[i] # Torn
      PROVE  i <= Len(stored) + 1
  <2>1. PICK c \in Configs, t \in Seq(EventRecords) : Book(c, t) /\ t # <<>> /\ Used = c
    BY <1>2, UsedByBook
  <2>2. Len(t) <= Len(stored) + 1
    BY <1>2, <2>1 DEF Book
  <2>3. PICK k \in Nat, m \in Nat : k = Len(t) /\ m = Len(stored)
    BY <2>1, BookShape
  <2>4. PICK l \in Nat : l = Len(log) /\ (l = k \/ (l = k + 1 /\ log[l] = Torn))
    BY <2>1, <2>3, BookShape
  <2>5. i \in 1..l /\ log[i] # Torn
    BY <1>2, <2>1, <2>4, BookShape
  <2>6. i \in 1..k
    BY <2>4, <2>5
  <2>7. k <= m + 1
    BY <2>2, <2>3
  <2>8. i <= m + 1
    BY <2>6, <2>7
  <2>9. QED
    BY <2>3, <2>8
<1>3. QED
  BY <1>1, <1>2 DEF StoreFollowsExport

\* A whole manifest stands for a book that is complete.
LEMMA InvCompletes ==
  ASSUME Inv
  PROVE  ManifestMeansComplete
<1>1. SUFFICES ASSUME manifest \notin {None, Torn}
               PROVE  Loadable /\ (Used.downstream => stored = log)
  BY DEF ManifestMeansComplete
<1>2. dir
  BY <1>1 DEF Inv, BookFit, Blank
<1>3. PICK c \in Configs, t \in Seq(EventRecords) : Book(c, t)
  BY <1>2 DEF Inv, BookFit
<1>4. Loadable /\ Head(log) = Start(c) /\ (c.downstream => stored = log)
  BY <1>1, <1>3, BookLoads
<1>5. Used = c
  BY <1>4, StartIsEvent DEF Used
<1>6. QED
  BY <1>4, <1>5

\* The questions of a book have observations of their own.
LEMMA InvBelongs ==
  ASSUME Inv
  PROVE  ObservationsBelong
<1>1. SUFFICES ASSUME NEW i \in Recorded
               PROVE  /\ log[i].seen \in {None, Text[log[i].qid]}
                      /\ log[i].seen # None => Used.observed
                      /\ log[i].body.status = "completed" /\ Used.observed => log[i].seen # None
  BY DEF ObservationsBelong
<1>2. i \in DOMAIN log /\ log[i] # Torn /\ log[i].kind = "QUESTION"
  BY DEF Recorded
<1>3. dir
  BY <1>2 DEF Inv, BookFit, Blank
<1>4. PICK c \in Configs, t \in Seq(EventRecords) : Book(c, t)
  BY <1>3 DEF Inv, BookFit
<1>5. PICK k \in Nat, l \in Nat :
        /\ k = Len(t) /\ l = Len(log) /\ DOMAIN t = 1..k /\ DOMAIN log = 1..l
        /\ l = k \/ (l = k + 1 /\ log[l] = Torn)
        /\ \A j \in 1..k : log[j] = t[j] /\ t[j] # Torn
        /\ log \in Seq(EventRecords \cup {Torn})
  <2>1. PICK k \in Nat : k = Len(t)
    BY <1>4, BookShape
  <2>2. log \in Seq(EventRecords \cup {Torn})
    BY <1>4, BookShape
  <2>3. PICK l \in Nat : l = Len(log)
    BY <2>2, LenProperties
  <2>4. QED
    BY <1>4, <2>1, <2>2, <2>3, BookShape
<1>6. i \in 1..k /\ log[i] = t[i]
  BY <1>2, <1>5
<1>7. EventsOf(c, t)
  BY <1>4 DEF Book
<1>8. t[1] = Start(c) /\ 1 \in 1..k
  BY <1>5, <1>6, <1>7 DEF EventsOf
<1>9. i > 1
  <2>1. i # 1
    BY <1>2, <1>6, <1>8, StartIsEvent
  <2>2. QED
    BY <1>6, <2>1
<1>10. IsQuestion(c, i - 1, t[i])
  <2>1. ~IsFinish(c, i - 2, t[i])
    BY <1>2, <1>6, FinishIsEvent DEF IsFinish
  <2>2. QED
    BY <1>5, <1>6, <1>7, <1>9, <2>1 DEF EventsOf
<1>11. Used = c
  <2>1. log[1] = Start(c)
    BY <1>5, <1>8
  <2>2. Head(log) = log[1]
    BY <1>5
  <2>3. QED
    BY <2>1, <2>2, StartIsEvent DEF Used
<1>12. QED
  BY <1>6, <1>10, <1>11 DEF IsQuestion

\* Before the buffer check fails, only the start event was written.
LEMMA InvReports ==
  ASSUME Inv
  PROVE  MeasuredRunReports
<1>1. SUFFICES ASSUME pc = "buffer_error" PROVE Recorded = {} /\ error
  BY DEF MeasuredRunReports
<1>2. error /\ log = <<Start(config)>>
  BY <1>1 DEF Inv, MemoryFit
<1>3. \A i \in DOMAIN <<Start(config)>> : i = 1 /\ <<Start(config)>>[i] = Start(config)
  OBVIOUS
<1>4. Start(config).kind = "START"
  BY DEF Start
<1>5. QED
  BY <1>2, <1>3, <1>4 DEF Recorded

\* The steps that write find the later files missing.
LEMMA WritesOnce ==
  ASSUME Inv, [Next]_vars
  PROVE  \/ UNCHANGED <<log, run_json, manifest>>
         \/ /\ log' \in {Append(log, Torn), Append(log, out)}
            /\ log \in Seq(EventRecords \cup {Torn}) /\ out \in EventRecords
            /\ run_json = None /\ manifest = None /\ UNCHANGED <<run_json, manifest>>
         \/ run_json = None /\ manifest = None /\ UNCHANGED <<log, manifest>>
         \/ manifest = None /\ UNCHANGED <<log, run_json>>
<1>1. CASE UNCHANGED files
  BY <1>1 DEF files
<1>2. CASE pc = "write" /\ log' \in {Append(log, Torn), Append(log, out)}
           /\ UNCHANGED <<run_json, manifest>>
  <2>1. log \in Seq(EventRecords) /\ out \in EventRecords /\ run_json = None /\ manifest = None
    BY <1>2, AtWrite
  <2>2. log \in Seq(EventRecords \cup {Torn})
    BY <2>1
  <2>3. QED
    BY <1>2, <2>1, <2>2
<1>3. CASE pc = "run.json" /\ UNCHANGED <<log, manifest>>
  BY <1>3, AtFinish
<1>4. CASE pc = "manifest.json" /\ UNCHANGED <<log, run_json>>
  BY <1>4, AtFinish
<1>5. CASE UNCHANGED vars
  BY <1>1, <1>5 DEF vars
<1>6. CASE Reserve
  BY <1>6 DEF Reserve
<1>7. CASE Refuse \/ Retry \/ Import
  BY <1>1, <1>7 DEF Refuse, Retry, Import
<1>8. ASSUME NEW call \in Calls, Warm(call) \/ Ask(call)
      PROVE  UNCHANGED files
  BY <1>8 DEF Warm, Ask
<1>9. CASE Summarize \/ Deliver \/ DeliveryFails \/ Load
  BY <1>1, <1>9 DEF Summarize, Deliver, DeliveryFails, Load
<1>10. CASE Write
  BY <1>2, <1>10 DEF Write
<1>11. CASE WriteRun
  BY <1>3, <1>11 DEF WriteRun
<1>12. CASE WriteManifest
  BY <1>4, <1>12 DEF WriteManifest
<1>13. CASE WriteFails \/ Crash
  <2>1. Interrupted
    BY <1>13 DEF WriteFails, Crash
  <2>2. QED
    BY <1>1, <1>2, <1>3, <1>4, <2>1 DEF Interrupted
<1>14. QED
  BY <1>1, <1>5, <1>6, <1>7, <1>8, <1>9, <1>10, <1>11, <1>12, <1>13 DEF Next, Proceed

\* Every step extends the files.
LEMMA StepGrows ==
  ASSUME Inv, [Next]_vars
  PROVE  /\ IsPrefix(log, log')
         /\ run_json # None => run_json' = run_json /\ log' = log
         /\ manifest # None => manifest' = manifest /\ run_json' = run_json
<1>1. /\ run_json # None => run_json' = run_json /\ log' = log
      /\ manifest # None => manifest' = manifest /\ run_json' = run_json
  <2>1. manifest # None => run_json # None
    <3>1. CASE dir
      BY <3>1 DEF Inv, BookFit, Book
    <3>2. CASE ~dir
      BY <3>2 DEF Inv, BookFit, Blank
    <3>3. QED
      BY <3>1, <3>2
  <2>2. QED
    BY <2>1, WritesOnce
<1>2. PICK X : X = EventRecords \cup {Torn}
  OBVIOUS
<1>3. log \in Seq(X)
  BY <1>2, InvIsTyped DEF TypeOK
<1>4. ASSUME log' = log
      PROVE  IsPrefix(log, log')
  <2>1. Len(log) <= Len(log) /\ \A i \in 1..Len(log) : log[i] = log[i]
    BY <1>3, LenProperties
  <2>2. IsPrefix(log, log)
    BY <1>3, <2>1, PrefixMeans
  <2>3. QED
    BY <1>4, <2>2
<1>5. ASSUME NEW e \in X, log' = Append(log, e)
      PROVE  IsPrefix(log, log')
  <2>1. /\ Append(log, e) \in Seq(X) /\ Len(Append(log, e)) = Len(log) + 1
        /\ \A i \in 1..Len(log) : log[i] = Append(log, e)[i]
        /\ Len(log) \in Nat
    <3>1. Len(log) \in Nat
      BY <1>3, LenProperties
    <3>2. /\ Append(log, e) \in Seq(X) /\ Len(Append(log, e)) = Len(log) + 1
          /\ \A i \in 1..Len(log) : Append(log, e)[i] = log[i]
      BY <1>3, AppendProperties
    <3>3. QED
      BY <3>1, <3>2
  <2>2. PICK t \in Seq(X) : t = Append(log, e)
    BY <2>1
  <2>3. Len(log) <= Len(t) /\ \A i \in 1..Len(log) : log[i] = t[i]
    BY <2>1, <2>2
  <2>4. IsPrefix(log, t)
    BY <1>3, <2>3, PrefixMeans
  <2>5. QED
    BY <1>5, <2>2, <2>4
<1>6. QED
  BY <1>1, <1>2, <1>4, <1>5, WritesOnce
-----------------------------------------------------------------------------
(* Theorems *)

\* Every variable holds values of its Python or file type: in particular the
\* summaries are well formed and a manifest holds whole events.
THEOREM TypeCorrect == Spec => []TypeOK
BY Invariance, InvIsTyped, PTL

\* Whatever call fails and whenever the process dies, the store holds a prefix
\* of the export, and with a downstream sink at most one event less.
THEOREM StoreFollows == Spec => []StoreFollowsExport
BY Invariance, InvFollows, PTL

\* A manifest is a commit record: an export that has one passes every check of
\* load_export, and the store has all of its events.
THEOREM ManifestCommits == Spec => []ManifestMeansComplete
BY Invariance, InvCompletes, PTL

\* No observation of the embedding boundary ends up with another question.
THEOREM ObservationsStay == Spec => []ObservationsBelong
BY Invariance, InvBelongs, PTL

\* Only a failed warmup can end a run in the buffer check, without a finish event.
THEOREM OnlyWarmupsAreLost == Spec => []MeasuredRunReports
BY Invariance, InvReports, PTL

\* Events are only appended, and what run.json and manifest.json hold, whole or
\* torn, is never written again, by no process of the same run ID.
THEOREM FilesGrow == Spec => ExportWrittenOnce
<1>1. Inv /\ [Next]_vars =>
        [/\ IsPrefix(log, log')
         /\ run_json # None => run_json' = run_json /\ log' = log
         /\ manifest # None => manifest' = manifest /\ run_json' = run_json]_vars
  BY StepGrows
<1>2. QED
  BY <1>1, Invariance, PTL DEF Spec, ExportWrittenOnce
-----------------------------------------------------------------------------
(* The events obey the rules of the store *)

\* Each whole line of the export may follow those before it.
LinesObey ==
  \A k \in DOMAIN log : log[k] # Torn =>
    Ledger!MayFollow(Used, AsEvents(SubSeq(log, 1, k - 1)), EventAt(log, k))

\* Only the last question may have failed, and it ends the loop.
FailsLast ==
  /\ \A i \in DOMAIN traces : traces[i].body.status = "failed" =>
       i = Len(traces) /\ error /\ traces[i].body.score = 0
  /\ error /\ traces # <<>> => traces[Len(traces)].body.status = "failed"

\* A run stays within its rules, and so does the event it is about to write.
RunObeys ==
  pc \in Running =>
    /\ warmed <= config.warmups
    /\ FailsLast
    /\ pc = "write" =>
         Ledger!MayFollow(config, AsEvents(log), EventAt(Append(log, out), Len(log) + 1))

Lawful == Inv /\ LinesObey /\ RunObeys
-----------------------------------------------------------------------------
(* The events of a run as the ledger reads them *)

\* The ledger counts as the run does.
LEMMA SameCount ==
  ASSUME NEW S
  PROVE  Ledger!Cardinality(S) = Cardinality(S)
BY DEF Ledger!Cardinality, Cardinality

\* What the ledger sees of an event.
LEMMA EventsSeen ==
  ASSUME NEW s \in Seq(EventRecords)
  PROVE  /\ AsEvents(s) \in Seq(LedgerEvents) /\ Len(AsEvents(s)) = Len(s)
         /\ DOMAIN AsEvents(s) = 1..Len(s) /\ DOMAIN s = 1..Len(s) /\ Len(s) \in Nat
         /\ AsEvents(s) = <<>> <=> s = <<>>
         /\ \A i \in 1..Len(s) :
              /\ AsEvents(s)[i] = EventAt(s, i) /\ EventAt(s, i) \in LedgerEvents
              /\ EventAt(s, i).kind = s[i].kind /\ EventAt(s, i).qid = s[i].qid
              /\ EventAt(s, i).body = s[i].body /\ EventAt(s, i).id = i
              /\ EventAt(s, i).run = TheRun
<1>1. PICK n \in Nat : n = Len(s) /\ DOMAIN s = 1..n
  BY LenProperties
<1>2. \A i \in 1..n : EventAt(s, i) \in LedgerEvents
  <2>1. TAKE i \in 1..n
  <2>2. s[i] \in EventRecords /\ i \in Nat
    BY <1>1
  <2>3. /\ s[i].kind \in {"START", "QUESTION", "FINISH"} /\ s[i].qid \in Questions \cup {None}
        /\ s[i].body \in Bodies
    BY <2>2 DEF EventRecords
  <2>4. QED
    BY <2>2, <2>3 DEF EventAt, LedgerEvents
<1>3. AsEvents(s) = [i \in 1..n |-> EventAt(s, i)]
  BY <1>1 DEF AsEvents
<1>4. \A i \in 1..n : /\ EventAt(s, i).kind = s[i].kind /\ EventAt(s, i).qid = s[i].qid
                      /\ EventAt(s, i).body = s[i].body /\ EventAt(s, i).id = i
                      /\ EventAt(s, i).run = TheRun
  BY DEF EventAt
<1> HIDE DEF AsEvents, EventAt
<1>5. AsEvents(s) \in Seq(LedgerEvents) /\ Len(AsEvents(s)) = n
  BY <1>2, <1>3
<1>6. AsEvents(s) = <<>> <=> s = <<>>
  BY <1>1, <1>5, EmptySeq
<1>7. QED
  BY <1>1, <1>2, <1>3, <1>4, <1>5, <1>6

\* One of these events.
LEMMA EventSeen ==
  ASSUME NEW s \in Seq(EventRecords), NEW i \in 1..Len(s)
  PROVE  /\ EventAt(s, i) \in LedgerEvents
         /\ EventAt(s, i).kind = s[i].kind /\ EventAt(s, i).qid = s[i].qid
         /\ EventAt(s, i).body = s[i].body
BY EventsSeen

\* A run of configuration c after n questions.
Asking(c, n, s) ==
  /\ s \in Seq(EventRecords) /\ Len(s) = n + 1 /\ s[1] = Start(c)
  /\ \A k \in 2..(n + 1) : IsQuestion(c, k - 1, s[k])

\* The first n questions of a plan are n questions.
LEMMA PlanCount ==
  ASSUME NEW c \in Configs, NEW n \in Nat, n <= Len(c.plan)
  PROVE  Cardinality({c.plan[i] : i \in 1..n}) = n
<1> DEFINE f == [i \in 1..n |-> c.plan[i]]
           S == {c.plan[i] : i \in 1..n}
<1>1. \A i, j \in 1..n : c.plan[i] = c.plan[j] => i = j
  <2>1. DOMAIN c.plan = 1..Len(c.plan) /\ Len(c.plan) \in Nat
    BY ConfigAssumption, LenProperties
  <2>2. \A i, j \in DOMAIN c.plan : c.plan[i] = c.plan[j] => i = j
    BY ConfigAssumption
  <2>3. 1..n \subseteq 1..Len(c.plan)
    BY <2>1
  <2>4. QED
    BY <2>1, <2>2, <2>3
<1>2. f \in Surjection(1..n, S) /\ f \in Injection(1..n, S)
  <2>1. f \in [1..n -> S]
    OBVIOUS
  <2>2. \A i, j \in 1..n : f[i] = f[j] => i = j
    BY <1>1
  <2>3. \A t \in S : \E i \in 1..n : f[i] = t
    OBVIOUS
  <2> HIDE DEF f, S
  <2>4. DOMAIN f = 1..n
    BY <2>1
  <2>5. QED
    BY <2>1, <2>2, <2>3, <2>4 DEF Surjection, Injection, IsInjective
<1>3. IsFiniteSet(1..n) /\ Cardinality(1..n) = n
  BY FS_Interval
<1> HIDE DEF f, S
<1>4. Cardinality(S) = Cardinality(1..n)
  BY <1>2, <1>3, FS_Surjection
<1>5. QED
  BY <1>3, <1>4 DEF S

\* What the ledger reads off the log of a run that is asking.
LEMMA AskingRead ==
  ASSUME NEW c \in Configs, NEW n \in Nat, NEW s, Asking(c, n, s)
  PROVE  /\ ~Ledger!Finished(AsEvents(s)) /\ AsEvents(s) # <<>>
         /\ Ledger!Answered(AsEvents(s)) = {c.plan[k - 1] : k \in 2..(n + 1)}
         /\ Cardinality(Ledger!Answered(AsEvents(s))) = n
         /\ Ledger!Failures(AsEvents(s))
              = {c.plan[k - 1] : k \in {j \in 2..(n + 1) : s[j].body.status = "failed"}}
         /\ Ledger!Points(AsEvents(s))
              = UNION {{c.plan[k - 1]} \X (1..s[k].body.score) : k \in 2..(n + 1)}
<1> DEFINE L == AsEvents(s)
<1>1. /\ s \in Seq(EventRecords) /\ Len(s) = n + 1 /\ s[1] = Start(c)
      /\ \A k \in 2..(n + 1) : IsQuestion(c, k - 1, s[k])
  BY DEF Asking
<1>2. /\ DOMAIN L = 1..(n + 1) /\ L # <<>>
      /\ \A i \in 1..(n + 1) :
           L[i].kind = s[i].kind /\ L[i].qid = s[i].qid /\ L[i].body = s[i].body
  <2>1. s # <<>>
    BY <1>1
  <2>2. QED
    BY <1>1, <2>1, EventsSeen
<1> HIDE DEF L
<1>3. \A k \in 1..(n + 1) : k = 1 \/ k \in 2..(n + 1)
  OBVIOUS
<1>4. 1 \in 1..(n + 1) /\ 1 \notin 2..(n + 1) /\ 2..(n + 1) \subseteq 1..(n + 1)
  OBVIOUS
<1>5. /\ L[1].kind = "START"
      /\ \A k \in 2..(n + 1) : /\ L[k].kind = "QUESTION" /\ L[k].qid = c.plan[k - 1]
                               /\ L[k].body = s[k].body
  <2>1. L[1].kind = "START"
    BY <1>1, <1>2, <1>4, StartIsEvent
  <2>2. \A k \in 2..(n + 1) : s[k].kind = "QUESTION" /\ s[k].qid = c.plan[k - 1]
    BY <1>1 DEF IsQuestion
  <2>3. QED
    BY <1>2, <1>4, <2>1, <2>2
<1>6. ~Ledger!Finished(L)
  BY <1>2, <1>3, <1>5 DEF Ledger!Finished
<1>7. Ledger!Asked(L) = 2..(n + 1)
  BY <1>2, <1>3, <1>4, <1>5 DEF Ledger!Asked
<1> DEFINE K == 2..(n + 1)
           question(k) == c.plan[k - 1]
<1> HIDE DEF K, question
<1>8. Ledger!Asked(L) = K /\ \A k \in K : L[k].qid = question(k) /\ L[k].body = s[k].body
  BY <1>5, <1>7 DEF K, question
<1>9. Ledger!Answered(L) = {question(k) : k \in K}
  BY <1>8 DEF Ledger!Answered
<1>10. Ledger!Failures(L) = {question(k) : k \in {j \in K : s[j].body.status = "failed"}}
  BY <1>8 DEF Ledger!Failures
<1>11. {{L[i].qid} \X (1..L[i].body.score) : i \in Ledger!Asked(L)}
         = {{question(k)} \X (1..s[k].body.score) : k \in K}
  BY <1>8
<1>12. n <= Len(c.plan)
  <2>1. CASE n = 0
    BY <2>1, PlanShape
  <2>2. CASE n # 0
    <3>1. n + 1 \in 2..(n + 1) /\ n + 1 - 1 = n
      BY <2>2
    <3>2. n \in 1..Len(c.plan)
      BY <1>1, <3>1 DEF IsQuestion
    <3>3. QED
      BY <3>2, PlanShape
  <2>3. QED
    BY <2>1, <2>2
<1>13. {question(k) : k \in K} = {c.plan[i] : i \in 1..n}
  <2>1. \A k \in 2..(n + 1) : k - 1 \in 1..n
    OBVIOUS
  <2>2. \A i \in 1..n : i + 1 \in 2..(n + 1) /\ i + 1 - 1 = i
    OBVIOUS
  <2>3. QED
    BY <2>1, <2>2 DEF K, question
<1>14. Cardinality(Ledger!Answered(L)) = n
  BY <1>9, <1>12, <1>13, PlanCount
<1>15. QED
  BY <1>2, <1>6, <1>9, <1>10, <1>11, <1>14 DEF L, K, question, Ledger!Points

\* The start event may follow the empty log.
LEMMA StartFollows ==
  ASSUME NEW c \in Configs
  PROVE  Ledger!MayFollow(c, AsEvents(<<>>), EventAt(Append(<<>>, Start(c)), 1))
<1> DEFINE s == Append(<<>>, Start(c))
           e == EventAt(s, 1)
<1>1. /\ s \in Seq(EventRecords) /\ Len(s) = 1 /\ s[1] = Start(c)
      /\ <<>> \in Seq(EventRecords)
  BY StartIsEvent
<1>2. e \in LedgerEvents /\ e.kind = "START" /\ e.body = c /\ e.qid = None
  <2>1. Start(c).qid = None
    BY DEF Start
  <2>2. PICK t \in Seq(EventRecords) : t = s /\ Len(t) = 1 /\ t[1] = Start(c)
    BY <1>1
  <2> HIDE DEF s
  <2>3. 1 \in 1..Len(t)
    BY <2>2
  <2>4. e \in LedgerEvents /\ e.kind = t[1].kind /\ e.body = t[1].body /\ e.qid = t[1].qid
    BY <2>2, <2>3, EventSeen
  <2>5. QED
    BY <2>1, <2>2, <2>4, StartIsEvent
<1>3. AsEvents(<<>>) = <<>> /\ DOMAIN AsEvents(<<>>) = {}
  BY DEF AsEvents
<1> HIDE DEF e
<1>4. e \in Fits(c)
  BY <1>2 DEF Fits
<1>5. QED
  BY <1>2, <1>3, <1>4 DEF Ledger!MayFollow, Ledger!Finished, e

\* The next question may follow if none failed before.
LEMMA QuestionFollows ==
  ASSUME NEW c \in Configs, NEW n \in Nat, NEW s, Asking(c, n, s),
         \A k \in 2..(n + 1) : s[k].body.status # "failed",
         NEW x \in EventRecords, IsQuestion(c, n + 1, x),
         x.body.status = "failed" => x.body.score = 0
  PROVE  Ledger!MayFollow(c, AsEvents(s), EventAt(Append(s, x), n + 2))
<1> DEFINE L == AsEvents(s)
           e == EventAt(Append(s, x), n + 2)
<1>1. /\ ~Ledger!Finished(L) /\ L # <<>>
      /\ Cardinality(Ledger!Answered(L)) = n
      /\ Ledger!Failures(L)
           = {c.plan[k - 1] : k \in {j \in 2..(n + 1) : s[j].body.status = "failed"}}
  BY AskingRead
<1>2. Ledger!Failures(L) = {}
  BY <1>1
<1>3. /\ e \in LedgerEvents /\ e.kind = "QUESTION" /\ e.qid = c.plan[n + 1]
      /\ e.body.status = "failed" => e.body.score = 0
  <2>1. s \in Seq(EventRecords) /\ Len(s) = n + 1
    BY DEF Asking
  <2>2. PICK t \in Seq(EventRecords) : t = Append(s, x) /\ Len(t) = n + 2 /\ t[n + 2] = x
    <3>1. Append(s, x)[Len(s) + 1] = x /\ Len(Append(s, x)) = Len(s) + 1
          /\ Append(s, x) \in Seq(EventRecords)
      BY <2>1, AppendProperties
    <3>2. Len(s) + 1 = n + 2
      BY <2>1
    <3>3. QED
      BY <3>1, <3>2
  <2>3. n + 2 \in 1..Len(t)
    BY <2>2
  <2>4. e \in LedgerEvents /\ e.kind = x.kind /\ e.qid = x.qid /\ e.body = x.body
    BY <2>2, <2>3, EventSeen
  <2>5. QED
    BY <2>4 DEF IsQuestion
<1>4. n + 1 \in 1..Len(c.plan) /\ c.plan[n + 1] \in Questions
  BY PlanShape DEF IsQuestion
<1>5. n < Len(c.plan) /\ e.qid # None
  BY <1>3, <1>4, StorageAssumption, PlanShape
<1>6. Ledger!Cardinality(Ledger!Answered(L)) = n
  BY <1>1, SameCount
<1> HIDE DEF L, e
<1>7. e \in Fits(c)
  BY <1>3, <1>5 DEF Fits
<1>8. QED
  BY <1>1, <1>2, <1>3, <1>5, <1>6, <1>7 DEF Ledger!MayFollow, L, e

\* The summary of evaluate says of the log what the log says of itself.
LEMMA FinishFollows ==
  ASSUME Lawful, pc = "evaluate", error \/ (warmed = config.warmups /\ Len(traces) = Len(config.plan))
  PROVE  Ledger!MayFollow(config, AsEvents(log), EventAt(Append(log, Finish(Summary)), Len(log) + 1))
<1> DEFINE L == AsEvents(log)
           s == Summary
           x == Finish(s)
           e == EventAt(Append(log, x), Len(log) + 1)
<1>1. PICK c \in Configs, n \in Nat : c = config /\ n = Len(traces)
  BY InLoop DEF Lawful
<1>2. /\ EventsOf(c, log) /\ Traced(log) /\ Len(log) = n + 1 /\ DOMAIN log = 1..(n + 1)
      /\ log \in Seq(EventRecords) /\ traces \in Seq(EventRecords) /\ DOMAIN traces = 1..n
      /\ \A i \in 1..n : IsQuestion(c, i, traces[i]) /\ log[i + 1] = traces[i]
      /\ traces # <<>> => warmed = c.warmups
      /\ error \in BOOLEAN /\ warmed \in Nat
  BY <1>1, InLoop, LenProperties DEF Lawful, Traced, EventsOf
<1>3. /\ warmed <= c.warmups
      /\ \A i \in 1..n : traces[i].body.status = "failed" => i = n /\ error
      /\ error /\ n # 0 => traces[n].body.status = "failed"
  <2>1. pc \in Running
    BY DEF Running
  <2>2. n = 0 <=> traces = <<>>
    BY <1>1, <1>2, EmptySeq
  <2>3. QED
    BY <1>1, <1>2, <2>1, <2>2 DEF Lawful, RunObeys, FailsLast
<1>4. Asking(c, n, log)
  <2>1. log[1] = Start(c)
    BY <1>2 DEF EventsOf
  <2>2. \A k \in 2..(n + 1) : k - 1 \in 1..n /\ k - 1 + 1 = k
    OBVIOUS
  <2>3. QED
    BY <1>2, <2>1, <2>2 DEF Asking
<1>5. /\ ~Ledger!Finished(L) /\ L # <<>>
      /\ Cardinality(Ledger!Answered(L)) = n
      /\ Ledger!Failures(L)
           = {c.plan[k - 1] : k \in {j \in 2..(n + 1) : log[j].body.status = "failed"}}
      /\ Ledger!Points(L) = UNION {{c.plan[k - 1]} \X (1..log[k].body.score) : k \in 2..(n + 1)}
  BY <1>4, AskingRead
<1>6. /\ \A k \in 2..(n + 1) : k - 1 \in 1..n /\ log[k] = traces[k - 1]
      /\ \A i \in 1..n : /\ i + 1 \in 2..(n + 1) /\ i + 1 - 1 = i /\ traces[i].qid = c.plan[i]
                         /\ traces[i].body.status \in {"completed", "failed"}
  <2>1. \A k \in 2..(n + 1) : k - 1 \in 1..n /\ k - 1 + 1 = k
    OBVIOUS
  <2>2. \A i \in 1..n : i + 1 \in 2..(n + 1) /\ i + 1 - 1 = i
    OBVIOUS
  <2>3. QED
    BY <1>2, <2>1, <2>2 DEF IsQuestion
<1>7. PICK m \in 0..n : m = (IF error /\ n # 0 THEN 1 ELSE 0)
  OBVIOUS
<1>8. Completed = 1..(n - m)
  <2>1. \A i \in 1..n : traces[i].body.status = "completed" <=> i \in 1..(n - m)
    BY <1>2, <1>3, <1>6, <1>7
  <2>2. 1..(n - m) \subseteq 1..n
    OBVIOUS
  <2>3. QED
    BY <1>2, <2>1, <2>2 DEF Completed
<1>9. Cardinality(Completed) = n - m
  BY <1>8, FS_Interval
<1>10. Cardinality(Ledger!Failures(L)) = m /\ (m = 0 => Ledger!Failures(L) = {})
  <2> DEFINE F == {j \in 2..(n + 1) : log[j].body.status = "failed"}
  <2>1. CASE error /\ n # 0
    <3>1. F = {n + 1}
      BY <1>3, <1>6, <2>1
    <3>2. Ledger!Failures(L) = {c.plan[n + 1 - 1]}
      BY <1>5, <3>1
    <3>3. Cardinality(Ledger!Failures(L)) = 1
      BY <3>2, FS_Singleton, Zenon
    <3>4. m = 1
      BY <1>7, <2>1
    <3>5. QED
      BY <3>3, <3>4
  <2>2. CASE ~(error /\ n # 0)
    <3>1. F = {}
      BY <1>3, <1>6, <2>2
    <3>2. Ledger!Failures(L) = {} /\ m = 0
      BY <1>5, <1>7, <2>2, <3>1
    <3>3. QED
      BY <3>2, FS_EmptySet, Zenon
  <2>3. QED
    BY <2>1, <2>2
<1>11. Total = Cardinality(Ledger!Points(L))
  <2>1. {{c.plan[k - 1]} \X (1..log[k].body.score) : k \in 2..(n + 1)}
          = {{traces[i].qid} \X (1..traces[i].body.score) : i \in 1..n}
    <3> DEFINE A(k) == {c.plan[k - 1]} \X (1..log[k].body.score)
               B(i) == {traces[i].qid} \X (1..traces[i].body.score)
    <3>1. \A k \in 2..(n + 1) : k - 1 \in 1..n /\ A(k) = B(k - 1)
      BY <1>6
    <3>2. \A i \in 1..n : i + 1 \in 2..(n + 1) /\ B(i) = A(i + 1)
      BY <1>2, <1>6
    <3> HIDE DEF A, B
    <3>3. {A(k) : k \in 2..(n + 1)} = {B(i) : i \in 1..n}
      BY <3>1, <3>2
    <3>4. QED
      BY <3>3 DEF A, B
  <2>2. QED
    BY <1>2, <1>5, <2>1 DEF Total
<1>12. /\ s.meta = c /\ s.status = (IF error THEN "failed" ELSE "completed")
       /\ s.completed = n - m /\ s.failed = n - (n - m)
       /\ s.unattempted = Len(c.plan) - n
       /\ s.warm = warmed /\ s.full = (~error /\ n = c.full)
       /\ s.total = Cardinality(Ledger!Points(L))
  BY <1>1, <1>9, <1>11 DEF Summary
<1>13. Len(c.plan) \in Nat /\ ~error => n = Len(c.plan) /\ warmed = c.warmups
  BY <1>1, <1>2
<1>14. /\ Ledger!Cardinality(Ledger!Answered(L)) = n
       /\ Ledger!Cardinality(Ledger!Failures(L)) = m
       /\ Ledger!Cardinality(Ledger!Points(L)) = Cardinality(Ledger!Points(L))
  BY <1>5, <1>10, SameCount
<1>15. s \in Summaries
  BY SummaryIsSummary DEF Lawful
<1> HIDE DEF s, L
<1>16. n # 0 => warmed = c.warmups
  BY <1>1, <1>2, EmptySeq
<1>17. Ledger!Honest(c, L, s)
  BY <1>2, <1>3, <1>7, <1>12, <1>13, <1>14, <1>16, PlanShape DEF Ledger!Honest
<1>18. e \in LedgerEvents /\ e.kind = "FINISH" /\ e.body = s /\ e.qid = None
  <2>1. x \in EventRecords /\ x.kind = "FINISH" /\ x.body = s /\ x.qid = None
    BY <1>15, FinishIsEvent DEF Finish
  <2> HIDE DEF x
  <2>2. PICK t \in Seq(EventRecords) : t = Append(log, x) /\ Len(t) = n + 2 /\ t[n + 2] = x
    <3>1. Append(log, x)[Len(log) + 1] = x /\ Len(Append(log, x)) = Len(log) + 1
          /\ Append(log, x) \in Seq(EventRecords)
      BY <1>2, <2>1, AppendProperties
    <3>2. Len(log) + 1 = n + 2
      BY <1>2
    <3>3. QED
      BY <3>1, <3>2
  <2>3. n + 2 \in 1..Len(t) /\ Len(log) + 1 = n + 2
    BY <1>2, <2>2
  <2>4. EventAt(t, n + 2) \in LedgerEvents /\ EventAt(t, n + 2).kind = x.kind
        /\ EventAt(t, n + 2).body = x.body /\ EventAt(t, n + 2).qid = x.qid
    BY <2>2, <2>3, EventSeen
  <2>5. QED
    BY <2>1, <2>2, <2>3, <2>4
<1> HIDE DEF e, x
<1>19. e \in Fits(c)
  <2>1. Len(c.plan) \in Nat
    BY PlanShape
  <2>2. s.completed + s.failed + s.unattempted = Len(c.plan)
    BY <1>7, <1>12, <2>1
  <2>3. QED
    BY <1>18, <2>2 DEF Fits
<1>20. Ledger!MayFollow(c, L, e)
  BY <1>5, <1>17, <1>18, <1>19 DEF Ledger!MayFollow
<1>21. QED
  BY <1>1, <1>20 DEF L, e, x, s
-----------------------------------------------------------------------------
(* The invariant *)

\* The log before an event that is appended to it.
LEMMA PrefixKept ==
  ASSUME NEW X, NEW s \in Seq(X), NEW x \in X, NEW k \in 1..(Len(s) + 1)
  PROVE  SubSeq(Append(s, x), 1, k - 1) = SubSeq(s, 1, k - 1)
<1>1. PICK n \in Nat : n = Len(s)
  BY LenProperties
<1>2. \A i \in 1..n : Append(s, x)[i] = s[i]
  BY <1>1, AppendProperties
<1>3. \A i \in 1..(k - 1) : i \in 1..n
  BY <1>1
<1>4. \A i \in 1..(k - 1) : Append(s, x)[i] = s[i]
  BY <1>2, <1>3
<1>5. k - 1 \in Int
  OBVIOUS
<1>6. /\ SubSeq(s, 1, k - 1) = [i \in 1..(k - 1) |-> s[i]]
      /\ SubSeq(Append(s, x), 1, k - 1) = [i \in 1..(k - 1) |-> Append(s, x)[i]]
  BY <1>5
<1>7. QED
  BY <1>4, <1>6

\* A line that may follow the log keeps it lawful, and so does a torn one.
LEMMA LineObeys ==
  ASSUME Inv, LinesObey, RunObeys, pc = "write",
         log' \in {Append(log, Torn), Append(log, out)}
  PROVE  LinesObey'
<1>1. /\ config \in Configs /\ log \in Seq(EventRecords) /\ out \in EventRecords
      /\ EventsOf(config, Append(log, out)) /\ EventsOf(config, log)
  BY AtWrite DEF Book
<1>2. PICK X : X = EventRecords \cup {Torn}
  OBVIOUS
<1>3. PICK y \in X : log' = Append(log, y) /\ (y = Torn \/ y = out)
  BY <1>1, <1>2
<1>4. PICK n \in Nat : n = Len(log) /\ log \in Seq(X)
  BY <1>1, <1>2, LenProperties
<1>5. /\ Len(Append(log, y)) = n + 1 /\ Append(log, y)[n + 1] = y
      /\ \A i \in 1..n : Append(log, y)[i] = log[i]
      /\ DOMAIN Append(log, y) = 1..(n + 1) /\ Append(log, y) \in Seq(X)
  BY <1>4, AppendProperties, LenProperties
<1>6. \A k \in 1..(n + 1) : SubSeq(Append(log, y), 1, k - 1) = SubSeq(log, 1, k - 1)
  BY <1>4, PrefixKept
<1>7. Ledger!MayFollow(config, AsEvents(log), EventAt(Append(log, out), n + 1))
  BY <1>4 DEF RunObeys, Running
<1>8. SUFFICES ASSUME NEW k \in 1..(n + 1), log'[k] # Torn
               PROVE  Ledger!MayFollow(Used', AsEvents(SubSeq(log', 1, k - 1)), EventAt(log', k))
  BY <1>3, <1>5 DEF LinesObey, AsEvents, EventAt
<1>9. CASE k = n + 1
  <2>1. y = out /\ log' = Append(log, out)
    BY <1>3, <1>5, <1>8, <1>9
  <2>2. SubSeq(log', 1, k - 1) = log
    BY <1>3, <1>4, <1>6, <1>9
  <2>3. Used' = config
    <3>1. log'[1] = Start(config)
      BY <1>1, <1>5, <2>1 DEF EventsOf
    <3>2. Head(log') = log'[1]
      BY <1>3, <1>5
    <3>3. QED
      BY <1>1, <3>1, <3>2, StartIsEvent DEF Used
  <2>4. QED
    BY <1>7, <1>9, <2>1, <2>2, <2>3
<1>10. CASE k \in 1..n
  <2>1. log'[k] = log[k] /\ EventAt(log', k) = EventAt(log, k)
    BY <1>3, <1>5, <1>10 DEF EventAt
  <2>2. SubSeq(log', 1, k - 1) = SubSeq(log, 1, k - 1)
    BY <1>3, <1>6
  <2>3. Used' = Used
    <3>1. Head(log') = log'[1] /\ Head(log) = log[1] /\ log'[1] = log[1]
      BY <1>3, <1>4, <1>5, <1>10
    <3>2. QED
      BY <3>1 DEF Used
  <2>4. k \in DOMAIN log
    BY <1>4, <1>10
  <2>5. QED
    BY <1>8, <2>1, <2>2, <2>3, <2>4 DEF LinesObey
<1>11. QED
  BY <1>9, <1>10

\* Only an event that is being written changes the log.
LEMMA LogMoves ==
  ASSUME [Next]_vars
  PROVE  log' = log \/ (pc = "write" /\ log' \in {Append(log, Torn), Append(log, out)})
<1>1. CASE UNCHANGED vars
  BY <1>1 DEF vars, files
<1>2. CASE Reserve \/ Refuse \/ Retry \/ Import
  BY <1>2 DEF Reserve, Refuse, Retry, Import, files
<1>3. ASSUME NEW call \in Calls, Warm(call) \/ Ask(call)
      PROVE  log' = log
  BY <1>3 DEF Warm, Ask, files
<1>4. CASE Summarize \/ Deliver \/ DeliveryFails \/ WriteRun \/ WriteManifest \/ Load
  BY <1>4 DEF Summarize, Deliver, DeliveryFails, WriteRun, WriteManifest, Load, files
<1>5. CASE Write
  BY <1>5 DEF Write
<1>6. CASE WriteFails \/ Crash
  BY <1>6 DEF WriteFails, Crash, Interrupted, files
<1>7. QED
  BY <1>1, <1>2, <1>3, <1>4, <1>5, <1>6 DEF Next, Proceed

\* Every line stays one that may follow those before it.
LEMMA LinesStay ==
  ASSUME Lawful, [Next]_vars
  PROVE  LinesObey'
<1>1. CASE log' = log
  BY <1>1 DEF Lawful, LinesObey, Used, AsEvents, EventAt
<1>2. CASE pc = "write" /\ log' \in {Append(log, Torn), Append(log, out)}
  BY <1>2, LineObeys DEF Lawful
<1>3. QED
  BY <1>1, <1>2, LogMoves

\* A process that goes on without an event to write, or ends, remembers the same.
LEMMA MemoryObeys ==
  ASSUME RunObeys, UNCHANGED <<config, memory>>, pc \in Running, pc' # "write"
  PROVE  RunObeys'
BY DEF RunObeys, FailsLast, memory

\* The start event is the first of an empty log.
LEMMA ReserveObeys ==
  ASSUME Inv, Reserve
  PROVE  RunObeys'
<1>1. pc = "idle" /\ ~dir /\ UNCHANGED <<log, memory>>
  BY DEF Reserve, Free
<1>2. log = <<>> /\ warmed = 0 /\ traces = <<>> /\ error = FALSE
  BY <1>1 DEF Inv, BookFit, Blank, MemoryFit
<1>3. CASE pc' = "benchmark_error"
  BY <1>3 DEF RunObeys, Running
<1>4. CASE pc' # "benchmark_error"
  <2>1. PICK c \in Configs : config' = c /\ out' = Start(c)
    BY <1>4 DEF Reserve
  <2>2. FailsLast'
    <3>1. traces' = <<>> /\ error' = FALSE
      BY <1>1, <1>2 DEF memory
    <3>2. QED
      BY <3>1 DEF FailsLast
  <2>3. warmed' <= config'.warmups
    <3>1. warmed' = 0
      BY <1>1, <1>2 DEF memory
    <3>2. c.warmups \in Nat
      BY PlanShape
    <3>3. QED
      BY <2>1, <3>1, <3>2
  <2>4. Ledger!MayFollow(c, AsEvents(<<>>), EventAt(Append(<<>>, Start(c)), 1))
    BY StartFollows
  <2>5. log' = <<>> /\ Len(log') + 1 = 1
    BY <1>1, <1>2
  <2>6. Ledger!MayFollow(config', AsEvents(log'), EventAt(Append(log', out'), Len(log') + 1))
    BY <2>1, <2>4, <2>5
  <2>7. QED
    BY <2>2, <2>3, <2>6 DEF RunObeys, AsEvents, EventAt
<1>5. QED
  BY <1>3, <1>4

\* A warmup, of which there are no more than asked for, records nothing.
LEMMA WarmObeys ==
  ASSUME Lawful, NEW call \in Calls, Warm(call)
  PROVE  RunObeys'
<1>1. /\ pc = "evaluate" /\ ~error /\ warmed < config.warmups
      /\ UNCHANGED <<config, pc, traces>> /\ warmed' \in {warmed, warmed + 1}
  BY DEF Warm
<1>2. /\ config \in Configs /\ traces \in Seq(EventRecords) /\ warmed \in Nat
      /\ traces # <<>> => warmed = config.warmups
  BY <1>1, InLoop DEF Lawful
<1>3. config.warmups \in Nat
  BY <1>2, PlanShape
<1>4. traces = <<>>
  BY <1>1, <1>2, <1>3
<1>5. FailsLast'
  BY <1>1, <1>4 DEF FailsLast
<1>6. warmed' <= config'.warmups
  BY <1>1, <1>2, <1>3
<1>7. QED
  BY <1>1, <1>5, <1>6 DEF RunObeys

\* The next question follows those that did not fail.
LEMMA AskObeys ==
  ASSUME Lawful, NEW call \in Calls, Ask(call)
  PROVE  RunObeys'
<1>1. /\ pc = "evaluate" /\ ~error /\ warmed = config.warmups
      /\ UNCHANGED <<config, files, warmed>>
  BY DEF Ask
<1>2. CASE pc' = "buffer_error"
  BY <1>2 DEF RunObeys, Running
<1>3. CASE pc' # "buffer_error"
  <2>1. PICK c \in Configs, n \in Nat : c = config /\ n = Len(traces)
    BY <1>1, InLoop DEF Lawful
  <2>2. /\ log \in Seq(EventRecords) /\ Len(log) = n + 1 /\ log[1] = Start(c)
        /\ traces \in Seq(EventRecords) /\ DOMAIN traces = 1..n
        /\ \A i \in 1..n : IsQuestion(c, i, traces[i]) /\ log[i + 1] = traces[i]
    <3>1. /\ EventsOf(c, log) /\ Traced(log) /\ Len(log) = n + 1 /\ DOMAIN log = 1..(n + 1)
          /\ traces \in Seq(EventRecords)
          /\ \A i \in DOMAIN traces : IsQuestion(c, i, traces[i])
      BY <1>1, <2>1, InLoop DEF Lawful
    <3>2. DOMAIN traces = 1..n
      BY <2>1, <3>1, LenProperties
    <3>3. log \in Seq(EventRecords) /\ log[1] = Start(c)
      BY <3>1 DEF EventsOf
    <3>4. QED
      BY <3>1, <3>2, <3>3 DEF Traced
  <2>3. \A i \in 1..n : traces[i].body.status # "failed"
    <3>1. pc \in Running
      BY <1>1 DEF Running
    <3>2. QED
      BY <1>1, <2>2, <3>1 DEF Lawful, RunObeys, FailsLast
  <2>4. \A k \in 2..(n + 1) : k - 1 \in 1..n /\ log[k] = traces[k - 1]
    <3>1. \A k \in 2..(n + 1) : k - 1 \in 1..n /\ k - 1 + 1 = k
      OBVIOUS
    <3>2. QED
      BY <2>2, <3>1
  <2>5. Asking(c, n, log) /\ \A k \in 2..(n + 1) : log[k].body.status # "failed"
    BY <2>2, <2>3, <2>4 DEF Asking
  <2>6. PICK q, status, score, seen :
          LET trace == Answered(q, status, score, seen) IN
            /\ traces' = Append(traces, trace) /\ out' = trace /\ error' = FailsFast(status)
            /\ pc' = "write" /\ (status = "failed" => score = 0)
    <3>1. PICK q, status, buffer : 
            /\ status = (IF call = "valid" THEN "completed" ELSE "failed")
            /\ \E score \in IF call = "valid" THEN Scores ELSE {0} :
                 LET trace == Answered(q, status, score, Taken(buffer)) IN
                   /\ traces' = Append(traces, trace) /\ error' = FailsFast(status)
                   /\ out' = trace /\ pc' = "write"
      BY <1>3 DEF Ask
    <3>2. QED
      BY <3>1
  <2>7. PICK x \in EventRecords :
          /\ x = out' /\ traces' = Append(traces, x) /\ error' = (x.body.status = "failed")
          /\ (x.body.status = "failed" => x.body.score = 0) /\ IsQuestion(c, n + 1, x)
    <3>1. /\ out'.body.status = status /\ out'.body.score = score
      BY <2>6 DEF Answered
    <3>2. Inv'
      BY AskKeeps DEF Lawful
    <3>3. out' \in EventRecords /\ (\A i \in DOMAIN traces' : IsQuestion(c, i, traces'[i]))
      <4>1. pc' \in Running
        BY <2>6 DEF Running
      <4>2. QED
        BY <1>1, <2>1, <2>6, <3>2, <4>1 DEF Inv, ProcessFit, MemoryFit
    <3>4. n + 1 \in DOMAIN traces' /\ traces'[n + 1] = out'
      BY <2>1, <2>2, <2>6, <3>3, AppendProperties, LenProperties
    <3>5. QED
      BY <2>6, <3>1, <3>3, <3>4 DEF FailsFast
  <2>8. Ledger!MayFollow(c, AsEvents(log), EventAt(Append(log, x), n + 2))
    BY <2>5, <2>7, QuestionFollows
  <2>9. FailsLast'
    <3>1. PICK t \in Seq(EventRecords) :
            /\ t = traces' /\ DOMAIN t = 1..(n + 1) /\ Len(t) = n + 1 /\ t[n + 1] = x
            /\ \A i \in 1..n : t[i] = traces[i]
      <4>1. /\ Append(traces, x) \in Seq(EventRecords) /\ Len(Append(traces, x)) = n + 1
            /\ Append(traces, x)[n + 1] = x
            /\ \A i \in 1..n : Append(traces, x)[i] = traces[i]
        BY <2>1, <2>2, AppendProperties
      <4>2. DOMAIN Append(traces, x) = 1..(n + 1)
        BY <4>1, LenProperties
      <4>3. QED
        BY <2>7, <4>1, <4>2
    <3>2. \A i \in 1..(n + 1) : i = n + 1 \/ i \in 1..n
      OBVIOUS
    <3>3. QED
      BY <2>3, <2>7, <3>1, <3>2 DEF FailsLast
  <2>10. Len(log) + 1 = n + 2
    BY <2>2
  <2>11. config' = c /\ log' = log /\ out' = x /\ warmed' <= config'.warmups
    <3>1. c.warmups \in Nat
      BY PlanShape
    <3>2. QED
      BY <1>1, <2>1, <2>7, <3>1 DEF files
  <2>12. Ledger!MayFollow(config', AsEvents(log'), EventAt(Append(log', out'), Len(log') + 1))
    BY <2>8, <2>10, <2>11
  <2>13. QED
    BY <2>9, <2>11, <2>12 DEF RunObeys, AsEvents, EventAt
<1>4. QED
  BY <1>2, <1>3

\* The finish event follows the questions.
LEMMA SummarizeObeys ==
  ASSUME Lawful, Summarize
  PROVE  RunObeys'
<1>1. /\ pc = "evaluate" /\ UNCHANGED <<config, log, memory>>
      /\ error \/ (warmed = config.warmups /\ Len(traces) = Len(config.plan))
  BY DEF Summarize, files
<1>2. pc \in Running
  BY <1>1 DEF Running
<1>3. CASE pc' # "write"
  BY <1>1, <1>2, <1>3, MemoryObeys DEF Lawful
<1>4. CASE pc' = "write"
  <2>1. out' = Finish(Summary)
    BY <1>4 DEF Summarize
  <2>2. Ledger!MayFollow(config, AsEvents(log), EventAt(Append(log, Finish(Summary)), Len(log) + 1))
    BY <1>1, FinishFollows
  <2>3. Ledger!MayFollow(config', AsEvents(log'), EventAt(Append(log', out'), Len(log') + 1))
    BY <1>1, <2>1, <2>2
  <2>4. warmed' <= config'.warmups /\ FailsLast'
    BY <1>1, <1>2 DEF Lawful, RunObeys, FailsLast, memory
  <2>5. QED
    BY <2>3, <2>4 DEF RunObeys, AsEvents, EventAt
<1>5. QED
  BY <1>3, <1>4

\* A run stays within its rules.
LEMMA RunStays ==
  ASSUME Lawful, [Next]_vars
  PROVE  RunObeys'
<1>1. CASE UNCHANGED vars \/ Import
  BY <1>1 DEF Lawful, RunObeys, FailsLast, AsEvents, EventAt, Import, vars, files, memory
<1>2. CASE Reserve
  BY <1>2, ReserveObeys DEF Lawful
<1>3. CASE Refuse \/ Retry
  BY <1>3 DEF RunObeys, Running, Refuse, Retry
<1>4. ASSUME NEW call \in Calls, Warm(call) \/ Ask(call)
      PROVE  RunObeys'
  BY <1>4, WarmObeys, AskObeys
<1>5. CASE Summarize
  BY <1>5, SummarizeObeys
<1>6. CASE Write \/ Deliver \/ DeliveryFails \/ WriteRun \/ WriteManifest \/ WriteFails
           \/ Load \/ Crash
  <2>1. pc \in Running
    BY <1>6 DEF Write, Deliver, DeliveryFails, WriteRun, WriteManifest, WriteFails, Load, Crash,
               Running
  <2>2. pc' # "write"
    BY <1>6 DEF Write, Deliver, DeliveryFails, WriteRun, WriteManifest, WriteFails, Load, Crash,
               Emitted
  <2>3. UNCHANGED <<config, memory>>
    BY <1>6 DEF Write, Deliver, DeliveryFails, WriteRun, WriteManifest, WriteFails, Load, Crash
  <2>4. QED
    BY <2>1, <2>2, <2>3, MemoryObeys DEF Lawful
<1>7. QED
  BY <1>1, <1>2, <1>3, <1>4, <1>5, <1>6 DEF Next, Proceed

\* Every line of every export obeys the rules of the ledger.
THEOREM LawAbiding == Spec => []Lawful
<1>1. Init => Lawful
  <2>1. SUFFICES ASSUME Init PROVE Lawful
    OBVIOUS
  <2>2. Inv
    BY <2>1, InitHasInv
  <2>3. LinesObey
    BY <2>1 DEF Init, LinesObey
  <2>4. RunObeys
    BY <2>1 DEF Init, RunObeys, Running
  <2>5. QED
    BY <2>2, <2>3, <2>4 DEF Lawful
<1>2. Lawful /\ [Next]_vars => Lawful'
  BY StepKeepsInv, LinesStay, RunStays DEF Lawful
<1>3. QED
  BY <1>1, <1>2, PTL DEF Spec
-----------------------------------------------------------------------------
(* What the store takes *)

\* An event in delivery, or an import, brings the store up to the export.
LEMMA StoreCatchesUp ==
  ASSUME Inv, [Next]_vars, stored' # stored
  PROVE  /\ stored' = log /\ log' = log /\ log # <<>> /\ Used \in Configs
         /\ log \in Seq(EventRecords) /\ stored \in Seq(EventRecords)
         /\ Len(stored) <= Len(log) /\ \A i \in 1..Len(stored) : stored[i] = log[i]
<1>1. (pc = "deliver" /\ stored' = Append(stored, out)) \/ Import
  <2>1. CASE UNCHANGED vars \/ Reserve \/ Refuse \/ Retry
    BY <2>1 DEF vars, Reserve, Refuse, Retry
  <2>2. ASSUME NEW call \in Calls, Warm(call) \/ Ask(call)
        PROVE  FALSE
    BY <2>2 DEF Warm, Ask
  <2>3. CASE Summarize \/ Write \/ WriteRun \/ WriteManifest \/ WriteFails \/ Load
    BY <2>3 DEF Summarize, Write, WriteRun, WriteManifest, WriteFails, Load
  <2>4. CASE Deliver \/ DeliveryFails \/ Crash
    BY <2>4 DEF Deliver, DeliveryFails, Crash
  <2>5. QED
    BY <2>1, <2>2, <2>3, <2>4 DEF Next, Proceed
<1>2. dir
  <2>1. CASE pc = "deliver"
    BY <2>1, AtDeliver
  <2>2. CASE Import
    BY <2>2 DEF Import, Loadable, Inv, BookFit, Blank
  <2>3. QED
    BY <1>1, <2>1, <2>2
<1>3. \E c \in Configs, t \in Seq(EventRecords) : Book(c, t) /\ log = t /\ t # <<>>
  <2>1. CASE pc = "deliver"
    BY <2>1, AtDeliver
  <2>2. CASE Import
    <3>1. manifest \notin {None, Torn} /\ log # <<>>
      BY <2>2 DEF Import, Loadable
    <3>2. PICK c \in Configs, t \in Seq(EventRecords) : Book(c, t)
      BY <1>2 DEF Inv, BookFit
    <3>3. log = t
      BY <3>1, <3>2, BookLoads
    <3>4. QED
      BY <3>1, <3>2, <3>3
  <2>3. QED
    BY <1>1, <2>1, <2>2
<1>4. PICK c \in Configs, t \in Seq(EventRecords) : Book(c, t) /\ log = t /\ t # <<>>
  BY <1>3
<1>5. /\ Len(t) \in Nat /\ DOMAIN t = 1..Len(t)
      /\ stored \in Seq(EventRecords) /\ Len(stored) \in Nat /\ DOMAIN stored = 1..Len(stored)
      /\ Len(stored) <= Len(t) /\ \A i \in 1..Len(stored) : stored[i] = t[i]
  <2>1. /\ Len(t) \in Nat /\ DOMAIN t = 1..Len(t)
        /\ stored \in Seq(EventRecords) /\ Len(stored) \in Nat /\ DOMAIN stored = 1..Len(stored)
    BY <1>4, BookShape
  <2>2. QED
    BY <1>4, <2>1 DEF Book
<1>6. Used \in Configs
  <2>1. Len(t) # 0
    BY <1>4, <1>5, EmptySeq
  <2>2. t[1] = Start(c) /\ Head(t) = t[1]
    BY <1>4, <1>5, <2>1 DEF Book, EventsOf
  <2>3. QED
    BY <1>4, <2>2, StartIsEvent DEF Used
<1>7. log' = log
  <2>1. CASE pc = "deliver"
    BY <2>1, LogMoves
  <2>2. CASE Import
    BY <2>2 DEF Import, files
  <2>3. QED
    BY <1>1, <2>1, <2>2
<1>8. stored' = log
  <2>1. CASE pc = "deliver" /\ stored' = Append(stored, out)
    <3>1. out = t[Len(t)] /\ Len(t) = Len(stored) + 1 /\ out \in EventRecords
      BY <1>4, <2>1, AtDeliver
    <3>2. PICK u \in Seq(EventRecords) :
            /\ u = Append(stored, out) /\ Len(u) = Len(t) /\ u[Len(t)] = t[Len(t)]
            /\ \A i \in 1..Len(stored) : u[i] = t[i]
      <4>1. /\ Append(stored, out) \in Seq(EventRecords)
            /\ Len(Append(stored, out)) = Len(stored) + 1
            /\ Append(stored, out)[Len(stored) + 1] = out
            /\ \A i \in 1..Len(stored) : Append(stored, out)[i] = stored[i]
        BY <1>5, <3>1, AppendProperties
      <4>2. QED
        BY <1>5, <3>1, <4>1
    <3>3. \A i \in 1..Len(t) : i = Len(t) \/ i \in 1..Len(stored)
      BY <1>5, <3>1
    <3>4. \A i \in 1..Len(t) : u[i] = t[i]
      BY <3>2, <3>3
    <3>5. u = t
      BY <1>5, <3>2, <3>4, SeqEqual
    <3>6. QED
      BY <1>4, <2>1, <3>2, <3>5
  <2>2. CASE Import
    BY <2>2 DEF Import
  <2>3. QED
    BY <1>1, <2>1, <2>2
<1>9. QED
  BY <1>4, <1>5, <1>6, <1>7, <1>8

\* The first elements of a sequence.
LEMMA FirstPart ==
  ASSUME NEW X, NEW s \in Seq(X), NEW k \in Nat, k <= Len(s)
  PROVE  /\ SubSeq(s, 1, k) \in Seq(X) /\ Len(SubSeq(s, 1, k)) = k
         /\ \A i \in 1..k : SubSeq(s, 1, k)[i] = s[i]
<1>1. DOMAIN s = 1..Len(s) /\ Len(s) \in Nat
  BY LenProperties
<1>2. \A i \in 1..k : s[i] \in X /\ 1 + i - 1 = i
  BY <1>1
<1>3. 1 \in Int /\ k \in Int /\ k - 1 + 1 = k
  OBVIOUS
<1>4. /\ SubSeq(s, 1, k) \in Seq(X)
      /\ Len(SubSeq(s, 1, k)) = IF 1 <= k THEN k - 1 + 1 ELSE 0
      /\ \A i \in 1..(k - 1 + 1) : SubSeq(s, 1, k)[i] = s[1 + i - 1]
  BY <1>2, <1>3, SubSeqProperties
<1>5. (IF 1 <= k THEN k - 1 + 1 ELSE 0) = k
  BY <1>3
<1>6. QED
  BY <1>2, <1>3, <1>4, <1>5

\* A sequence cut in two: what comes before an element of the second part.
LEMMA Cut ==
  ASSUME NEW X, NEW E \in Seq(X), NEW k \in Nat, k <= Len(E)
  PROVE  LET old == SubSeq(E, 1, k)
             new == SubSeq(E, k + 1, Len(E))
         IN /\ old \o new = E /\ DOMAIN new = 1..(Len(E) - k)
            /\ \A i \in 1..(Len(E) - k) :
                 /\ new[i] = E[k + i] /\ k + i \in 1..Len(E)
                 /\ old \o SubSeq(new, 1, i - 1) = SubSeq(E, 1, k + i - 1)
                 /\ DOMAIN SubSeq(new, 1, i - 1) = 1..(i - 1)
                 /\ \A j \in 1..(i - 1) : SubSeq(new, 1, i - 1)[j] = E[k + j]
<1>1. PICK n \in Nat : n = Len(E) /\ k <= n
  BY LenProperties
<1>2. DOMAIN E = 1..n /\ \A i \in 1..n : E[i] \in X
  BY <1>1, LenProperties
<1>3. PICK old \in Seq(X) : 
        /\ old = SubSeq(E, 1, k) /\ Len(old) = k /\ \A i \in 1..k : old[i] = E[i]
  <2>1. /\ SubSeq(E, 1, k) \in Seq(X) /\ Len(SubSeq(E, 1, k)) = k
        /\ \A i \in 1..k : SubSeq(E, 1, k)[i] = E[i]
    BY FirstPart
  <2>2. QED
    BY <2>1
<1>4. PICK new \in Seq(X) :
        /\ new = SubSeq(E, k + 1, n) /\ Len(new) = n - k
        /\ \A i \in 1..(n - k) : new[i] = E[k + i]
  <2>1. /\ SubSeq(E, k + 1, n) \in Seq(X) /\ Len(SubSeq(E, k + 1, n)) = n - k
        /\ \A i \in 1..(n - k) : SubSeq(E, k + 1, n)[i] = E[k + i]
    BY <1>1, <1>2
  <2>2. QED
    BY <2>1
<1>5. DOMAIN new = 1..(n - k)
  BY <1>4, LenProperties
<1>6. old \o new = E
  <2>1. /\ old \o new \in Seq(X) /\ Len(old \o new) = n
        /\ \A i \in 1..n : (old \o new)[i] = E[i]
    <3>1. /\ old \o new \in Seq(X) /\ Len(old \o new) = Len(old) + Len(new)
          /\ \A i \in 1..(Len(old) + Len(new)) :
               (old \o new)[i] = IF i <= Len(old) THEN old[i] ELSE new[i - Len(old)]
      BY ConcatProperties
    <3>2. Len(old) + Len(new) = n
      <4>1. Len(old) = k /\ Len(new) = n - k
        BY <1>3, <1>4
      <4>2. QED
        BY <1>1, <4>1
    <3>3. \A i \in 1..n : \/ i <= k /\ i \in 1..k
                          \/ ~(i <= k) /\ i - k \in 1..(n - k) /\ k + (i - k) = i
      BY <1>1
    <3>4. QED
      BY <1>3, <1>4, <3>1, <3>2, <3>3
  <2>2. QED
    BY <1>1, <2>1, SeqEqual
<1>7. ASSUME NEW i \in 1..(n - k)
      PROVE  /\ k + i \in 1..n
             /\ old \o SubSeq(new, 1, i - 1) = SubSeq(E, 1, k + i - 1)
             /\ DOMAIN SubSeq(new, 1, i - 1) = 1..(i - 1)
             /\ \A j \in 1..(i - 1) : SubSeq(new, 1, i - 1)[j] = E[k + j]
  <2>1. k + i \in 1..n
    BY <1>1
  <2>2. PICK s \in Seq(X) :
          /\ s = SubSeq(new, 1, i - 1) /\ Len(s) = i - 1
          /\ \A j \in 1..(i - 1) : s[j] = E[k + j]
    <3>1. /\ SubSeq(new, 1, i - 1) \in Seq(X) /\ Len(SubSeq(new, 1, i - 1)) = i - 1
          /\ \A j \in 1..(i - 1) : SubSeq(new, 1, i - 1)[j] = new[j] /\ j \in 1..(n - k)
      BY <1>1, <1>4, <1>5
    <3>2. QED
      BY <1>4, <3>1
  <2>3. DOMAIN s = 1..(i - 1)
    BY <2>2, LenProperties
  <2>4. PICK m \in Nat : m = k + i - 1 /\ m <= n
    BY <1>1
  <2>5. PICK u \in Seq(X) : u = SubSeq(E, 1, m) /\ Len(u) = m /\ \A j \in 1..m : u[j] = E[j]
    <3>1. m <= Len(E)
      BY <1>1, <2>4
    <3>2. /\ SubSeq(E, 1, m) \in Seq(X) /\ Len(SubSeq(E, 1, m)) = m
          /\ \A j \in 1..m : SubSeq(E, 1, m)[j] = E[j]
      BY <3>1, FirstPart
    <3>3. QED
      BY <3>2
  <2>6. /\ old \o s \in Seq(X) /\ Len(old \o s) = m
        /\ \A j \in 1..m : (old \o s)[j] = E[j]
    <3>1. /\ old \o s \in Seq(X) /\ Len(old \o s) = Len(old) + Len(s)
          /\ \A j \in 1..(Len(old) + Len(s)) :
               (old \o s)[j] = IF j <= Len(old) THEN old[j] ELSE s[j - Len(old)]
      BY ConcatProperties
    <3>2. Len(old) + Len(s) = m
      BY <1>1, <1>3, <2>2, <2>4
    <3>3. \A j \in 1..m : \/ j <= k /\ j \in 1..k
                          \/ ~(j <= k) /\ j - k \in 1..(i - 1) /\ k + (j - k) = j
      BY <1>1, <2>4
    <3>4. ASSUME NEW j \in 1..m
          PROVE  (old \o s)[j] = E[j]
      <4>1. (old \o s)[j] = IF j <= k THEN old[j] ELSE s[j - k]
        BY <1>3, <3>1, <3>2
      <4>2. CASE j <= k
        BY <1>3, <3>3, <4>1, <4>2
      <4>3. CASE ~(j <= k)
        <5>1. j - k \in 1..(i - 1) /\ k + (j - k) = j
          BY <3>3, <4>3
        <5>2. s[j - k] = E[k + (j - k)]
          BY <2>2, <5>1
        <5>3. QED
          BY <4>1, <4>3, <5>1, <5>2
      <4>4. QED
        BY <4>2, <4>3
    <3>5. QED
      BY <3>1, <3>2, <3>4
  <2>7. old \o s = u
    BY <2>5, <2>6, SeqEqual
  <2>8. QED
    BY <2>1, <2>2, <2>3, <2>4, <2>5, <2>7
<1>8. QED
  BY <1>1, <1>3, <1>4, <1>5, <1>6, <1>7

\* What the store holds of the run, as the ledger sees it.
Held == IF stored = <<>> THEN None
        ELSE [meta |-> Used, role |-> TheRole, log |-> AsEvents(stored)]

\* The events the store lacks may follow those it holds, in their order.
LEMMA StepObeys ==
  ASSUME Lawful, [Next]_vars, stored' # stored
  PROVE  Ledger!Write(TheRun, Used, TheRole, Added)
<1> DEFINE E == AsEvents(log)
           old == SubSeq(E, 1, Len(stored))
           new == SubSeq(E, Len(stored) + 1, Len(E))
<1>1. /\ stored' = log /\ log' = log /\ log # <<>> /\ Used \in Configs
      /\ log \in Seq(EventRecords) /\ stored \in Seq(EventRecords)
      /\ Len(stored) <= Len(log) /\ \A i \in 1..Len(stored) : stored[i] = log[i]
  BY StoreCatchesUp DEF Lawful
<1>2. PICK k \in Nat, n \in Nat :
        k = Len(stored) /\ n = Len(log) /\ k <= n /\ DOMAIN stored = 1..k /\ DOMAIN log = 1..n
  BY <1>1, LenProperties
<1>3. /\ E \in Seq(LedgerEvents) /\ Len(E) = n /\ DOMAIN E = 1..n
      /\ \A i \in 1..n : /\ E[i] = EventAt(log, i) /\ E[i].run = TheRun /\ E[i].id = i
                         /\ E[i] \in LedgerEvents
  BY <1>1, <1>2, EventsSeen
<1>4. /\ old \o new = E /\ DOMAIN new = 1..(n - k)
      /\ \A i \in 1..(n - k) :
           /\ new[i] = E[k + i] /\ k + i \in 1..n
           /\ old \o SubSeq(new, 1, i - 1) = SubSeq(E, 1, k + i - 1)
           /\ DOMAIN SubSeq(new, 1, i - 1) = 1..(i - 1)
           /\ \A j \in 1..(i - 1) : SubSeq(new, 1, i - 1)[j] = E[k + j]
  <2>1. PICK F \in Seq(LedgerEvents) : F = E /\ Len(F) = n
    BY <1>3
  <2>2. k <= Len(F)
    BY <1>2, <2>1
  <2>3. LET a == SubSeq(F, 1, k)
            b == SubSeq(F, k + 1, Len(F))
        IN /\ a \o b = F /\ DOMAIN b = 1..(Len(F) - k)
           /\ \A i \in 1..(Len(F) - k) :
                /\ b[i] = F[k + i] /\ k + i \in 1..Len(F)
                /\ a \o SubSeq(b, 1, i - 1) = SubSeq(F, 1, k + i - 1)
                /\ DOMAIN SubSeq(b, 1, i - 1) = 1..(i - 1)
                /\ \A j \in 1..(i - 1) : SubSeq(b, 1, i - 1)[j] = F[k + j]
    BY <2>2, Cut
  <2>4. Len(stored) = k
    BY <1>2
  <2> HIDE DEF E
  <2>5. QED
    BY <2>1, <2>3, <2>4
<1>5. AsEvents(stored) = old
  <2>1. /\ old \in Seq(LedgerEvents) /\ Len(old) = k /\ \A i \in 1..k : old[i] = E[i]
    BY <1>2, <1>3, FirstPart
  <2>2. /\ AsEvents(stored) \in Seq(LedgerEvents) /\ Len(AsEvents(stored)) = k
        /\ \A i \in 1..k : AsEvents(stored)[i] = EventAt(stored, i)
    BY <1>1, <1>2, EventsSeen
  <2>3. \A i \in 1..k : EventAt(stored, i) = EventAt(log, i) /\ i \in 1..n
    BY <1>1, <1>2 DEF EventAt
  <2>4. \A i \in 1..k : old[i] = AsEvents(stored)[i]
    BY <1>3, <2>1, <2>2, <2>3
  <2>5. QED
    BY <2>1, <2>2, <2>4, SeqEqual
<1>6. Added = new
  BY <1>1, <1>2, <1>3 DEF Added
<1>7. /\ stored # <<>> => Held # None /\ Held.meta = Used /\ Held.role = TheRole /\ Held.log = old
      /\ stored = <<>> => Held = None /\ old = <<>>
  <2>1. CASE stored = <<>>
    <3>1. AsEvents(stored) = <<>>
      BY <1>1, <2>1, EventsSeen
    <3>2. QED
      BY <1>5, <2>1, <3>1 DEF Held
  <2>2. CASE stored # <<>>
    <3>1. AsEvents(stored) \in Seq(LedgerEvents)
      BY <1>1, EventsSeen
    <3>2. Held = [meta |-> Used, role |-> TheRole, log |-> AsEvents(stored)]
      BY <2>2 DEF Held
    <3>3. Held \in [meta : Configs, role : {TheRole}, log : Seq(LedgerEvents)]
      BY <1>1, <3>1, <3>2
    <3>4. QED
      BY <1>5, <2>2, <3>2, <3>3, StorageAssumption
  <2>3. QED
    BY <2>1, <2>2
<1>8. \A i \in 1..n : AsEvents(SubSeq(log, 1, i - 1)) = SubSeq(E, 1, i - 1)
  <2>1. TAKE i \in 1..n
  <2>2. PICK m \in Nat : m = i - 1 /\ m <= n
    BY <1>2
  <2>3. /\ SubSeq(log, 1, m) \in Seq(EventRecords) /\ Len(SubSeq(log, 1, m)) = m
        /\ \A j \in 1..m : SubSeq(log, 1, m)[j] = log[j]
    BY <1>1, <1>2, <2>2, FirstPart
  <2>4. /\ SubSeq(E, 1, m) \in Seq(LedgerEvents) /\ Len(SubSeq(E, 1, m)) = m
        /\ \A j \in 1..m : SubSeq(E, 1, m)[j] = E[j]
    BY <1>3, <2>2, FirstPart
  <2>5. PICK s \in Seq(EventRecords) :
          s = SubSeq(log, 1, m) /\ Len(s) = m /\ \A j \in 1..m : s[j] = log[j]
    BY <2>3
  <2>6. /\ AsEvents(s) \in Seq(LedgerEvents) /\ Len(AsEvents(s)) = m
        /\ \A j \in 1..m : AsEvents(s)[j] = EventAt(s, j)
    BY <2>5, EventsSeen
  <2>7. \A j \in 1..m : EventAt(s, j) = EventAt(log, j) /\ j \in 1..n
    BY <2>2, <2>5 DEF EventAt
  <2>8. \A j \in 1..m : AsEvents(s)[j] = SubSeq(E, 1, m)[j]
    BY <1>3, <2>4, <2>6, <2>7
  <2>9. AsEvents(s) = SubSeq(E, 1, m)
    BY <2>4, <2>6, <2>8, SeqEqual
  <2>10. QED
    BY <2>2, <2>5, <2>9
<1>9. \A i \in 1..n : Ledger!MayFollow(Used, SubSeq(E, 1, i - 1), E[i])
  <2>1. \A i \in 1..n : log[i] # Torn
    BY <1>1, <1>2, NoneAssumption
  <2>2. QED
    BY <1>2, <1>3, <1>8, <2>1 DEF Lawful, LinesObey
<1> HIDE DEF E, old, new
<1>10. \A x \in Ledger!AllIds : \E j \in DOMAIN old : x = old[j].id
  BY <1>7 DEF Ledger!AllIds, Ledger!Books, Ledger!IdsIn, Held
<1>11. ASSUME NEW i \in 1..(n - k)
       PROVE  /\ new[i].run = TheRun
              /\ \A j \in DOMAIN SubSeq(new, 1, i - 1) : SubSeq(new, 1, i - 1)[j].id # new[i].id
              /\ \A j \in DOMAIN old : old[j].id # new[i].id
              /\ Ledger!MayFollow(Used, old \o SubSeq(new, 1, i - 1), new[i])
  <2>1. new[i] = E[k + i] /\ k + i \in 1..n /\ new[i].run = TheRun /\ new[i].id = k + i
    BY <1>3, <1>4
  <2>2. \A j \in 1..(i - 1) : SubSeq(new, 1, i - 1)[j].id = k + j /\ k + j # k + i
    <3>1. \A j \in 1..(i - 1) : j \in 1..(n - k) /\ k + j # k + i
      BY <1>2
    <3>2. QED
      BY <1>3, <1>4, <3>1
  <2>3. \A j \in DOMAIN old : old[j].id = j /\ j # k + i
    <3>1. DOMAIN old = 1..k /\ \A j \in 1..k : old[j] = EventAt(stored, j) /\ EventAt(stored, j).id = j
      BY <1>1, <1>2, <1>5, EventsSeen
    <3>2. \A j \in 1..k : j # k + i
      BY <1>2
    <3>3. QED
      BY <3>1, <3>2
  <2>4. Ledger!MayFollow(Used, SubSeq(E, 1, k + i - 1), E[k + i])
    BY <1>9, <2>1
  <2>5. /\ old \o SubSeq(new, 1, i - 1) = SubSeq(E, 1, k + i - 1)
        /\ DOMAIN SubSeq(new, 1, i - 1) = 1..(i - 1)
    BY <1>4
  <2>6. Ledger!MayFollow(Used, old \o SubSeq(new, 1, i - 1), new[i])
    BY <2>1, <2>4, <2>5
  <2>7. QED
    BY <2>1, <2>2, <2>3, <2>5, <2>6
<1>12. \A i \in DOMAIN new :
         /\ new[i].run = TheRun
         /\ new[i].id \notin Ledger!AllIds \cup Ledger!IdsIn(SubSeq(new, 1, i - 1))
         /\ Ledger!MayFollow(Used, old \o SubSeq(new, 1, i - 1), new[i])
  <2>1. TAKE i \in DOMAIN new
  <2>2. i \in 1..(n - k)
    BY <1>4
  <2>3. new[i].id \notin Ledger!AllIds
    BY <1>10, <1>11, <2>2
  <2>4. new[i].id \notin Ledger!IdsIn(SubSeq(new, 1, i - 1))
    <3> DEFINE before == SubSeq(new, 1, i - 1)
    <3>1. \A j \in DOMAIN before : before[j].id # new[i].id
      BY <1>11, <2>2
    <3> HIDE DEF before
    <3>2. new[i].id \notin Ledger!IdsIn(before)
      BY <3>1 DEF Ledger!IdsIn
    <3>3. QED
      BY <3>2 DEF before
  <2>5. QED
    BY <1>11, <2>2, <2>3, <2>4
<1> DEFINE books == [r \in {TheRun} |-> Held]
<1>13. (IF books[TheRun] = None THEN <<>> ELSE books[TheRun].log) = old
  BY <1>7
<1>14. books[TheRun] # None => books[TheRun].meta = Used /\ books[TheRun].role = TheRole
  BY <1>7
<1>15. books' = [books EXCEPT ![TheRun] = [meta |-> Used, role |-> TheRole, log |-> old \o new]]
  <2>1. Held' = [meta |-> Used, role |-> TheRole, log |-> old \o new]
    BY <1>1, <1>4 DEF Held, E, Used, AsEvents, EventAt
  <2>2. QED
    BY <2>1
<1>16. Ledger!Write(TheRun, Used, TheRole, new)
  BY <1>1, <1>12, <1>13, <1>14, <1>15 DEF Ledger!Write, Held
<1>17. QED
  BY <1>6, <1>16
-----------------------------------------------------------------------------
(* Theorem *)

\* Whatever evaluate delivers, and whatever finalized export is imported later,
\* the store has no reason to refuse it: the order of the events, the plan, the
\* one failure and the summary are what the ledger asks for.
THEOREM NothingRefused == Spec => NeverRefused
<1>1. Lawful /\ [Next]_vars =>
        [stored' # stored => Ledger!Write(TheRun, Used, TheRole, Added)]_stored
  BY StepObeys
<1>2. QED
  BY <1>1, LawAbiding, PTL DEF NeverRefused, Spec
=============================================================================
