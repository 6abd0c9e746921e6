--------------------------- MODULE QueryCacheProofs ---------------------------
(***************************************************************************)
(* Proofs about the query embedding cache: what a call returns is what is  *)
(* on disk, and the processes together implement the write-once map.       *)
(*                                                                         *)
(* Both rest on the same invariant: an entry that is bound stays bound     *)
(* to its vector, so that what a process has read back stays true; and a   *)
(* torn manifest belongs to the one process that is writing it, so that    *)
(* a whole one is never written again.                                     *)
(***************************************************************************)
EXTENDS QueryCache, TLAPS, SequenceTheorems

Storing(p) == pc[p] \in {"store", "publish", "lost"}
Building(p) == pc[p] \in {"check", "scan", "batch", "reference", "open", "write"}

\* A process is where its call can be.
JobOK(p) ==
  /\ pc[p] # "idle" => job[p] \in Jobs
  /\ pc[p] \in {"lookup", "live"} => job[p].kind = "embed"
  /\ Storing(p) => job[p].kind \in {"embed", "build"}
  /\ Building(p) => job[p].kind = "build"
  /\ pc[p] = "validate" => job[p].kind \in {"build", "load"}

\* A miss before and after the provider has answered.
Missing == [q : Questions, v : {None}]
Answered == [q : Questions, v : Vectors]

\* The misses of a call: questions without a vector until the provider has answered.
MissesOK(p) ==
  /\ pc[p] \in {"idle", "check"} => todo[p] = <<>>
  /\ pc[p] \in {"scan", "batch"} => todo[p] \in Seq(Missing)
  /\ pc[p] = "batch" => todo[p] # <<>>
  /\ Storing(p) =>
       /\ todo[p] \in Seq(Answered) /\ todo[p] # <<>>
       /\ job[p].kind = "embed" => todo[p] = <<[q |-> job[p].question, v |-> out[p]]>>

\* What a build has read back is what the entries of its questions hold.
ReadOK(p) ==
  /\ pc[p] \in {"idle", "check", "batch"} => read[p] = <<>>
  /\ Storing(p) /\ job[p].kind = "build" => read[p] = <<>>
  /\ pc[p] = "scan" =>
       read[p] \in Seq({None}) /\ Len(read[p]) < Len(job[p].dataset.questions)
  /\ pc[p] = "reference" => Len(read[p]) < Len(job[p].dataset.questions)
  /\ pc[p] \in {"open", "write"} => Len(read[p]) = Len(job[p].dataset.questions)
  /\ pc[p] \in {"reference", "open", "write"} =>
       /\ read[p] \in Seq(Vectors)
       /\ \A i \in 1..Len(read[p]) : read[p][i] = entries[Text[job[p].dataset.questions[i]]]

\* A manifest that is being written is torn, and one process writes it.
WriterOK ==
  \A p \in Processes : pc[p] = "write" =>
    /\ collections[job[p].dataset.version] = Torn
    /\ \A q \in Processes :
         pc[q] = "write" /\ job[q].dataset.version = job[p].dataset.version => q = p

Returned(p) ==
  pc[p] = "ok" =>
    IF job[p].kind = "embed"
    THEN job[p].mode # "disabled" =>
           out[p] \in Vectors /\ entries[Text[job[p].question]] = out[p]
    ELSE Valid(collections[job[p].dataset.version], job[p].dataset)

Shape ==
  /\ entries \in [Texts -> Vectors \cup {None}]
  /\ DOMAIN collections = Versions
  /\ pc \in [Processes -> Steps \cup {"idle", "ok", "error"}]
  /\ DOMAIN job = Processes /\ DOMAIN todo = Processes
  /\ DOMAIN read = Processes /\ DOMAIN out = Processes

ProcessOK(p) == JobOK(p) /\ MissesOK(p) /\ ReadOK(p) /\ Returned(p)

Inv ==
  /\ Shape
  /\ WriterOK
  /\ \A p \in Processes : ProcessOK(p)
-----------------------------------------------------------------------------
\* The head and the tail of a sequence.
LEMMA RestOfSeq ==
  ASSUME NEW S, NEW s \in Seq(S), s # <<>>
  PROVE  /\ Head(s) \in S /\ Tail(s) \in Seq(S) /\ Len(s) \in Nat \ {0}
         /\ Len(s) > 1 => Tail(s) # <<>>
<1>1. Head(s) \in S /\ Tail(s) \in Seq(S) /\ Len(Tail(s)) = Len(s) - 1
  BY HeadTailProperties
<1>2. Len(s) \in Nat \ {0}
  BY LenProperties, EmptySeq
<1>3. ASSUME Tail(s) = <<>>
      PROVE  Len(Tail(s)) = 0
  BY <1>3, EmptySeq
<1>4. Len(s) > 1 => Len(Tail(s)) # 0
  BY <1>1, <1>2
<1> QED
  BY <1>1, <1>2, <1>3, <1>4

\* What a call may be about.
LEMMA JobShape ==
  ASSUME NEW j \in Jobs
  PROVE  /\ j.kind \in {"embed", "build", "load"}
         /\ j.kind = "embed" =>
              /\ j.question \in Questions /\ Text[j.question] \in Texts
              /\ j.mode \in {"disabled", "read-only", "read-write"}
         /\ j.kind # "embed" =>
              /\ j.dataset \in Datasets /\ j.dataset.version \in Versions
              /\ j.dataset.questions \in Seq(Questions) /\ j.dataset.questions # <<>>
              /\ \A i \in 1..Len(j.dataset.questions) : Text[j.dataset.questions[i]] \in Texts
BY DatasetAssumption DEF Jobs, Texts, Versions

\* A process that does nothing keeps its part of the invariant while entries and
\* whole manifests stay.
LEMMA OthersKeep ==
  ASSUME Inv, NEW q \in Processes,
         pc'[q] = pc[q], job'[q] = job[q], todo'[q] = todo[q],
         read'[q] = read[q], out'[q] = out[q],
         \A t \in Texts : entries[t] # None => entries'[t] = entries[t],
         \A v \in Versions : collections[v] \notin {None, Torn} =>
           collections'[v] = collections[v]
  PROVE  ProcessOK(q)'
<1>1. JobOK(q) /\ MissesOK(q) /\ ReadOK(q) /\ Returned(q)
  BY DEF Inv, ProcessOK
<1>2. JobOK(q)' /\ MissesOK(q)'
  BY <1>1 DEF JobOK, MissesOK, Storing, Building
<1>3. ReadOK(q)'
  <2>1. ASSUME pc[q] \in {"reference", "open", "write"}, NEW i \in 1..Len(read[q])
        PROVE  read[q][i] = entries'[Text[job[q].dataset.questions[i]]]
    <3>1. job[q] \in Jobs /\ job[q].kind = "build"
      BY <1>1, <2>1 DEF JobOK, Building
    <3>2. /\ read[q] \in Seq(Vectors) /\ Len(read[q]) <= Len(job[q].dataset.questions)
          /\ read[q][i] = entries[Text[job[q].dataset.questions[i]]]
      BY <1>1, <2>1, <3>1, JobShape DEF ReadOK
    <3>3. Text[job[q].dataset.questions[i]] \in Texts /\ read[q][i] # None
      BY <3>1, <3>2, JobShape, NoneAssumption
    <3> QED
      BY <3>2, <3>3
  <2> QED
    BY <1>1, <2>1 DEF ReadOK, Storing
<1>4. Returned(q)'
  <2>1. CASE pc[q] = "ok" /\ job[q].kind = "embed"
    BY <1>1, <2>1, JobShape, NoneAssumption DEF Returned, JobOK
  <2>2. CASE pc[q] = "ok" /\ job[q].kind # "embed"
    <3> DEFINE d == job[q].dataset
    <3>1. /\ d \in Datasets /\ d.version \in Versions /\ d.questions \in Seq(Questions)
          /\ \A i \in DOMAIN d.questions : Text[d.questions[i]] \in Texts
      BY <1>1, <2>2, JobShape DEF JobOK
    <3>2. Valid(collections[d.version], d)
      BY <1>1, <2>2 DEF Returned
    <3>3. collections'[d.version] = collections[d.version]
      BY <3>1, <3>2 DEF Valid
    <3>4. Valid(collections[d.version], d)'
      BY <3>1, <3>2, <3>3 DEF Valid
    <3> QED
      BY <2>2, <3>4 DEF Returned
  <2> QED
    BY <2>1, <2>2 DEF Returned
<1> QED
  BY <1>2, <1>3, <1>4 DEF ProcessOK

\* A step of p changes no other process.
Only(p) ==
  \A q \in Processes \ {p} :
    /\ pc'[q] = pc[q] /\ job'[q] = job[q] /\ todo'[q] = todo[q]
    /\ read'[q] = read[q] /\ out'[q] = out[q]

\* A step that leaves the disk alone and does not begin to write a manifest is judged by
\* what it does to its own process.
LEMMA QuietStep ==
  ASSUME Inv, NEW p \in Processes, UNCHANGED disk, Only(p),
         pc'[p] # "write", Shape', ProcessOK(p)'
  PROVE  Inv'
<1>1. ASSUME NEW q \in Processes \ {p}
      PROVE  ProcessOK(q)'
  BY OthersKeep DEF Only, disk
<1>2. WriterOK'
  BY DEF Inv, WriterOK, Only, disk
<1> QED
  BY <1>1, <1>2 DEF Inv

\* The cold cache with no call under way satisfies the invariant.
LEMMA InitInv == Init => Inv
BY DEF Init, Inv, Shape, WriterOK, ProcessOK, JobOK, MissesOK, ReadOK, Returned,
       Storing, Building

\* A call begins at the step its kind and mode ask for, with nothing collected.
LEMMA BeginInv ==
  ASSUME Inv, NEW p \in Processes, Begin(p)
  PROVE  Inv'
<1>1. PICK j \in Jobs :
        /\ job' = [job EXCEPT ![p] = j]
        /\ pc' = [pc EXCEPT ![p] = CASE j.kind = "build" -> "check"
                                      [] j.kind = "load" -> "validate"
                                      [] j.kind = "embed" /\ j.mode = "disabled" -> "live"
                                      [] OTHER -> "lookup"]
  BY DEF Begin, Goto
<1>2. UNCHANGED <<disk, todo, read, out>> /\ pc[p] = "idle"
  BY DEF Begin
<1>3. Shape' /\ job'[p] = j /\ Only(p)
  BY <1>1, <1>2 DEF Inv, Shape, Steps, Only, disk
<1>4. \/ pc'[p] = "check" /\ j.kind = "build"
      \/ pc'[p] = "validate" /\ j.kind = "load"
      \/ pc'[p] \in {"live", "lookup"} /\ j.kind = "embed"
  BY <1>1, JobShape DEF Inv, Shape
<1>5. ProcessOK(p)'
  BY <1>2, <1>3, <1>4 DEF Inv, ProcessOK, JobOK, MissesOK, ReadOK, Returned, Storing, Building
<1> QED
  BY <1>2, <1>3, <1>4, <1>5, QuietStep

\* A hit is what is on disk.
LEMMA LookupInv ==
  ASSUME Inv, NEW p \in Processes, Lookup(p)
  PROVE  Inv'
<1>1. JobOK(p) /\ job[p] \in Jobs /\ job[p].kind = "embed" /\ Text[job[p].question] \in Texts
  BY JobShape DEF Inv, ProcessOK, JobOK, Lookup
<1>2. Shape' /\ Only(p) /\ pc'[p] \in {"ok", "error", "live"}
  BY DEF Inv, Shape, Steps, Only, disk, Lookup, Goto
<1>3. /\ UNCHANGED <<disk, job, todo, read>>
      /\ pc'[p] = "ok" => out'[p] = entries[Text[job[p].question]] /\ out'[p] # None
  BY DEF Inv, Shape, Lookup, Goto
<1>4. ProcessOK(p)'
  BY <1>1, <1>2, <1>3
     DEF Inv, Shape, ProcessOK, JobOK, MissesOK, ReadOK, Returned, Storing, Building, disk
<1> QED
  BY <1>2, <1>3, <1>4, QuietStep

\* A vector of the provider is returned as it is, or becomes the one miss to store.
LEMMA LiveInv ==
  ASSUME Inv, NEW p \in Processes, Live(p)
  PROVE  Inv'
<1>1. JobOK(p) /\ job[p] \in Jobs /\ job[p].kind = "embed" /\ job[p].question \in Questions
  BY JobShape DEF Inv, ProcessOK, JobOK, Live
<1>2. PICK v \in Vectors :
        /\ out' = [out EXCEPT ![p] = v]
        /\ IF job[p].mode = "disabled"
           THEN Goto(p, "ok") /\ UNCHANGED todo
           ELSE /\ Goto(p, "store")
                /\ todo' = [todo EXCEPT ![p] = <<[q |-> job[p].question, v |-> v]>>]
  BY DEF Live
<1>3. UNCHANGED <<disk, job, read>>
  BY DEF Live
<1>4. Shape' /\ Only(p) /\ pc'[p] \in {"ok", "store"}
  BY <1>2, <1>3 DEF Inv, Shape, Steps, Only, disk, Goto
<1>5. ProcessOK(p)'
  <2>1. CASE job[p].mode = "disabled"
    BY <1>1, <1>2, <1>3, <2>1
       DEF Inv, Shape, ProcessOK, JobOK, MissesOK, ReadOK, Returned, Storing, Building, Goto
  <2>2. CASE job[p].mode # "disabled"
    <3>1. /\ pc'[p] = "store" /\ out'[p] = v
          /\ todo'[p] = <<[q |-> job[p].question, v |-> v]>>
      BY <1>2, <2>2 DEF Inv, Shape, Goto
    <3>2. [q |-> job[p].question, v |-> v] \in Answered
      BY <1>1 DEF Answered
    <3>3. todo'[p] \in Seq(Answered) /\ todo'[p] # <<>>
      BY <3>1, <3>2
    <3> QED
      BY <1>1, <1>3, <3>1, <3>3
         DEF ProcessOK, JobOK, MissesOK, ReadOK, Returned, Storing, Building
  <2> QED
    BY <2>1, <2>2
<1> QED
  BY <1>3, <1>4, <1>5, QuietStep

\* A provider that fails ends the call.
LEMMA ProviderFailsInv ==
  ASSUME Inv, NEW p \in Processes, ProviderFails(p)
  PROVE  Inv'
<1>1. Shape' /\ Only(p) /\ pc'[p] = "error" /\ UNCHANGED <<disk, job>>
  BY DEF Inv, Shape, Steps, Only, disk, ProviderFails, Goto
<1>2. ProcessOK(p)'
  BY <1>1 DEF Inv, ProcessOK, JobOK, MissesOK, ReadOK, Returned, Storing, Building,
              ProviderFails
<1> QED
  BY <1>1, <1>2, QuietStep

\* The miss that is due is one of the call's questions, with its vector.
LEMMA DueTyped ==
  ASSUME Inv, NEW p \in Processes, Storing(p)
  PROVE  /\ job[p] \in Jobs /\ job[p].kind \in {"embed", "build"}
         /\ todo[p] \in Seq(Answered) /\ todo[p] # <<>>
         /\ Due(p).v \in Vectors /\ Key(p) \in Texts
<1>1. /\ job[p] \in Jobs /\ job[p].kind \in {"embed", "build"}
      /\ todo[p] \in Seq(Answered) /\ todo[p] # <<>>
  BY DEF Inv, ProcessOK, JobOK, MissesOK, Storing
<1>2. Due(p) \in Answered
  BY <1>1, RestOfSeq DEF Due
<1> QED
  BY <1>1, <1>2 DEF Key, Texts, Answered

\* store has returned: the vector of the miss is on disk.
LEMMA StoredKeeps ==
  ASSUME Inv, NEW p \in Processes, Storing(p), Stored(p), UNCHANGED <<job, read, out>>,
         entries'[Key(p)] = Due(p).v
  PROVE  ProcessOK(p)' /\ pc'[p] \in {"store", "reference", "ok"}
<1>0. /\ job[p] \in Jobs /\ job[p].kind \in {"embed", "build"}
      /\ todo[p] \in Seq(Answered) /\ todo[p] # <<>>
      /\ Due(p).v \in Vectors
  BY DueTyped
<1>1. /\ todo'[p] = Tail(todo[p])
      /\ pc'[p] = IF Len(todo[p]) > 1 THEN "store"
                  ELSE IF job[p].kind = "build" THEN "reference" ELSE "ok"
  BY DEF Stored, Goto, Inv, Shape
<1>2. JobOK(p)'
  BY <1>0, <1>1 DEF JobOK, Storing, Building
<1>3. job[p].kind = "build" => read[p] = <<>>
  BY DEF Inv, ProcessOK, ReadOK
<1>4. job[p].kind = "embed" => todo[p] = <<[q |-> job[p].question, v |-> out[p]]>>
  BY DEF Inv, ProcessOK, MissesOK
<1>5. Len(todo[p]) > 1 =>
        /\ Tail(todo[p]) \in Seq(Answered)
        /\ Tail(todo[p]) # <<>> /\ job[p].kind = "build"
  <2>1. ASSUME NEW x
        PROVE  Len(<<x>>) = 1
    OBVIOUS
  <2>2. job[p].kind = "embed" => Len(todo[p]) = 1
    BY <1>4, <2>1
  <2>3. Len(todo[p]) > 1 => Tail(todo[p]) \in Seq(Answered) /\ Tail(todo[p]) # <<>>
    BY <1>0, RestOfSeq
  <2>4. Len(todo[p]) > 1 => job[p].kind = "build"
    <3>1. ~(1 > 1)
      OBVIOUS
    <3> QED
      BY <1>0, <2>2, <3>1
  <2> QED
    BY <2>3, <2>4
<1>6. MissesOK(p)'
  BY <1>1, <1>5 DEF MissesOK, Storing
<1>7. ReadOK(p)'
  <2>1. CASE job[p].kind = "build"
    <3>1. read'[p] = <<>> /\ pc'[p] \in {"store", "reference"}
      BY <1>1, <1>3, <2>1
    <3>2. Len(<<>>) < Len(job'[p].dataset.questions)
      BY <1>0, <2>1, JobShape
    <3> QED
      BY <3>1, <3>2 DEF ReadOK, Storing
  <2>2. CASE job[p].kind # "build"
    BY <1>0, <1>1, <2>2 DEF ReadOK, Storing
  <2> QED
    BY <2>1, <2>2
<1>8. Returned(p)'
  <2>1. ASSUME pc'[p] = "ok"
        PROVE  job[p].kind = "embed" /\ Key(p) = Text[job[p].question] /\ Due(p).v = out[p]
    BY <1>0, <1>1, <1>4, <2>1 DEF Key, Due
  <2> QED
    BY <1>0, <2>1 DEF Returned
<1> QED
  BY <1>1, <1>2, <1>6, <1>7, <1>8 DEF ProcessOK

\* Equal to the entry on disk counts as stored, different is an error.
LEMMA SettleInv ==
  ASSUME Inv, NEW p \in Processes, Storing(p), Settle(p), UNCHANGED <<disk, job, read, out>>
  PROVE  Inv'
<1>1. CASE entries[Key(p)] = Due(p).v
  <2>1. Stored(p) /\ entries'[Key(p)] = Due(p).v
    BY <1>1 DEF Settle, disk
  <2>2. ProcessOK(p)' /\ pc'[p] \in {"store", "reference", "ok"}
    BY <2>1, StoredKeeps
  <2>3. Shape' /\ Only(p)
    BY <2>1, <2>2 DEF Stored, Goto, Inv, Shape, Steps, Only, disk
  <2> QED
    BY <2>2, <2>3, QuietStep
<1>2. CASE entries[Key(p)] # Due(p).v
  <2>1. Shape' /\ Only(p) /\ pc'[p] = "error"
    BY <1>2 DEF Settle, Goto, Inv, Shape, Steps, Only, disk
  <2>2. ProcessOK(p)'
    BY <2>1, DueTyped DEF ProcessOK, JobOK, MissesOK, ReadOK, Returned, Storing, Building
  <2> QED
    BY <2>1, <2>2, QuietStep
<1> QED
  BY <1>1, <1>2

\* store looks for an entry first.
LEMMA StoreInv ==
  ASSUME Inv, NEW p \in Processes, Store(p)
  PROVE  Inv'
<1>1. CASE entries[Key(p)] = None
  <2>1. Shape' /\ Only(p) /\ pc'[p] = "publish" /\ UNCHANGED <<disk, job, todo, read, out>>
    BY <1>1 DEF Store, Goto, Inv, Shape, Steps, Only, disk
  <2>2. ProcessOK(p)'
    BY <2>1 DEF Inv, ProcessOK, JobOK, MissesOK, ReadOK, Returned, Storing, Building, Store
  <2> QED
    BY <2>1, <2>2, QuietStep
<1>2. CASE entries[Key(p)] # None
  BY <1>2, SettleInv DEF Store, Storing
<1> QED
  BY <1>1, <1>2

\* The loser of a publication settles with the winner.
LEMMA LostInv ==
  ASSUME Inv, NEW p \in Processes, Lost(p)
  PROVE  Inv'
BY SettleInv DEF Lost, Storing

\* A publication binds a free text and leaves a bound one alone, so that no other
\* process sees an entry change.
LEMMA PublishInv ==
  ASSUME Inv, NEW p \in Processes, Publish(p)
  PROVE  Inv'
<1> Storing(p)
  BY DEF Publish, Storing
<1>1. CASE entries[Key(p)] = None
  <2>1. /\ entries' = [entries EXCEPT ![Key(p)] = Due(p).v]
        /\ Stored(p) /\ UNCHANGED <<collections, job, read, out>>
    BY <1>1 DEF Publish
  <2>2. entries'[Key(p)] = Due(p).v
    BY <2>1, DueTyped DEF Inv, Shape
  <2>3. ProcessOK(p)' /\ pc'[p] \in {"store", "reference", "ok"}
    BY <2>1, <2>2, StoredKeeps
  <2>4. Shape' /\ Only(p)
    BY <2>1, <2>3, DueTyped DEF Stored, Goto, Inv, Shape, Steps, Only
  <2>5. \A t \in Texts : entries[t] # None => entries'[t] = entries[t]
    BY <1>1, <2>1 DEF Inv, Shape
  <2>6. ASSUME NEW q \in Processes \ {p}
        PROVE  ProcessOK(q)'
    BY <2>1, <2>4, <2>5, OthersKeep DEF Only
  <2>7. WriterOK'
    BY <2>1, <2>3, <2>4 DEF Inv, WriterOK, Only
  <2> QED
    BY <2>3, <2>4, <2>6, <2>7 DEF Inv
<1>2. CASE entries[Key(p)] # None
  <2>1. Shape' /\ Only(p) /\ pc'[p] = "lost" /\ UNCHANGED <<disk, job, todo, read, out>>
    BY <1>2 DEF Publish, Goto, Inv, Shape, Steps, Only, disk
  <2>2. ProcessOK(p)'
    BY <2>1 DEF Inv, ProcessOK, JobOK, MissesOK, ReadOK, Returned, Storing, Building
  <2> QED
    BY <2>1, <2>2, QuietStep
<1> QED
  BY <1>1, <1>2

\* A build starts to collect its misses, or loads the manifest that is there.
LEMMA CheckInv ==
  ASSUME Inv, NEW p \in Processes, Check(p)
  PROVE  Inv'
<1>1. /\ Shape' /\ Only(p) /\ pc'[p] \in {"validate", "scan"}
      /\ UNCHANGED <<disk, job, todo, read, out>>
  BY DEF Check, Goto, Inv, Shape, Steps, Only, disk
<1>2. /\ job[p] \in Jobs /\ job[p].kind = "build" /\ todo[p] = <<>> /\ read[p] = <<>>
      /\ job[p].dataset.questions \in Seq(Questions) /\ job[p].dataset.questions # <<>>
  BY JobShape DEF Inv, ProcessOK, JobOK, MissesOK, ReadOK, Building, Check
<1>3. ProcessOK(p)'
  BY <1>1, <1>2 DEF ProcessOK, JobOK, MissesOK, ReadOK, Returned, Storing, Building
<1> QED
  BY <1>1, <1>3, QuietStep

\* A miss is a question of the dataset, and the scan never counts past the last one.
LEMMA ScanInv ==
  ASSUME Inv, NEW p \in Processes, Scan(p)
  PROVE  Inv'
<1> DEFINE d == job[p].dataset
           questions == d.questions
           i == Len(read[p]) + 1
           miss == [q |-> questions[i], v |-> None]
<1>1. /\ pc[p] = "scan" /\ job[p] \in Jobs /\ job[p].kind = "build"
      /\ todo[p] \in Seq(Missing)
      /\ read[p] \in Seq({None}) /\ Len(read[p]) < Len(questions)
  BY DEF Scan, Inv, ProcessOK, JobOK, MissesOK, ReadOK, Building
<1>2. d \in Datasets /\ questions \in Seq(Questions)
  BY <1>1, JobShape
<1>3. i \in 1..Len(questions) /\ Len(read[p]) \in Nat /\ Len(questions) \in Nat
  BY <1>1, <1>2, LenProperties
<1>4. miss \in Missing
  BY <1>2, <1>3, ElementOfSeq DEF Missing
<1>5. PICK misses \in {todo[p], Append(todo[p], miss)} :
        /\ todo' = [todo EXCEPT ![p] = misses]
        /\ IF i < Len(questions)
           THEN read' = [read EXCEPT ![p] = Append(@, None)] /\ UNCHANGED pc
           ELSE /\ read' = [read EXCEPT ![p] = <<>>]
                /\ Goto(p, IF misses = <<>> THEN "reference" ELSE "batch")
  BY DEF Scan
<1>6. misses \in Seq(Missing)
  <2>1. Append(todo[p], miss) \in Seq(Missing)
    <3> HIDE DEF miss
    <3> QED
      BY <1>1, <1>4, AppendProperties
  <2> QED
    BY <1>1, <1>5, <2>1
<1>7. UNCHANGED <<disk, job, out>>
  BY DEF Scan
<1>8. Shape' /\ Only(p) /\ pc'[p] \in {"scan", "reference", "batch"}
  BY <1>1, <1>5, <1>7 DEF Goto, Inv, Shape, Steps, Only, disk
<1>9. todo'[p] = misses
  BY <1>5 DEF Inv, Shape
<1>10. CASE i < Len(questions)
  <2>1. pc'[p] = "scan" /\ read'[p] = Append(read[p], None)
    BY <1>1, <1>5, <1>10 DEF Inv, Shape
  <2>2. read'[p] \in Seq({None}) /\ Len(read'[p]) < Len(questions)
    BY <1>1, <1>10, <2>1, AppendProperties
  <2>3. ProcessOK(p)'
    BY <1>1, <1>6, <1>7, <1>9, <2>1, <2>2
       DEF ProcessOK, JobOK, MissesOK, ReadOK, Returned, Storing, Building
  <2> QED
    BY <1>7, <1>8, <2>1, <2>3, QuietStep
<1>11. CASE ~(i < Len(questions))
  <2>1. /\ read'[p] = <<>>
        /\ pc'[p] = IF misses = <<>> THEN "reference" ELSE "batch"
    BY <1>5, <1>11 DEF Inv, Shape, Goto
  <2>2. Len(<<>>) = 0 /\ <<>> \in Seq(Vectors) /\ 1..0 = {}
    BY EmptySeq
  <2>3. 0 < Len(questions)
    BY <1>3
  <2>4. ReadOK(p)'
    BY <1>7, <2>1, <2>2, <2>3 DEF ReadOK, Storing
  <2>5. ProcessOK(p)'
    BY <1>1, <1>6, <1>7, <1>9, <2>1, <2>4
       DEF ProcessOK, JobOK, MissesOK, Returned, Storing, Building
  <2> QED
    BY <1>7, <1>8, <2>1, <2>5, QuietStep
<1> QED
  BY <1>10, <1>11

\* The batch gives every miss a vector.
LEMMA BatchInv ==
  ASSUME Inv, NEW p \in Processes, Batch(p)
  PROVE  Inv'
<1>1. /\ pc[p] = "batch" /\ job[p] \in Jobs /\ job[p].kind = "build"
      /\ todo[p] \in Seq(Missing) /\ todo[p] # <<>> /\ read[p] = <<>>
  BY DEF Batch, Inv, ProcessOK, JobOK, MissesOK, ReadOK, Building
<1>2. PICK vs \in [DOMAIN todo[p] -> Vectors] :
        todo' = [todo EXCEPT ![p] = [i \in DOMAIN @ |-> [@[i] EXCEPT !.v = vs[i]]]]
  BY DEF Batch
<1>3. UNCHANGED <<disk, job, read, out>> /\ pc' = [pc EXCEPT ![p] = "store"]
  BY DEF Batch, Goto
<1>4. Shape' /\ Only(p) /\ pc'[p] = "store"
  BY <1>2, <1>3 DEF Inv, Shape, Steps, Only, disk
<1>5. todo'[p] = [i \in 1..Len(todo[p]) |-> [todo[p][i] EXCEPT !.v = vs[i]]]
  <2>1. DOMAIN todo[p] = 1..Len(todo[p])
    BY <1>1, LenProperties
  <2> QED
    BY <1>2, <2>1 DEF Inv, Shape
<1>6. todo'[p] \in Seq(Answered) /\ todo'[p] # <<>>
  <2>1. Len(todo[p]) \in Nat \ {0} /\ DOMAIN todo[p] = 1..Len(todo[p])
    BY <1>1, RestOfSeq, LenProperties
  <2>2. ASSUME NEW i \in 1..Len(todo[p])
        PROVE  [todo[p][i] EXCEPT !.v = vs[i]] \in Answered
    <3>1. todo[p][i] \in Missing /\ vs[i] \in Vectors
      BY <1>1, <1>2, <2>1, ElementOfSeq
    <3> QED
      BY <3>1 DEF Missing, Answered
  <2>3. todo'[p] \in [1..Len(todo[p]) -> Answered]
    BY <1>5, <2>2
  <2>4. todo'[p] \in Seq(Answered) /\ Len(todo'[p]) = Len(todo[p])
    BY <2>1, <2>3, SeqDef, LenProperties
  <2> QED
    BY <2>1, <2>4, EmptySeq
<1>7. ProcessOK(p)'
  BY <1>1, <1>3, <1>4, <1>6 DEF ProcessOK, JobOK, MissesOK, ReadOK, Returned, Storing, Building
<1> QED
  BY <1>3, <1>4, <1>7, QuietStep

\* A reference is the vector read back, for the next question of the dataset.
LEMMA ReferenceInv ==
  ASSUME Inv, NEW p \in Processes, Reference(p)
  PROVE  Inv'
<1> DEFINE d == job[p].dataset
           questions == d.questions
           i == Len(read[p]) + 1
           found == entries[Text[questions[i]]]
<1>1. /\ pc[p] = "reference" /\ job[p] \in Jobs /\ job[p].kind = "build"
      /\ read[p] \in Seq(Vectors) /\ Len(read[p]) < Len(questions)
      /\ \A k \in 1..Len(read[p]) : read[p][k] = entries[Text[questions[k]]]
  BY DEF Reference, Inv, ProcessOK, JobOK, ReadOK, Building
<1>2. d \in Datasets /\ questions \in Seq(Questions)
      /\ \A k \in 1..Len(questions) : Text[questions[k]] \in Texts
  BY <1>1, JobShape
<1>3. i \in 1..Len(questions) /\ Len(read[p]) \in Nat /\ Len(questions) \in Nat
  BY <1>1, <1>2, LenProperties
<1>4. found \in Vectors \cup {None}
  BY <1>2, <1>3 DEF Inv, Shape
<1>5. /\ UNCHANGED <<disk, job, todo, out>>
      /\ read' = [read EXCEPT ![p] = Append(@, found)]
      /\ Goto(p, CASE found = None -> "error"
                   [] found # None /\ Len(read'[p]) = Len(questions) -> "open"
                   [] OTHER -> "reference")
  BY DEF Reference
<1>6. read'[p] = Append(read[p], found)
  BY <1>5 DEF Inv, Shape
<1>7. \/ pc'[p] = "error"
      \/ pc'[p] = "open" /\ found # None /\ Len(read'[p]) = Len(questions)
      \/ pc'[p] = "reference" /\ found # None /\ Len(read'[p]) # Len(questions)
  BY <1>5 DEF Goto, Inv, Shape
<1>8. Shape' /\ Only(p) /\ pc'[p] # "write"
  BY <1>5, <1>7 DEF Goto, Inv, Shape, Steps, Only, disk
<1>9. ASSUME pc'[p] = "error"
      PROVE  ProcessOK(p)'
  BY <1>1, <1>5, <1>9 DEF ProcessOK, JobOK, MissesOK, ReadOK, Returned, Storing, Building
<1>10. ASSUME found # None, pc'[p] \in {"open", "reference"}
       PROVE  ProcessOK(p)'
  <2>1. /\ read'[p] \in Seq(Vectors) /\ Len(read'[p]) = i
        /\ \A k \in 1..Len(read[p]) : read'[p][k] = read[p][k]
        /\ read'[p][i] = found
    <3> HIDE DEF found
    <3>1. found \in Vectors
      BY <1>4, <1>10
    <3>2. /\ Append(read[p], found) \in Seq(Vectors)
          /\ Len(Append(read[p], found)) = Len(read[p]) + 1
          /\ \A k \in 1..Len(read[p]) : Append(read[p], found)[k] = read[p][k]
          /\ Append(read[p], found)[Len(read[p]) + 1] = found
      BY <1>1, <3>1, AppendProperties
    <3> QED
      BY <1>6, <3>2
  <2>2. \A k \in 1..Len(read'[p]) : read'[p][k] = entries[Text[questions[k]]]
    <3>1. \A k \in 1..i : k = i \/ k \in 1..Len(read[p])
      BY <1>3
    <3> QED
      BY <1>1, <2>1, <3>1
  <2>3. /\ pc'[p] = "open" => Len(read'[p]) = Len(questions)
        /\ pc'[p] = "reference" => Len(read'[p]) < Len(questions)
    <3>1. i # Len(questions) => i < Len(questions)
      BY <1>3
    <3>2. pc'[p] = "open" => Len(read'[p]) = Len(questions)
      BY <1>7
    <3>3. pc'[p] = "reference" => Len(read'[p]) # Len(questions)
      BY <1>7
    <3> QED
      BY <2>1, <3>1, <3>2, <3>3
  <2>4. ReadOK(p)'
    BY <1>5, <1>10, <2>1, <2>2, <2>3 DEF ReadOK, Storing, disk
  <2> QED
    BY <1>1, <1>5, <1>10, <2>4 DEF ProcessOK, JobOK, MissesOK, Returned, Storing, Building
<1> QED
  BY <1>5, <1>7, <1>8, <1>9, <1>10, QuietStep

\* The process that creates the manifest is the only one that writes it.
LEMMA OpenInv ==
  ASSUME Inv, NEW p \in Processes, Open(p)
  PROVE  Inv'
<1> DEFINE version == job[p].dataset.version
<1>1. /\ pc[p] = "open" /\ job[p] \in Jobs /\ job[p].kind = "build"
      /\ UNCHANGED <<entries, job, todo, read, out>>
  BY DEF Open, Inv, ProcessOK, JobOK, Building
<1>2. version \in Versions
  BY <1>1, JobShape
<1>3. CASE collections[version] = None
  <2>1. /\ collections' = [collections EXCEPT ![version] = Torn]
        /\ pc' = [pc EXCEPT ![p] = "write"]
    BY <1>3 DEF Open, Goto
  <2>2. Shape' /\ Only(p) /\ pc'[p] = "write" /\ collections'[version] = Torn
    BY <1>1, <1>2, <2>1 DEF Inv, Shape, Steps, Only
  <2>3. \A v \in Versions : collections[v] \notin {None, Torn} =>
          collections'[v] = collections[v]
    BY <1>3, <2>1 DEF Inv, Shape
  <2>4. ASSUME NEW q \in Processes \ {p}
        PROVE  ProcessOK(q)'
    BY <1>1, <2>2, <2>3, OthersKeep DEF Only
  <2>5. ProcessOK(p)'
    BY <1>1, <2>2 DEF Inv, ProcessOK, JobOK, MissesOK, ReadOK, Returned, Storing, Building
  <2>6. WriterOK'
    <3>1. ASSUME NEW q \in Processes, pc[q] = "write"
          PROVE  /\ collections[job[q].dataset.version] = Torn
                 /\ job[q].dataset.version \in Versions
                 /\ job[q].dataset.version # version
      BY <1>3, <3>1, NoneAssumption, JobShape DEF Inv, WriterOK, ProcessOK, JobOK, Building
    <3>2. ASSUME NEW q \in Processes, pc'[q] = "write", q # p
          PROVE  /\ collections'[job'[q].dataset.version] = Torn
                 /\ job'[q].dataset.version # version
      BY <1>1, <2>1, <2>2, <3>1, <3>2 DEF Only, Inv, Shape
    <3> QED
      BY <1>1, <2>2, <3>2 DEF WriterOK, Inv, Only
  <2> QED
    BY <2>2, <2>4, <2>5, <2>6 DEF Inv
<1>4. CASE collections[version] # None
  <2>1. Shape' /\ Only(p) /\ pc'[p] = "error" /\ UNCHANGED <<disk, job>>
    BY <1>1, <1>4 DEF Open, Goto, Inv, Shape, Steps, Only, disk
  <2>2. ProcessOK(p)'
    BY <1>1, <2>1 DEF ProcessOK, JobOK, MissesOK, ReadOK, Returned, Storing, Building
  <2> QED
    BY <2>1, <2>2, QuietStep
<1> QED
  BY <1>3, <1>4

\* The manifest of the collection that is being written is torn, no other process
\* writes it, and the vectors it is about to list are those on disk.
LEMMA WriteReady ==
  ASSUME Inv, NEW p \in Processes, pc[p] = "write"
  PROVE  LET d == job[p].dataset IN
           /\ d \in Datasets /\ d.version \in Versions
           /\ job[p] \in Jobs /\ job[p].kind = "build"
           /\ collections[d.version] = Torn
           /\ DOMAIN d.questions = 1..Len(d.questions)
           /\ read[p] \in [DOMAIN d.questions -> Vectors]
           /\ \A i \in DOMAIN d.questions :
                /\ Text[d.questions[i]] \in Texts
                /\ read[p][i] = entries[Text[d.questions[i]]] /\ read[p][i] # None
<1> DEFINE d == job[p].dataset
<1>1. /\ job[p] \in Jobs /\ job[p].kind = "build" /\ collections[d.version] = Torn
      /\ read[p] \in Seq(Vectors) /\ Len(read[p]) = Len(d.questions)
      /\ \A i \in 1..Len(read[p]) : read[p][i] = entries[Text[d.questions[i]]]
  BY DEF Inv, WriterOK, ProcessOK, JobOK, ReadOK, Building
<1>2. /\ d \in Datasets /\ d.version \in Versions /\ d.questions \in Seq(Questions)
      /\ \A i \in 1..Len(d.questions) : Text[d.questions[i]] \in Texts
  BY <1>1, JobShape
<1>3. DOMAIN d.questions = 1..Len(d.questions) /\ read[p] \in [1..Len(read[p]) -> Vectors]
  BY <1>1, <1>2, LenProperties
<1> QED
  BY <1>1, <1>2, <1>3, NoneAssumption

\* Writing a manifest completes a torn one and touches no whole one.
LEMMA WriteInv ==
  ASSUME Inv, NEW p \in Processes, Write(p)
  PROVE  Inv'
<1> DEFINE d == job[p].dataset
<1>1. pc[p] = "write" /\ UNCHANGED <<entries, job, todo, read, out>>
  BY DEF Write
<1>2. /\ job[p] \in Jobs /\ job[p].kind = "build"
      /\ d.version \in Versions /\ collections[d.version] = Torn
  BY <1>1, WriteReady
<1>3. /\ collections' = [collections EXCEPT ![d.version] = Manifest(d, read[p])]
      /\ pc' = [pc EXCEPT ![p] = "validate"]
  BY DEF Write, Goto
<1>4. Shape' /\ Only(p) /\ pc'[p] = "validate"
  BY <1>1, <1>3 DEF Inv, Shape, Steps, Only
<1>5. \A v \in Versions : collections[v] \notin {None, Torn} =>
        collections'[v] = collections[v]
  BY <1>2, <1>3 DEF Inv, Shape
<1>6. ASSUME NEW q \in Processes \ {p}
      PROVE  ProcessOK(q)'
  BY <1>1, <1>4, <1>5, OthersKeep DEF Only
<1>7. ProcessOK(p)'
  BY <1>1, <1>2, <1>4 DEF ProcessOK, JobOK, MissesOK, ReadOK, Returned, Storing, Building
<1>8. WriterOK'
  <2>1. ASSUME NEW q \in Processes, pc'[q] = "write"
        PROVE  /\ q # p /\ pc[q] = "write" /\ job'[q] = job[q]
               /\ job[q].dataset.version # d.version
               /\ collections[job[q].dataset.version] = Torn
    BY <1>1, <1>4, <2>1 DEF Only, Inv, WriterOK
  <2>2. ASSUME NEW q \in Processes, pc'[q] = "write"
        PROVE  collections'[job'[q].dataset.version] = Torn
    <3>1. job[q].dataset.version \in Versions
      BY <2>1, <2>2, WriteReady
    <3> QED
      BY <1>3, <2>1, <2>2, <3>1 DEF Inv, Shape
  <2> QED
    BY <2>1, <2>2 DEF WriterOK, Inv
<1> QED
  BY <1>4, <1>6, <1>7, <1>8 DEF Inv

\* A build or a load that succeeds has seen its references hold.
LEMMA ValidateInv ==
  ASSUME Inv, NEW p \in Processes, Validate(p)
  PROVE  Inv'
<1>1. /\ pc[p] = "validate" /\ job[p] \in Jobs /\ job[p].kind \in {"build", "load"}
      /\ UNCHANGED <<disk, job, todo, read, out>>
  BY DEF Validate, Inv, ProcessOK, JobOK
<1>2. /\ Shape' /\ Only(p) /\ pc'[p] \in {"ok", "error"}
      /\ pc'[p] = "ok" => Valid(collections[job[p].dataset.version], job[p].dataset)
  BY <1>1 DEF Validate, Goto, Inv, Shape, Steps, Only, disk
<1>3. ProcessOK(p)'
  BY <1>1, <1>2
     DEF ProcessOK, JobOK, MissesOK, ReadOK, Returned, Storing, Building, Valid, disk
<1> QED
  BY <1>1, <1>2, <1>3, QuietStep

\* A call that has ended, or whose process has died, leaves nothing behind but the disk.
LEMMA ForgetInv ==
  ASSUME Inv, NEW p \in Processes, Goto(p, "idle"), Forget(p), UNCHANGED disk
  PROVE  Inv'
<1>1. /\ Shape' /\ Only(p) /\ pc'[p] = "idle"
      /\ todo'[p] = <<>> /\ read'[p] = <<>>
  BY DEF Forget, Goto, Inv, Shape, Only, disk
<1>2. ProcessOK(p)'
  BY <1>1 DEF ProcessOK, JobOK, MissesOK, ReadOK, Returned, Storing, Building
<1> QED
  BY <1>1, <1>2, QuietStep

\* Every step keeps the invariant.
LEMMA InvStep == Inv /\ [Next]_vars => Inv'
<1> SUFFICES ASSUME Inv, [Next]_vars
             PROVE  Inv'
  OBVIOUS
<1>1. ASSUME NEW p \in Processes, Begin(p) \/ Return(p) \/ Crash(p)
      PROVE  Inv'
  BY <1>1, BeginInv, ForgetInv DEF Return, Crash
<1>2. ASSUME NEW p \in Processes, Proceed(p)
      PROVE  Inv'
  BY <1>2, LookupInv, LiveInv, ProviderFailsInv, StoreInv, PublishInv, LostInv, CheckInv,
     ScanInv, BatchInv, ReferenceInv, OpenInv, WriteInv, ValidateInv DEF Proceed
<1>3. CASE UNCHANGED vars
  BY <1>3 DEF vars, disk, Inv, Shape, WriterOK, ProcessOK, JobOK, MissesOK, ReadOK, Returned,
              Storing, Building, Valid
<1> QED
  BY <1>1, <1>2, <1>3 DEF Next

\* The invariant of the cache: bound entries stay bound, so that what a process has read
\* back or returned stays true, and a torn manifest has one writer.
THEOREM Invariance == Spec => []Inv
<1> QED
  BY InitInv, InvStep, PTL DEF Spec

\* A caller that gets a vector through the cache gets the one on disk, whichever of two
\* concurrent publications won; a build or load that succeeds has a collection whose
\* references hold.
THEOREM ReturnedAreStored == Spec => []ReturnedIsStored
<1>1. Inv => ReturnedIsStored
  BY DEF Inv, ProcessOK, Returned, ReturnedIsStored
<1> QED
  BY <1>1, Invariance, PTL
-----------------------------------------------------------------------------
(* The write-once map *)

\* The cold cache is the empty map.
LEMMA InitImplements == Init => Map!Init
<1> SUFFICES ASSUME Init
             PROVE  Map!Init
  OBVIOUS
<1>1. ASSUME NEW v \in Versions
      PROVE  (IF collections[v] = Torn THEN None ELSE collections[v]) = None
  BY DEF Init
<1> QED
  BY <1>1 DEF Init, Map!Init, Versions

\* A step that binds no entry and keeps every whole manifest is not seen in the map.
LEMMA StutterImplements ==
  ASSUME UNCHANGED entries,
         \A v \in Versions : \/ collections'[v] = collections[v]
                             \/ collections[v] = None /\ collections'[v] = Torn
  PROVE  UNCHANGED Map!vars
<1>1. ASSUME NEW v \in Versions
      PROVE  (IF collections'[v] = Torn THEN None ELSE collections'[v])
               = (IF collections[v] = Torn THEN None ELSE collections[v])
  BY NoneAssumption
<1> QED
  BY <1>1 DEF Map!vars

\* Publishing an entry binds its text, which was free.
LEMMA PublishImplements ==
  ASSUME Inv, NEW p \in Processes, Publish(p)
  PROVE  [Map!Next]_(Map!vars)
<1>1. Key(p) \in Texts /\ Due(p).v \in Vectors
  BY DueTyped DEF Publish, Storing
<1>2. CASE entries[Key(p)] = None
  <2>1. Map!Bind(Key(p), Due(p).v)
    BY <1>2 DEF Publish, Map!Bind
  <2> QED
    BY <1>1, <2>1 DEF Map!Next
<1>3. CASE entries[Key(p)] # None
  BY <1>3, StutterImplements DEF Publish
<1> QED
  BY <1>2, <1>3

\* Writing a manifest freezes the collection of its dataset, with the vectors the map
\* holds for its questions.
LEMMA WriteImplements ==
  ASSUME Inv, NEW p \in Processes, Write(p)
  PROVE  [Map!Next]_(Map!vars)
<1> DEFINE d == job[p].dataset
           Frozen(v) == IF collections[v] = Torn THEN None ELSE collections[v]
           bound == [i \in DOMAIN d.questions |-> entries[Text[d.questions[i]]]]
<1>1. pc[p] = "write"
  BY DEF Write
<1>2. /\ d \in Datasets /\ d.version \in Versions /\ collections[d.version] = Torn
      /\ read[p] \in [DOMAIN d.questions -> Vectors]
      /\ \A i \in DOMAIN d.questions :
           read[p][i] = entries[Text[d.questions[i]]] /\ read[p][i] # None
  BY <1>1, WriteReady
<1>3. read[p] = bound
  BY <1>2
<1>4. /\ UNCHANGED entries
      /\ collections' = [collections EXCEPT ![d.version] = [dataset |-> d, vectors |-> bound]]
  BY <1>3 DEF Write, Manifest
<1>5. [dataset |-> d, vectors |-> bound] # Torn
  BY <1>2, <1>3, NoneAssumption
<1>6. [v \in Versions |-> Frozen(v)]'
        = [[v \in Versions |-> Frozen(v)] EXCEPT ![d.version] =
             [dataset |-> d, vectors |-> bound]]
  <2>1. ASSUME NEW v \in Versions
        PROVE  Frozen(v)' = IF v = d.version THEN [dataset |-> d, vectors |-> bound]
                            ELSE Frozen(v)
    BY <1>2, <1>4, <1>5 DEF Inv, Shape
  <2> QED
    BY <2>1
<1>7. PICK e \in Datasets : e = d
  BY <1>2
<1>8. Map!Freeze(e)
  BY <1>2, <1>4, <1>6, <1>7 DEF Map!Freeze
<1> QED
  BY <1>8 DEF Map!Next

\* Every step is a step of the map, or none.
LEMMA NextImplements == Inv /\ [Next]_vars => [Map!Next]_(Map!vars)
<1> SUFFICES ASSUME Inv, [Next]_vars
             PROVE  [Map!Next]_(Map!vars)
  OBVIOUS
<1>1. ASSUME NEW p \in Processes, Begin(p) \/ Return(p) \/ Crash(p)
      PROVE  UNCHANGED Map!vars
  BY <1>1, StutterImplements DEF Begin, Return, Crash, disk
<1>2. ASSUME NEW p \in Processes,
             \/ Lookup(p) \/ Live(p) \/ ProviderFails(p) \/ Store(p) \/ Lost(p)
             \/ Check(p) \/ Scan(p) \/ Batch(p) \/ Reference(p) \/ Validate(p)
      PROVE  UNCHANGED Map!vars
  BY <1>2, StutterImplements
     DEF Lookup, Live, ProviderFails, Store, Lost, Check, Scan, Batch, Reference, Validate, disk
<1>3. ASSUME NEW p \in Processes, Open(p)
      PROVE  UNCHANGED Map!vars
  <2>1. \A v \in Versions : \/ collections'[v] = collections[v]
                            \/ collections[v] = None /\ collections'[v] = Torn
    BY <1>3 DEF Open, Inv, Shape
  <2> QED
    BY <1>3, <2>1, StutterImplements DEF Open
<1>4. CASE UNCHANGED vars
  BY <1>4, StutterImplements DEF vars, disk
<1> QED
  BY <1>1, <1>2, <1>3, <1>4, PublishImplements, WriteImplements DEF Next, Proceed

\* The processes together implement the write-once map: a text is bound once and for ever,
\* and a dataset version gets at most one complete manifest, with what the map holds.
THEOREM ProcessesImplementMap == Spec => ImplementsMap
<1> QED
  BY InitImplements, NextImplements, Invariance, PTL DEF Spec, ImplementsMap, Map!Spec
=============================================================================
