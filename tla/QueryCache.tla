------------------------------ MODULE QueryCache ------------------------------
(***************************************************************************)
(* The query embedding cache on disk and the processes that use it: an     *)
(* embedding call in one of the three modes, the build of the frozen       *)
(* collection of a dataset, and the validation of a collection.            *)
(*                                                                         *)
(* An entry is a directory that a rename publishes with its vector and     *)
(* manifest inside; a collection manifest is written in place, so that it  *)
(* is torn until it is complete.  The provider may fail, and may give one  *)
(* text different vectors in different calls.  A key is a query text: the  *)
(* cache version, the model and the dimensions are fixed.                  *)
(***************************************************************************)
EXTENDS Naturals, Sequences, SequencesExt

CONSTANTS
  Processes,
  Questions, Text,  \* Text[q]: the exact text of a question
  Vectors,          \* valid embedding vectors
  Datasets,         \* records: version, digest and the sequence of questions
  MaxCrashes,       \* bound on the number of crashes
  None, Torn

ASSUME DatasetAssumption ==
  \A d \in Datasets : d.questions \in Seq(Questions) /\ d.questions # <<>>

ASSUME NoneAssumption ==
  /\ None \notin Vectors /\ Torn # None
  /\ \A d \in Datasets : \A vs \in [DOMAIN d.questions -> Vectors] :
       Torn # [dataset |-> d, vectors |-> vs]

Texts == {Text[q] : q \in Questions}
Versions == {d.version : d \in Datasets}

VARIABLES
  entries,      \* entries[t]: the vector in the entry directory of t, or None
  collections,  \* collections[v]: None, Torn or the manifest of version v
  pc, job,      \* where a process is, and what it was asked for
  todo,         \* cache misses: a question, and its vector once there is one
  read,         \* the vectors a build has read back for its references
  out,          \* the vector an embedding call returns
  crashes

disk == <<entries, collections>>
vars == <<disk, pc, job, todo, read, out, crashes>>

Jobs ==
  [kind : {"embed"}, mode : {"disabled", "read-only", "read-write"}, question : Questions]
    \cup [kind : {"build", "load"}, dataset : Datasets]

Steps == {"lookup", "live", "store", "publish", "lost", "check", "scan", "batch",
          "reference", "open", "write", "validate"}
-----------------------------------------------------------------------------
Init ==
  /\ entries = [t \in Texts |-> None]
  /\ collections = [v \in Versions |-> None]
  /\ pc = [p \in Processes |-> "idle"]
  /\ job = [p \in Processes |-> None]
  /\ todo = [p \in Processes |-> <<>>]
  /\ read = [p \in Processes |-> <<>>]
  /\ out = [p \in Processes |-> None]
  /\ crashes = 0

Goto(p, where) == pc' = [pc EXCEPT ![p] = where]

Forget(p) ==
  /\ job' = [job EXCEPT ![p] = None]
  /\ todo' = [todo EXCEPT ![p] = <<>>]
  /\ read' = [read EXCEPT ![p] = <<>>]
  /\ out' = [out EXCEPT ![p] = None]

Begin(p) ==
  /\ pc[p] = "idle"
  /\ \E j \in Jobs :
       /\ job' = [job EXCEPT ![p] = j]
       /\ Goto(p, CASE j.kind = "build" -> "check"
                    [] j.kind = "load" -> "validate"
                    [] j.kind = "embed" /\ j.mode = "disabled" -> "live"
                    [] OTHER -> "lookup")
  /\ UNCHANGED <<disk, todo, read, out, crashes>>

\* embed_query: a hit is returned, a miss ends a read-only call.
Lookup(p) ==
  /\ pc[p] = "lookup"
  /\ LET found == entries[Text[job[p].question]] IN
       IF found # None
       THEN out' = [out EXCEPT ![p] = found] /\ Goto(p, "ok")
       ELSE /\ UNCHANGED out
            /\ Goto(p, IF job[p].mode = "read-only" THEN "error" ELSE "live")
  /\ UNCHANGED <<disk, job, todo, read, crashes>>

\* The live provider answers; without a cache its vector is returned as it is.
Live(p) ==
  /\ pc[p] = "live"
  /\ \E v \in Vectors :
       /\ out' = [out EXCEPT ![p] = v]
       /\ IF job[p].mode = "disabled"
          THEN Goto(p, "ok") /\ UNCHANGED todo
          ELSE /\ Goto(p, "store")
               /\ todo' = [todo EXCEPT ![p] = <<[q |-> job[p].question, v |-> v]>>]
  /\ UNCHANGED <<disk, job, read, crashes>>

\* The provider raises, or its vectors have the wrong shape or are not finite.
ProviderFails(p) ==
  /\ pc[p] \in {"live", "batch"}
  /\ Goto(p, "error")
  /\ UNCHANGED <<disk, job, todo, read, out, crashes>>

Due(p) == Head(todo[p])
Key(p) == Text[Due(p).q]

\* store has returned: the next miss, or what follows the last one.
Stored(p) ==
  /\ todo' = [todo EXCEPT ![p] = Tail(@)]
  /\ Goto(p, IF Len(todo[p]) > 1 THEN "store"
             ELSE IF job[p].kind = "build" THEN "reference" ELSE "ok")

\* The vector of the due miss against the one on disk.
Settle(p) ==
  IF entries[Key(p)] = Due(p).v
  THEN Stored(p)
  ELSE Goto(p, "error") /\ UNCHANGED todo

\* store looks for an entry first: equal is success, a different one an error.
Store(p) ==
  /\ pc[p] = "store"
  /\ IF entries[Key(p)] = None THEN Goto(p, "publish") /\ UNCHANGED todo ELSE Settle(p)
  /\ UNCHANGED <<disk, job, read, out, crashes>>

\* Fault: the rename replaces an entry that is there.
PublishOver(p) ==
  /\ pc[p] = "publish"
  /\ entries' = [entries EXCEPT ![Key(p)] = Due(p).v]
  /\ Stored(p)
  /\ UNCHANGED <<collections, job, read, out, crashes>>

\* os.replace of the staged directory fails if the entry exists by now.
Publish(p) ==
  /\ pc[p] = "publish"
  /\ IF entries[Key(p)] = None
     THEN entries' = [entries EXCEPT ![Key(p)] = Due(p).v] /\ Stored(p)
     ELSE Goto(p, "lost") /\ UNCHANGED <<entries, todo>>
  /\ UNCHANGED <<collections, job, read, out, crashes>>

\* Fault: whoever won, the entry is there.
LostTrusts(p) ==
  /\ pc[p] = "lost"
  /\ Stored(p)
  /\ UNCHANGED <<disk, job, read, out, crashes>>

\* Fault: the publication is tried again.
LostRetries(p) ==
  /\ pc[p] = "lost"
  /\ Goto(p, "publish")
  /\ UNCHANGED <<disk, job, todo, read, out, crashes>>

\* The loser of a publication compares its vector with the winner's.
Lost(p) ==
  /\ pc[p] = "lost"
  /\ Settle(p)
  /\ UNCHANGED <<disk, job, read, out, crashes>>
-----------------------------------------------------------------------------
(* build_collection and load_collection *)

\* A manifest under the final name is loaded, whatever state it is in.
Check(p) ==
  /\ pc[p] = "check"
  /\ Goto(p, IF collections[job[p].dataset.version] # None THEN "validate" ELSE "scan")
  /\ UNCHANGED <<disk, job, todo, read, out, crashes>>

\* The misses are collected one load after the other; read counts them off.
Scan(p) ==
  /\ pc[p] = "scan"
  /\ LET questions == job[p].dataset.questions
         i == Len(read[p]) + 1
         miss == entries[Text[questions[i]]] = None
         misses == IF miss THEN Append(todo[p], [q |-> questions[i], v |-> None]) ELSE todo[p]
     IN /\ todo' = [todo EXCEPT ![p] = misses]
        /\ IF i < Len(questions)
           THEN read' = [read EXCEPT ![p] = Append(@, None)] /\ UNCHANGED pc
           ELSE /\ read' = [read EXCEPT ![p] = <<>>]
                /\ Goto(p, IF misses = <<>> THEN "reference" ELSE "batch")
  /\ UNCHANGED <<disk, job, out, crashes>>

\* One batch gives every miss its vector.
Batch(p) ==
  /\ pc[p] = "batch"
  /\ \E vs \in [DOMAIN todo[p] -> Vectors] :
       todo' = [todo EXCEPT ![p] = [i \in DOMAIN @ |-> [@[i] EXCEPT !.v = vs[i]]]]
  /\ Goto(p, "store")
  /\ UNCHANGED <<disk, job, read, out, crashes>>

\* A reference binds a question to the vector read back from the cache.
Reference(p) ==
  /\ pc[p] = "reference"
  /\ LET questions == job[p].dataset.questions
         found == entries[Text[questions[Len(read[p]) + 1]]]
     IN /\ read' = [read EXCEPT ![p] = Append(@, found)]
        /\ Goto(p, CASE found = None -> "error"
                     [] found # None /\ Len(read'[p]) = Len(questions) -> "open"
                     [] OTHER -> "reference")
  /\ UNCHANGED <<disk, job, todo, out, crashes>>

\* write_json_exclusive creates the file, or raises if it exists by now.
Open(p) ==
  /\ pc[p] = "open"
  /\ LET version == job[p].dataset.version IN
       IF collections[version] = None
       THEN collections' = [collections EXCEPT ![version] = Torn] /\ Goto(p, "write")
       ELSE Goto(p, "error") /\ UNCHANGED collections
  /\ UNCHANGED <<entries, job, todo, read, out, crashes>>

\* The identity of the dataset, and a vector for every question in its order.
Manifest(d, vectors) == [dataset |-> d, vectors |-> vectors]

Write(p) ==
  /\ pc[p] = "write"
  /\ collections' = [collections EXCEPT ![job[p].dataset.version] =
                       Manifest(job[p].dataset, read[p])]
  /\ Goto(p, "validate")
  /\ UNCHANGED <<entries, job, todo, read, out, crashes>>

\* load_collection: the manifest must be readable and be the caller's dataset,
\* and each reference must match the entry on disk.
Valid(manifest, d) ==
  /\ manifest \notin {None, Torn}
  /\ manifest.dataset = d
  /\ \A i \in DOMAIN d.questions :
       /\ entries[Text[d.questions[i]]] # None
       /\ manifest.vectors[i] = entries[Text[d.questions[i]]]

Validate(p) ==
  /\ pc[p] = "validate"
  /\ Goto(p, IF Valid(collections[job[p].dataset.version], job[p].dataset)
             THEN "ok" ELSE "error")
  /\ UNCHANGED <<disk, job, todo, read, out, crashes>>

\* The call has returned or raised.
Return(p) ==
  /\ pc[p] \in {"ok", "error"}
  /\ Goto(p, "idle")
  /\ Forget(p)
  /\ UNCHANGED <<disk, crashes>>

\* The process dies; its stage directory has a name of its own and stays behind.
Crash(p) ==
  /\ pc[p] \in Steps
  /\ crashes < MaxCrashes
  /\ crashes' = crashes + 1
  /\ Goto(p, "idle")
  /\ Forget(p)
  /\ UNCHANGED disk

Proceed(p) ==
  \/ Lookup(p) \/ Live(p) \/ ProviderFails(p)
  \/ Store(p) \/ Publish(p) \/ Lost(p)
  \/ Check(p) \/ Scan(p) \/ Batch(p) \/ Reference(p)
  \/ Open(p) \/ Write(p) \/ Validate(p)

Next == \E p \in Processes : Begin(p) \/ Proceed(p) \/ Return(p) \/ Crash(p)

Spec == Init /\ [][Next]_vars
FairSpec == Spec /\ \A p \in Processes : WF_vars(Proceed(p))
-----------------------------------------------------------------------------
(* Properties *)

\* A caller that gets a vector through the cache gets the vector every other
\* caller gets, that of the entry on disk, whichever of two concurrent
\* publications won; a caller whose build or load succeeds has a collection
\* whose references hold.
ReturnedIsStored ==
  \A p \in Processes :
    pc[p] = "ok" =>
      IF job[p].kind = "embed"
      THEN job[p].mode # "disabled" => entries[Text[job[p].question]] = out[p]
      ELSE Valid(collections[job[p].dataset.version], job[p].dataset)

Map ==
  INSTANCE CacheMap WITH
    map <- entries,
    frozen <- [v \in Versions |-> IF collections[v] = Torn THEN None ELSE collections[v]]

\* The processes together implement the write-once map: no entry and no complete
\* manifest is ever replaced, and what is frozen is what the map holds.
ImplementsMap == Map!Spec

\* Every call returns or raises, however the publications fall out.
CallsEnd == \A p \in Processes : pc[p] \in Steps ~> pc[p] \notin Steps
=============================================================================
