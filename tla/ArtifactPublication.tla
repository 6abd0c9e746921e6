-------------------------- MODULE ArtifactPublication --------------------------
(***************************************************************************)
(* The versioned artifacts on disk and the processes that publish and use  *)
(* them: the preparation of a dataset and its corpus, the build of the     *)
(* retrieval indexes of a corpus, and the loading of all of them by an     *)
(* evaluation.                                                             *)
(*                                                                         *)
(* An artifact is a directory that is filled in a stage of its own and     *)
(* then renamed to its final path, which succeeds if there is nothing or   *)
(* an empty directory at that path.  A preparation that has published its  *)
(* dataset but not its corpus removes the dataset again.                   *)
(***************************************************************************)
EXTENDS BenchmarkSelection

CONSTANTS
  Processes,
  Configs,      \* preparation configurations
  Sources,      \* Sources[s]: the records of the upstream source with digest s
  IndexVersions,
  MaxCrashes,   \* bound on the number of crashes
  Empty, Torn   \* an empty directory, one that misses some of its files

Kinds == {"bm25", "dense"}
DatasetPath(v) == <<"dataset", v>>
CorpusPath(v) == <<"corpus", v>>
SourcePath(s) == <<"source", s>>
IndexPath(kind, corpus, version) == <<kind, corpus, version>>

Datasets == {c.dataset : c \in Configs}
Corpora == {c.corpus : c \in Configs}
Paths ==
  {DatasetPath(v) : v \in Datasets} \cup {CorpusPath(v) : v \in Corpora}
    \cup {SourcePath(s) : s \in DOMAIN Sources}
    \cup {IndexPath(k, v, i) : k \in Kinds, v \in Corpora, i \in IndexVersions}

Jobs ==
  [kind : {"prepare"}, config : Configs, download : BOOLEAN]
    \cup [kind : {"index"}, corpus : Corpora, version : IndexVersions,
          kinds : {<<"bm25", "dense">>, <<"bm25">>, <<"dense">>}]
    \cup [kind : {"evaluate"}, dataset : Datasets, corpus : Corpora, version : IndexVersions]

VARIABLES
  disk,       \* disk[path]: None, Empty, Torn or the content
  pc, job,    \* where a process is, and what it was asked for
  staged,     \* staged[p]: the prepared artifacts, or the corpus an index is built from
  relied,     \* history: the artifacts a successful call has published or loaded
  orphans,    \* history: datasets whose publisher died before its corpus was published
  crashes

vars == <<disk, pc, job, staged, relied, orphans, crashes>>
Steps == {"fetch", "target", "select", "dataset", "corpus", "clear", "rmdir",
          "open", "new", "build", "publish", "read"}
-----------------------------------------------------------------------------
Whole(content) == content \notin {None, Empty, Torn}
Free(path) == disk[path] \in {None, Empty}

\* The manifests carry the configuration, and with it the version and the source.
DatasetOf(c) == [config |-> c, examples |-> Examples(c, Sources[c.source])]
CorpusOf(c) == [config |-> c, chunks |-> Corpus(c, Sources[c.source])]
IndexOf(kind, corpus) == [kind |-> kind, corpus |-> corpus, chunks |-> corpus.chunks]

\* A preparation selects at least one question, of a source it names.
ASSUME ConfigAssumption ==
  \A c \in Configs : c.source \in DOMAIN Sources /\ c.count \in Nat \ {0}

\* A source is a file of records; IDs and digests are compared.
ASSUME SourceAssumption ==
  \A s \in DOMAIN Sources :
    /\ Sources[s] \in Seq(ToSet(Sources[s]))
    /\ \A r \in ToSet(Sources[s]) : r.id \in Nat /\ \A c \in Configs : Rank(c.seed, r.id) \in Nat

\* An absent, an empty and an incomplete directory are told from each other and
\* from whole artifacts.
ASSUME NoneAssumption ==
  /\ None # Empty /\ None # Torn /\ Empty # Torn
  /\ \A c \in {c \in Configs : Selectable(c, Sources[c.source])} :
       /\ Whole(DatasetOf(c)) /\ Whole(CorpusOf(c))
       /\ \A kind \in Kinds : Whole(IndexOf(kind, CorpusOf(c)))

\* FrozenBenchmark.load: dataset and corpus come from one preparation.
BenchmarkLoads(dataset, corpus) ==
  /\ Whole(dataset) /\ Whole(corpus)
  /\ DatasetValid(dataset.examples) /\ CorpusValid(corpus.chunks)
  /\ dataset.config = corpus.config
  /\ Linked(dataset.examples, corpus.chunks)
  /\ Len(dataset.examples) = dataset.config.count

\* _validate_manifest and _require_corpus_order.
IndexLoads(index, kind, corpus) ==
  /\ Whole(index)
  /\ index.kind = kind /\ index.corpus = corpus /\ index.chunks = corpus.chunks
-----------------------------------------------------------------------------
\* Nothing is published; a source may be there, with the right digest or another.
Init ==
  /\ disk \in [Paths -> {None} \cup DOMAIN Sources]
  /\ \A path \in Paths : disk[path] # None => path[1] = "source"
  /\ pc = [p \in Processes |-> "idle"]
  /\ job = [p \in Processes |-> None]
  /\ staged = [p \in Processes |-> None]
  /\ relied = {} /\ orphans = {} /\ crashes = 0

Goto(p, where) == pc' = [pc EXCEPT ![p] = where]
Config(p) == job[p].config

Begin(p) ==
  /\ pc[p] = "idle"
  /\ \E j \in Jobs :
       /\ job' = [job EXCEPT ![p] = j]
       /\ Goto(p, CASE j.kind = "prepare" -> "fetch"
                    [] j.kind = "index" -> "open"
                    [] OTHER -> "read")
  /\ UNCHANGED <<disk, staged, relied, orphans, crashes>>

\* download_source puts a verified file in place and keeps one that is there
\* if its digest is right; without --download the file must exist.
Fetch(p) ==
  /\ pc[p] = "fetch"
  /\ LET path == SourcePath(Config(p).source) IN
       CASE disk[path] # None /\ ~job[p].download -> Goto(p, "target") /\ UNCHANGED disk
         [] disk[path] # None /\ job[p].download ->
              /\ Goto(p, IF disk[path] = Config(p).source THEN "target" ELSE "error")
              /\ UNCHANGED disk
         [] disk[path] = None /\ ~job[p].download -> Goto(p, "error") /\ UNCHANGED disk
         [] OTHER -> \/ /\ disk' = [disk EXCEPT ![path] = Config(p).source]
                        /\ Goto(p, "target")
                     \/ Goto(p, "error") /\ UNCHANGED disk
  /\ UNCHANGED <<job, staged, relied, orphans, crashes>>

\* _require_new_targets: anything under a final name, even a torn directory, refuses.
Target(p) ==
  /\ pc[p] = "target"
  /\ Goto(p, IF disk[DatasetPath(Config(p).dataset)] = None
                /\ disk[CorpusPath(Config(p).corpus)] = None
             THEN "select" ELSE "error")
  /\ UNCHANGED <<disk, job, staged, relied, orphans, crashes>>

\* The source is verified and selected from, and both artifacts are staged and validated.
Select(p) ==
  /\ pc[p] = "select"
  /\ LET c == Config(p)
         ok == /\ disk[SourcePath(c.source)] = c.source
               /\ Selectable(c, Sources[c.source])
     IN IF ok /\ DatasetValid(DatasetOf(c).examples) /\ CorpusValid(CorpusOf(c).chunks)
              /\ Linked(DatasetOf(c).examples, CorpusOf(c).chunks)
        THEN /\ staged' = [staged EXCEPT ![p] = [dataset |-> DatasetOf(c), corpus |-> CorpusOf(c)]]
             /\ Goto(p, "dataset")
        ELSE Goto(p, "error") /\ UNCHANGED staged
  /\ UNCHANGED <<disk, job, relied, orphans, crashes>>

\* Fault: one handler covers both renames.
PublishDatasetOrClear(p) ==
  /\ pc[p] = "dataset"
  /\ LET path == DatasetPath(Config(p).dataset) IN
       IF Free(path)
       THEN disk' = [disk EXCEPT ![path] = staged[p].dataset] /\ Goto(p, "corpus")
       ELSE Goto(p, "clear") /\ UNCHANGED disk
  /\ UNCHANGED <<job, staged, relied, orphans, crashes>>

PublishDataset(p) ==
  /\ pc[p] = "dataset"
  /\ LET path == DatasetPath(Config(p).dataset) IN
       IF Free(path)
       THEN disk' = [disk EXCEPT ![path] = staged[p].dataset] /\ Goto(p, "corpus")
       ELSE Goto(p, "error") /\ UNCHANGED disk
  /\ UNCHANGED <<job, staged, relied, orphans, crashes>>

Rely(p, paths) == relied' = relied \cup {<<path, disk'[path]>> : path \in paths}

\* Fault: a corpus that exists already leaves the dataset alone.
PublishCorpusOnly(p) ==
  /\ pc[p] = "corpus"
  /\ LET dataset == DatasetPath(Config(p).dataset)
         corpus == CorpusPath(Config(p).corpus)
     IN IF Free(corpus)
        THEN /\ disk' = [disk EXCEPT ![corpus] = staged[p].corpus]
             /\ Rely(p, {dataset, corpus}) /\ Goto(p, "ok")
        ELSE Goto(p, "error") /\ UNCHANGED <<disk, relied>>
  /\ UNCHANGED <<job, staged, orphans, crashes>>

PublishCorpus(p) ==
  /\ pc[p] = "corpus"
  /\ LET dataset == DatasetPath(Config(p).dataset)
         corpus == CorpusPath(Config(p).corpus)
     IN IF Free(corpus)
        THEN /\ disk' = [disk EXCEPT ![corpus] = staged[p].corpus]
             /\ Rely(p, {dataset, corpus}) /\ Goto(p, "ok")
        ELSE Goto(p, "clear") /\ UNCHANGED <<disk, relied>>
  /\ UNCHANGED <<job, staged, orphans, crashes>>

\* shutil.rmtree of the dataset: its files one by one, then the directory.
Clear(p) ==
  /\ pc[p] = "clear"
  /\ LET path == DatasetPath(Config(p).dataset) IN
       IF disk[path] = Torn
       THEN disk' = [disk EXCEPT ![path] = Empty] /\ Goto(p, "rmdir")
       ELSE disk' = [disk EXCEPT ![path] = Torn] /\ UNCHANGED pc
  /\ UNCHANGED <<job, staged, relied, orphans, crashes>>

\* Another preparation may have filled the empty directory: then rmdir fails.
Rmdir(p) ==
  /\ pc[p] = "rmdir"
  /\ LET path == DatasetPath(Config(p).dataset) IN
       disk' = IF disk[path] = Empty THEN [disk EXCEPT ![path] = None] ELSE disk
  /\ Goto(p, "error")
  /\ UNCHANGED <<job, staged, relied, orphans, crashes>>
-----------------------------------------------------------------------------
(* Index builds *)

\* FrozenCorpus.load; the indexes are then built from the corpus in memory.
Open(p) ==
  /\ pc[p] = "open"
  /\ LET corpus == disk[CorpusPath(job[p].corpus)] IN
       IF Whole(corpus) /\ CorpusValid(corpus.chunks)
       THEN staged' = [staged EXCEPT ![p] = corpus] /\ Goto(p, "new")
       ELSE Goto(p, "error") /\ UNCHANGED staged
  /\ UNCHANGED <<disk, job, relied, orphans, crashes>>

Due(p) == IndexPath(Head(job[p].kinds), job[p].corpus, job[p].version)

New(p) ==
  /\ pc[p] = "new"
  /\ Goto(p, IF disk[Due(p)] = None THEN "build" ELSE "error")
  /\ UNCHANGED <<disk, job, staged, relied, orphans, crashes>>

\* Chunks are tokenized or embedded, and the staged index is loaded back.  The
\* embedding may fail.
Build(p) ==
  /\ pc[p] = "build"
  /\ \/ IndexLoads(IndexOf(Head(job[p].kinds), staged[p]), Head(job[p].kinds), staged[p])
          /\ Goto(p, "publish")
     \/ Head(job[p].kinds) = "dense" /\ Goto(p, "error")
  /\ UNCHANGED <<disk, job, staged, relied, orphans, crashes>>

\* The rename, and the next kind of an "all" build.
PublishIndex(p) ==
  /\ pc[p] = "publish"
  /\ IF Free(Due(p))
     THEN /\ disk' = [disk EXCEPT ![Due(p)] = IndexOf(Head(job[p].kinds), staged[p])]
          /\ Rely(p, {Due(p)})
          /\ job' = [job EXCEPT ![p].kinds = Tail(@)]
          /\ Goto(p, IF Len(job[p].kinds) > 1 THEN "new" ELSE "ok")
     ELSE Goto(p, "error") /\ UNCHANGED <<disk, relied, job>>
  /\ UNCHANGED <<staged, orphans, crashes>>
-----------------------------------------------------------------------------
\* An evaluation loads the corpus, its dataset and both indexes.
Read(p) ==
  /\ pc[p] = "read"
  /\ LET dataset == DatasetPath(job[p].dataset)
         corpus == CorpusPath(job[p].corpus)
         index(kind) == IndexPath(kind, job[p].corpus, job[p].version)
     IN IF /\ BenchmarkLoads(disk[dataset], disk[corpus])
           /\ \A kind \in Kinds : IndexLoads(disk[index(kind)], kind, disk[corpus])
        THEN /\ relied' = relied \cup {<<path, disk[path]>> :
                            path \in {dataset, corpus} \cup {index(kind) : kind \in Kinds}}
             /\ Goto(p, "ok")
        ELSE Goto(p, "error") /\ UNCHANGED relied
  /\ UNCHANGED <<disk, job, staged, orphans, crashes>>

Forget(p) ==
  /\ Goto(p, "idle")
  /\ job' = [job EXCEPT ![p] = None]
  /\ staged' = [staged EXCEPT ![p] = None]

Return(p) ==
  /\ pc[p] \in {"ok", "error"}
  /\ Forget(p)
  /\ UNCHANGED <<disk, relied, orphans, crashes>>

\* The process dies; its stage has a name of its own and stays behind.
Crash(p) ==
  /\ pc[p] \in Steps
  /\ crashes < MaxCrashes
  /\ crashes' = crashes + 1
  /\ orphans' = orphans \cup
       (IF pc[p] \in {"corpus", "clear", "rmdir"} THEN {Config(p).dataset} ELSE {})
  /\ Forget(p)
  /\ UNCHANGED <<disk, relied>>

Next ==
  \E p \in Processes :
    \/ Begin(p)
    \/ Fetch(p) \/ Target(p) \/ Select(p) \/ PublishDataset(p) \/ PublishCorpus(p)
    \/ Clear(p) \/ Rmdir(p)
    \/ Open(p) \/ New(p) \/ Build(p) \/ PublishIndex(p)
    \/ Read(p) \/ Return(p) \/ Crash(p)

Spec == Init /\ [][Next]_vars
-----------------------------------------------------------------------------
(* Properties *)

\* An artifact that a successful call has published or loaded stays as it is, in
\* the face of rivals for its name, crashes and the removal of datasets whose
\* corpus could not be published.
ReliedOnStays == \A a \in relied : disk[a[1]] = a[2]

\* A dataset on disk has its own corpus beside it, unless the process that
\* publishes the pair is still at it or died on the way.
DatasetHasCorpus ==
  \A v \in Datasets :
    LET dataset == disk[DatasetPath(v)] IN
    dataset # None =>
      \/ v \in orphans
      \/ \E p \in Processes :
           pc[p] \in {"corpus", "clear", "rmdir"} /\ Config(p).dataset = v
      \/ Whole(dataset) /\ BenchmarkLoads(dataset, disk[CorpusPath(dataset.config.corpus)])

\* Whatever is published is what its manifest says: a dataset holds the
\* question_count eligible questions of least rank, each valid and of the difficulty
\* asked for; a corpus every paragraph of those questions once; an index the
\* chunks of the corpus of its version in their order.
PublishedIsSound ==
  /\ \A v \in Datasets :
       LET d == disk[DatasetPath(v)] IN
       Whole(d) =>
         LET records == ToSet(Sources[d.config.source])
             chosen == {r \in records : \E i \in DOMAIN d.examples : d.examples[i].id = r.id}
         IN /\ Len(d.examples) = d.config.count /\ Cardinality(chosen) = d.config.count
            /\ \A r \in chosen : Valid(r) /\ d.config.level \in {None, r.level}
            /\ \A r \in records \ chosen :
                 \/ d.config.level \notin {None, r.level}
                 \/ d.config.valid_only /\ ~Valid(r)
                 \/ \A s \in chosen : Before(d.config.seed, s, r)
  /\ \A v \in Corpora :
       LET c == disk[CorpusPath(v)] IN
       Whole(c) =>
         /\ CorpusValid(c.chunks)
         /\ \A kind \in Kinds, i \in IndexVersions :
              LET index == disk[IndexPath(kind, v, i)] IN
              Whole(index) => IndexLoads(index, kind, c)
  /\ \A kind \in Kinds, v \in Corpora, i \in IndexVersions :
       Whole(disk[IndexPath(kind, v, i)]) => Whole(disk[CorpusPath(v)])
=============================================================================
