----------------------- MODULE ArtifactPublicationProofs -----------------------
(***************************************************************************)
(* Proofs about ArtifactPublication, for every set of processes,           *)
(* configurations and sources and any number of crashes: what was relied   *)
(* on stays, a dataset has its corpus, and what is published is sound.     *)
(*                                                                         *)
(* The inductive invariant follows the life of a version.  Its dataset is  *)
(* always that of a preparation which selected it validly, or on its way   *)
(* out; only one preparation at a time is between its two renames; and     *)
(* once the corpus is there nobody is left who would remove the dataset.   *)
(***************************************************************************)
EXTENDS ArtifactPublication, FiniteSetTheorems, SequenceTheorems, TLAPS

\* What a preparation checks before it publishes.
Prepared(c) ==
  /\ c \in Configs
  /\ Selectable(c, Sources[c.source])
  /\ DatasetValid(DatasetOf(c).examples)
  /\ CorpusValid(CorpusOf(c).chunks)
  /\ Linked(DatasetOf(c).examples, CorpusOf(c).chunks)

Preparing == {"fetch", "target", "select", "dataset", "corpus", "clear", "rmdir"}
Indexing == {"open", "new", "build", "publish"}

\* The corpus of a preparation is in place.
InPlace(c) == disk[CorpusPath(c.corpus)] = CorpusOf(c)

\* A preparation that has put its dataset in place and not yet its corpus.
Holds(p, v) == pc[p] \in {"corpus", "clear"} /\ Config(p).dataset = v

Shape ==
  /\ DOMAIN disk = Paths /\ disk = [path \in Paths |-> disk[path]]
  /\ pc \in [Processes -> Steps \cup {"idle", "ok", "error"}]
  /\ DOMAIN job = Processes /\ DOMAIN staged = Processes

IndexJobs ==
  [kind : {"index"}, corpus : Corpora, version : IndexVersions, kinds : Seq(Kinds) \ {<<>>}]

JobFit(p) ==
  /\ pc[p] \in Preparing => Config(p) \in Configs
  /\ pc[p] \in Indexing => job[p] \in IndexJobs
  /\ pc[p] = "read" => job[p].dataset \in Datasets /\ job[p].corpus \in Corpora
                       /\ job[p].version \in IndexVersions

\* What a preparation has staged, and the corpus that an index is built from.
StagedFit(p) ==
  /\ pc[p] \in {"dataset", "corpus"} =>
       /\ Prepared(Config(p))
       /\ staged[p] = [dataset |-> DatasetOf(Config(p)), corpus |-> CorpusOf(Config(p))]
  /\ pc[p] \in {"new", "build", "publish"} =>
       staged[p] = disk[CorpusPath(job[p].corpus)] /\ staged[p] # None

\* What is under the name of a dataset between the two renames and after.
HeldFit(p) ==
  /\ pc[p] = "corpus" => disk[DatasetPath(Config(p).dataset)] = DatasetOf(Config(p))
  /\ pc[p] = "clear" => ~Free(DatasetPath(Config(p).dataset))

ProcessesFit == \A p \in Processes : JobFit(p) /\ StagedFit(p) /\ HeldFit(p)

OneHolder == \A v \in Datasets : \A p, q \in Processes : Holds(p, v) /\ Holds(q, v) => p = q

DatasetsFit ==
  \A v \in Datasets :
    Whole(disk[DatasetPath(v)]) =>
      \E c \in Configs : Prepared(c) /\ c.dataset = v /\ disk[DatasetPath(v)] = DatasetOf(c)

CorporaFit ==
  \A v \in Corpora :
    disk[CorpusPath(v)] # None =>
      \E c \in Configs :
        /\ Prepared(c) /\ c.corpus = v /\ disk[CorpusPath(v)] = CorpusOf(c)
        /\ disk[DatasetPath(c.dataset)] = DatasetOf(c)
        /\ \A p \in Processes : ~Holds(p, c.dataset)

IndexesFit ==
  \A kind \in Kinds, v \in Corpora, i \in IndexVersions :
    disk[IndexPath(kind, v, i)] # None =>
      /\ disk[CorpusPath(v)] # None
      /\ disk[IndexPath(kind, v, i)] = IndexOf(kind, disk[CorpusPath(v)])

\* A dataset that was relied on has its corpus in place.
ReliedOn(a) ==
  /\ disk[a[1]] = a[2] /\ a[2] # None
  /\ \/ \E v \in Corpora : a[1] = CorpusPath(v)
     \/ \E kind \in Kinds, v \in Corpora, i \in IndexVersions : a[1] = IndexPath(kind, v, i)
     \/ \E c \in Configs :
          Prepared(c) /\ a = <<DatasetPath(c.dataset), DatasetOf(c)>> /\ InPlace(c)

ReliedFit == \A a \in relied : ReliedOn(a)

Accompanied ==
  \A v \in Datasets :
    disk[DatasetPath(v)] # None =>
      \/ v \in orphans
      \/ \E p \in Processes : Holds(p, v)
      \/ disk[DatasetPath(v)] = Empty
           /\ \E p \in Processes : pc[p] = "rmdir" /\ Config(p).dataset = v
      \/ \E c \in Configs :
           /\ Prepared(c) /\ c.dataset = v
           /\ disk[DatasetPath(v)] = DatasetOf(c) /\ InPlace(c)

Inv ==
  /\ Shape /\ ProcessesFit /\ OneHolder
  /\ DatasetsFit /\ CorporaFit /\ IndexesFit /\ ReliedFit /\ Accompanied
-----------------------------------------------------------------------------
(* The selection by rank *)

\* A source has finitely many records.
LEMMA RecordsFinite ==
  ASSUME NEW s \in DOMAIN Sources
  PROVE  IsFiniteSet(ToSet(Sources[s]))
<1> DEFINE n == Len(Sources[s])
           f == [i \in 1..n |-> Sources[s][i]]
<1>1. n \in Nat /\ DOMAIN Sources[s] = 1..n
  BY SourceAssumption
<1>2. f \in Surjection(1..n, ToSet(Sources[s]))
  BY <1>1 DEF Surjection, ToSet
<1>3. IsFiniteSet(1..n)
  BY <1>1, FS_Interval
<1> HIDE DEF n, f
<1>4. QED
  BY <1>2, <1>3, FS_Surjection

\* The records from which a configuration selects.
Pool(c) == Eligible(c, Sources[c.source])

\* Records with different IDs are strictly and totally ordered by rank and ID.
LEMMA RankIsTotal ==
  ASSUME NEW c \in Configs, Selectable(c, Sources[c.source])
  PROVE  /\ \A a \in Pool(c) : ~Before(c.seed, a, a)
         /\ \A a, b \in Pool(c) : a = b \/ Before(c.seed, a, b) \/ Before(c.seed, b, a)
         /\ \A a, b, d \in Pool(c) :
              Before(c.seed, a, b) /\ Before(c.seed, b, d) => Before(c.seed, a, d)
<1>1. c.source \in DOMAIN Sources
  BY ConfigAssumption
<1>2. \A a \in Pool(c) : a \in ToSet(Sources[c.source])
  BY DEF Pool, Eligible
<1>3. \A a \in Pool(c) : a.id \in Nat /\ Rank(c.seed, a.id) \in Nat
  BY <1>1, <1>2, SourceAssumption
<1>4. \A a, b \in Pool(c) : a.id = b.id => a = b
  BY <1>2 DEF Selectable, ToSet
<1>5. QED
  BY <1>3, <1>4 DEF Before

\* Every place from 0 to the number of records is taken by one record.
LEMMA PlacesAreFilled ==
  ASSUME NEW c \in Configs, Selectable(c, Sources[c.source])
  PROVE  /\ IsFiniteSet(Pool(c)) /\ Cardinality(Pool(c)) \in Nat
         /\ \A r \in Pool(c) : Place(c.seed, Pool(c), r) \in Nat
         /\ \A a, b \in Pool(c) :
              Before(c.seed, a, b) => Place(c.seed, Pool(c), a) < Place(c.seed, Pool(c), b)
         /\ \A a, b \in Pool(c) :
              Place(c.seed, Pool(c), a) = Place(c.seed, Pool(c), b) => a = b
         /\ \A k \in 0..(Cardinality(Pool(c)) - 1) :
              \E r \in Pool(c) : Place(c.seed, Pool(c), r) = k
<1> DEFINE S == Pool(c)
           n == Cardinality(S)
           B(r) == {s \in S : Before(c.seed, s, r)}
           f == [r \in S |-> Cardinality(B(r))]
<1>1. IsFiniteSet(S) /\ n \in Nat
  <2>1. S \subseteq ToSet(Sources[c.source])
    BY DEF Pool, Eligible
  <2>2. IsFiniteSet(ToSet(Sources[c.source]))
    BY RecordsFinite, ConfigAssumption
  <2>3. QED
    BY <2>1, <2>2, FS_Subset, FS_CardinalityType
<1>2. \A r \in S : Place(c.seed, S, r) = Cardinality(B(r))
  BY DEF Place
<1>3. \A r \in S : IsFiniteSet(B(r)) /\ Cardinality(B(r)) \in Nat /\ Cardinality(B(r)) < n
  <2>1. TAKE r \in S
  <2>2. B(r) \subseteq S \ {r}
    BY RankIsTotal
  <2>3. IsFiniteSet(S \ {r}) /\ Cardinality(S \ {r}) = n - 1
    BY <1>1, FS_RemoveElement
  <2> HIDE DEF B, S, n
  <2>4. IsFiniteSet(B(r)) /\ Cardinality(B(r)) <= n - 1
    BY <2>2, <2>3, FS_Subset
  <2>5. Cardinality(B(r)) \in Nat
    BY <2>4, FS_CardinalityType
  <2>6. QED
    BY <1>1, <2>4, <2>5
<1>4. \A a, b \in S : Before(c.seed, a, b) => Cardinality(B(a)) < Cardinality(B(b))
  <2>1. TAKE a, b \in S
  <2>2. HAVE Before(c.seed, a, b)
  <2>3. B(a) \subseteq B(b) \ {a}
    BY <2>2, RankIsTotal
  <2>4. a \in B(b)
    BY <2>2
  <2>5. IsFiniteSet(B(a)) /\ IsFiniteSet(B(b))
        /\ Cardinality(B(a)) \in Nat /\ Cardinality(B(b)) \in Nat
    BY <1>3
  <2> HIDE DEF B
  <2>6. IsFiniteSet(B(b) \ {a}) /\ Cardinality(B(b) \ {a}) = Cardinality(B(b)) - 1
    BY <2>4, <2>5, FS_RemoveElement
  <2>7. Cardinality(B(a)) <= Cardinality(B(b)) - 1
    BY <2>3, <2>6, FS_Subset
  <2>8. QED
    BY <2>5, <2>7
<1>5. \A a, b \in S : Cardinality(B(a)) = Cardinality(B(b)) => a = b
  <2>1. TAKE a, b \in S
  <2>2. Cardinality(B(a)) \in Nat /\ Cardinality(B(b)) \in Nat
    BY <1>3
  <2>3. a = b \/ Before(c.seed, a, b) \/ Before(c.seed, b, a)
    BY RankIsTotal
  <2> HIDE DEF B, S
  <2>4. QED
    BY <1>4, <2>2, <2>3
<1>6. \A k \in 0..(n - 1) : \E r \in S : Cardinality(B(r)) = k
  <2> HIDE DEF B, S
  <2>1. f \in Injection(S, 0..(n - 1))
    <3>1. \A r \in S : Cardinality(B(r)) \in 0..(n - 1)
      BY <1>1, <1>3
    <3>2. QED
      BY <3>1, <1>5 DEF Injection, IsInjective
  <2>2. IsFiniteSet(0..(n - 1)) /\ Cardinality(0..(n - 1)) = n
    BY <1>1, FS_Interval
  <2> HIDE DEF n
  <2>3. f \in Surjection(S, 0..(n - 1))
    BY <2>1, <2>2, FS_Injection DEF n
  <2>4. QED
    BY <2>3 DEF Surjection
<1> HIDE DEF B, f
<1>7. QED
  BY <1>1, <1>2, <1>3, <1>4, <1>5, <1>6

\* The selection is as long as it was asked to be, without repetition, and takes the
\* eligible records of least rank.
LEMMA SelectionIsLeast ==
  ASSUME NEW c \in Configs, Selectable(c, Sources[c.source])
  PROVE  LET chosen == Selected(c, Sources[c.source]) IN
         /\ DOMAIN chosen = 1..c.count
         /\ \A i \in 1..c.count : chosen[i] \in Pool(c)
         /\ \A i, j \in 1..c.count : chosen[i] = chosen[j] => i = j
         /\ \A r \in Pool(c) : \/ \E i \in 1..c.count : chosen[i] = r
                               \/ \A i \in 1..c.count : Before(c.seed, chosen[i], r)
<1> DEFINE S == Pool(c)
           place(r) == Place(c.seed, S, r)
           chosen == Selected(c, Sources[c.source])
<1>1. chosen = [i \in 1..c.count |-> CHOOSE r \in S : place(r) = i - 1]
  BY DEF Selected, Pool
<1>2. c.count \in Nat /\ Cardinality(S) \in Nat /\ c.count <= Cardinality(S)
  BY ConfigAssumption, PlacesAreFilled DEF Selectable, Pool
<1>3. \A k \in 0..(Cardinality(S) - 1) : \E r \in S : place(r) = k
  BY PlacesAreFilled
<1>4. \A r \in S : place(r) \in Nat
  BY PlacesAreFilled
<1>5. \A a, b \in S : place(a) = place(b) => a = b
  BY PlacesAreFilled
<1>6. \A a, b \in S : Before(c.seed, a, b) => place(a) < place(b)
  BY PlacesAreFilled
<1>7. \A a, b \in S : a = b \/ Before(c.seed, a, b) \/ Before(c.seed, b, a)
  BY RankIsTotal
<1> HIDE DEF S, place
<1>8. \A i \in 1..c.count : chosen[i] \in S /\ place(chosen[i]) = i - 1
  <2>1. TAKE i \in 1..c.count
  <2>2. i - 1 \in 0..(Cardinality(S) - 1)
    BY <1>2
  <2>3. \E r \in S : place(r) = i - 1
    BY <1>3, <2>2
  <2>4. QED
    BY <1>1, <2>3
<1>9. DOMAIN chosen = 1..c.count
  BY <1>1
<1> HIDE DEF chosen
<1>10. \A i, j \in 1..c.count : chosen[i] = chosen[j] => i = j
  BY <1>2, <1>8
<1>11. ASSUME NEW r \in S, NEW k \in 1..c.count, ~Before(c.seed, chosen[k], r)
       PROVE  \E i \in 1..c.count : chosen[i] = r
  <2>1. place(r) <= k - 1
    BY <1>4, <1>6, <1>7, <1>8, <1>11
  <2>2. place(r) + 1 \in 1..c.count
    BY <1>2, <1>4, <2>1
  <2>3. place(chosen[place(r) + 1]) = place(r) /\ chosen[place(r) + 1] \in S
    BY <1>8, <2>2, <1>4
  <2>4. QED
    BY <1>5, <2>2, <2>3
<1>12. QED
  BY <1>8, <1>9, <1>10, <1>11 DEF S, chosen
-----------------------------------------------------------------------------
(* Paths and artifacts *)

\* The names of two artifacts differ, and each belongs to the tree.
LEMMA PathsDiffer ==
  /\ \A v, w : DatasetPath(v) = DatasetPath(w) => v = w
  /\ \A v, w : CorpusPath(v) = CorpusPath(w) => v = w
  /\ \A k, l, v, w, i, j : IndexPath(k, v, i) = IndexPath(l, w, j) => k = l /\ v = w /\ i = j
  /\ \A v, w : DatasetPath(v) # CorpusPath(w)
  /\ \A v, w : DatasetPath(v) # SourcePath(w) /\ CorpusPath(v) # SourcePath(w)
  /\ \A k \in Kinds : \A v, w, i :
       /\ IndexPath(k, v, i) # DatasetPath(w) /\ IndexPath(k, v, i) # CorpusPath(w)
       /\ IndexPath(k, v, i) # SourcePath(w)
<1>1. \A v : DatasetPath(v)[1] = "dataset" /\ DatasetPath(v)[2] = v
  BY DEF DatasetPath
<1>2. \A v : CorpusPath(v)[1] = "corpus" /\ CorpusPath(v)[2] = v
  BY DEF CorpusPath
<1>3. \A v : SourcePath(v)[1] = "source"
  BY DEF SourcePath
<1>4. \A k, v, i : IndexPath(k, v, i)[1] = k /\ IndexPath(k, v, i)[2] = v
                   /\ IndexPath(k, v, i)[3] = i
  BY DEF IndexPath
<1>5. \A k \in Kinds : k # "dataset" /\ k # "corpus" /\ k # "source"
  BY DEF Kinds
<1>6. ASSUME NEW k \in Kinds, NEW v, NEW w, NEW i
      PROVE  /\ IndexPath(k, v, i) # DatasetPath(w) /\ IndexPath(k, v, i) # CorpusPath(w)
             /\ IndexPath(k, v, i) # SourcePath(w)
  BY <1>1, <1>2, <1>3, <1>4, <1>5
<1>7. ASSUME NEW v, NEW w
      PROVE  /\ DatasetPath(v) # CorpusPath(w)
             /\ DatasetPath(v) # SourcePath(w) /\ CorpusPath(v) # SourcePath(w)
             /\ DatasetPath(v) = DatasetPath(w) => v = w
             /\ CorpusPath(v) = CorpusPath(w) => v = w
  BY <1>1, <1>2, <1>3
<1>8. ASSUME NEW k, NEW l, NEW v, NEW w, NEW i, NEW j, IndexPath(k, v, i) = IndexPath(l, w, j)
      PROVE  k = l /\ v = w /\ i = j
  BY <1>4, <1>8
<1>9. QED
  BY <1>6, <1>7, <1>8

\* The names that the configurations and jobs refer to belong to the tree.
LEMMA PathsExist ==
  /\ \A c \in Configs : DatasetPath(c.dataset) \in Paths /\ CorpusPath(c.corpus) \in Paths
  /\ \A c \in Configs : SourcePath(c.source) \in Paths
  /\ \A k \in Kinds, v \in Corpora, i \in IndexVersions : IndexPath(k, v, i) \in Paths
  /\ \A v \in Datasets : DatasetPath(v) \in Paths
  /\ \A v \in Corpora : CorpusPath(v) \in Paths
  /\ \A c \in Configs : c.dataset \in Datasets /\ c.corpus \in Corpora
BY ConfigAssumption DEF Paths, Datasets, Corpora

\* An artifact names the configuration it was prepared for and is whole.
LEMMA ArtifactsAreTold ==
  /\ \A c, d : DatasetOf(c) = DatasetOf(d) => c = d
  /\ \A c, d : CorpusOf(c) = CorpusOf(d) => c = d
  /\ \A c : Prepared(c) =>
       /\ Whole(DatasetOf(c)) /\ Whole(CorpusOf(c))
       /\ \A kind \in Kinds : Whole(IndexOf(kind, CorpusOf(c)))
  /\ None # Empty /\ None # Torn /\ Empty # Torn
<1>1. \A c : DatasetOf(c).config = c /\ CorpusOf(c).config = c
  BY DEF DatasetOf, CorpusOf
<1>2. \A c : Prepared(c) =>
        /\ Whole(DatasetOf(c)) /\ Whole(CorpusOf(c))
        /\ \A kind \in Kinds : Whole(IndexOf(kind, CorpusOf(c)))
  BY NoneAssumption DEF Prepared
<1>3. None # Empty /\ None # Torn /\ Empty # Torn
  BY NoneAssumption
<1>4. ASSUME NEW c, NEW d
      PROVE  /\ DatasetOf(c) = DatasetOf(d) => c = d
             /\ CorpusOf(c) = CorpusOf(d) => c = d
  BY <1>1
<1>5. QED
  BY <1>2, <1>3, <1>4

\* What a preparation has checked is what the loader of a benchmark asks for.
LEMMA PreparedLoads ==
  ASSUME NEW c, Prepared(c)
  PROVE  BenchmarkLoads(DatasetOf(c), CorpusOf(c))
<1>1. c \in Configs /\ Selectable(c, Sources[c.source])
  BY DEF Prepared
<1>2. Whole(DatasetOf(c)) /\ Whole(CorpusOf(c))
  BY ArtifactsAreTold
<1>3. DatasetOf(c).config = c /\ CorpusOf(c).config = c
      /\ DatasetOf(c).examples = Examples(c, Sources[c.source])
  BY DEF DatasetOf, CorpusOf
<1>4. Len(Examples(c, Sources[c.source])) = c.count
  <2>1. DOMAIN Selected(c, Sources[c.source]) = 1..c.count
    BY <1>1, SelectionIsLeast
  <2>2. DOMAIN Examples(c, Sources[c.source]) = 1..c.count
    BY <2>1 DEF Examples
  <2>3. c.count \in Nat
    BY <1>1, ConfigAssumption
  <2>4. Examples(c, Sources[c.source])
          = [i \in 1..c.count |-> Examples(c, Sources[c.source])[i]]
    BY <2>1 DEF Examples
  <2>5. QED
    BY <2>2, <2>3, <2>4
<1>5. QED
  BY <1>2, <1>3, <1>4 DEF BenchmarkLoads, Prepared

\* The artifacts under their names stay; an index may be added beside its corpus.
SameArtifacts ==
  /\ \A v \in Datasets : disk'[DatasetPath(v)] = disk[DatasetPath(v)]
  /\ \A v \in Corpora : disk'[CorpusPath(v)] = disk[CorpusPath(v)]
  /\ \A kind \in Kinds, v \in Corpora, i \in IndexVersions :
       \/ disk'[IndexPath(kind, v, i)] = disk[IndexPath(kind, v, i)]
       \/ /\ disk[IndexPath(kind, v, i)] = None /\ disk[CorpusPath(v)] # None
          /\ disk'[IndexPath(kind, v, i)] = IndexOf(kind, disk[CorpusPath(v)])

\* Only process p has moved.
OnlyMoves(p) ==
  \A q \in Processes \ {p} : pc'[q] = pc[q] /\ job'[q] = job[q] /\ staged'[q] = staged[q]

Late == {"corpus", "clear", "rmdir"}

\* A process that leaves its preparation here leaves no dataset alone on the disk.
MayLeave(p) ==
  pc[p] \in Late => \/ Config(p).dataset \in orphans'
                    \/ pc[p] = "rmdir" /\ disk[DatasetPath(Config(p).dataset)] # Empty

\* A step that leaves datasets and corpora alone, of a process that is then not
\* between its two renames.
LEMMA QuietStep ==
  ASSUME Inv, NEW p \in Processes, Shape', OnlyMoves(p), SameArtifacts,
         orphans \subseteq orphans', MayLeave(p), pc'[p] \notin Late,
         JobFit(p)', StagedFit(p)', \A a \in relied' \ relied : ReliedOn(a)'
  PROVE  Inv'
<1>1. \A q \in Processes : \A v :
        /\ Holds(q, v)' => Holds(q, v)
        /\ Holds(q, v) => Holds(q, v)' \/ v \in orphans'
  BY DEF OnlyMoves, MayLeave, Late, Holds, Config
<1>2. \A q \in Processes : \A v :
        pc[q] = "rmdir" /\ Config(q).dataset = v =>
          \/ (pc[q] = "rmdir" /\ Config(q).dataset = v)'
          \/ v \in orphans' \/ disk[DatasetPath(v)] # Empty
  BY DEF OnlyMoves, MayLeave, Late, Config
<1>3. \A v \in Datasets : disk'[DatasetPath(v)] = disk[DatasetPath(v)]
  BY DEF SameArtifacts
<1>4. \A v \in Corpora : disk'[CorpusPath(v)] = disk[CorpusPath(v)]
  BY DEF SameArtifacts
<1>5. \A c \in Configs : InPlace(c)' <=> InPlace(c)
  BY <1>4, PathsExist DEF InPlace
<1>6. ProcessesFit'
  <2>1. SUFFICES ASSUME NEW q \in Processes
                 PROVE  JobFit(q)' /\ StagedFit(q)' /\ HeldFit(q)'
    BY DEF ProcessesFit
  <2>2. CASE q = p
    BY <2>2 DEF HeldFit, Late
  <2>3. CASE q # p
    <3>1. JobFit(q) /\ StagedFit(q) /\ HeldFit(q)
      BY DEF Inv, ProcessesFit
    <3>2. pc'[q] = pc[q] /\ job'[q] = job[q] /\ staged'[q] = staged[q]
      BY <2>3 DEF OnlyMoves
    <3>3. JobFit(q)'
      BY <3>1, <3>2 DEF JobFit, Config
    <3>4. pc[q] \in {"corpus", "clear"} => Config(q).dataset \in Datasets
      BY <3>1, PathsExist DEF JobFit, Preparing
    <3>5. pc[q] \in {"new", "build", "publish"} => job[q].corpus \in Corpora
      BY <3>1 DEF JobFit, Indexing, IndexJobs
    <3>6. StagedFit(q)'
      BY <1>4, <3>1, <3>2, <3>5 DEF StagedFit, Config
    <3>7. HeldFit(q)'
      BY <1>3, <3>1, <3>2, <3>4 DEF HeldFit, Config, Free
    <3>8. QED
      BY <3>3, <3>6, <3>7
  <2>4. QED
    BY <2>2, <2>3
<1>7. OneHolder'
  BY <1>1 DEF OneHolder, Inv
<1>8. DatasetsFit'
  BY <1>3 DEF DatasetsFit, Inv
<1>9. CorporaFit'
  BY <1>1, <1>3, <1>4, PathsExist DEF CorporaFit, Inv
<1>10. IndexesFit'
  BY <1>4 DEF IndexesFit, Inv, SameArtifacts
<1>11. ReliedFit'
  <2>1. SUFFICES ASSUME NEW a \in relied, ReliedOn(a)
                 PROVE  ReliedOn(a)'
    BY DEF ReliedFit, Inv
  <2>2. CASE \E v \in Corpora : a[1] = CorpusPath(v)
    BY <1>4, <2>1, <2>2 DEF ReliedOn
  <2>3. CASE \E kind \in Kinds, v \in Corpora, i \in IndexVersions : a[1] = IndexPath(kind, v, i)
    BY <2>1, <2>3 DEF SameArtifacts, ReliedOn
  <2>4. CASE \E c \in Configs :
               Prepared(c) /\ a = <<DatasetPath(c.dataset), DatasetOf(c)>> /\ InPlace(c)
    BY <1>3, <1>5, <2>1, <2>4, PathsExist DEF ReliedOn
  <2>5. QED
    BY <2>1, <2>2, <2>3, <2>4 DEF ReliedOn
<1>12. Accompanied'
  <2>1. SUFFICES ASSUME NEW v \in Datasets, disk'[DatasetPath(v)] # None
                 PROVE  \/ v \in orphans'
                        \/ \E q \in Processes : Holds(q, v)'
                        \/ disk'[DatasetPath(v)] = Empty
                             /\ \E q \in Processes : (pc[q] = "rmdir" /\ Config(q).dataset = v)'
                        \/ \E c \in Configs :
                             /\ Prepared(c) /\ c.dataset = v
                             /\ disk'[DatasetPath(v)] = DatasetOf(c) /\ InPlace(c)'
    BY DEF Accompanied
  <2>2. \/ v \in orphans
        \/ \E q \in Processes : Holds(q, v)
        \/ disk[DatasetPath(v)] = Empty
             /\ \E q \in Processes : pc[q] = "rmdir" /\ Config(q).dataset = v
        \/ \E c \in Configs :
             /\ Prepared(c) /\ c.dataset = v
             /\ disk[DatasetPath(v)] = DatasetOf(c) /\ InPlace(c)
    BY <1>3, <2>1 DEF Accompanied, Inv
  <2>3. QED
    BY <1>1, <1>2, <1>3, <1>5, <2>2
<1>13. QED
  BY <1>6, <1>7, <1>8, <1>9, <1>10, <1>11, <1>12 DEF Inv
-----------------------------------------------------------------------------
(* The steps that publish nothing *)

\* What a caller may ask for.
LEMMA JobsShape ==
  ASSUME NEW j \in Jobs
  PROVE  /\ j.kind = "prepare" => j.config \in Configs
         /\ j.kind = "index" => j \in IndexJobs
         /\ j.kind \notin {"prepare", "index"} =>
              j.dataset \in Datasets /\ j.corpus \in Corpora /\ j.version \in IndexVersions
<1>1. CASE j \in [kind : {"prepare"}, config : Configs, download : BOOLEAN]
  BY <1>1
<1>2. CASE j \in [kind : {"index"}, corpus : Corpora, version : IndexVersions,
                  kinds : {<<"bm25", "dense">>, <<"bm25">>, <<"dense">>}]
  <2>1. \A s \in {<<"bm25", "dense">>, <<"bm25">>, <<"dense">>} : s \in Seq(Kinds) \ {<<>>}
    <3>1. <<"bm25", "dense">> \in Seq(Kinds) /\ <<"bm25">> \in Seq(Kinds)
          /\ <<"dense">> \in Seq(Kinds)
      BY DEF Kinds
    <3>2. <<"bm25", "dense">> # <<>> /\ <<"bm25">> # <<>> /\ <<"dense">> # <<>>
      OBVIOUS
    <3>3. QED
      BY <3>1, <3>2
  <2>2. j \in IndexJobs
    BY <1>2, <2>1 DEF IndexJobs
  <2>3. QED
    BY <1>2, <2>2
<1>3. CASE j \in [kind : {"evaluate"}, dataset : Datasets, corpus : Corpora,
                  version : IndexVersions]
  BY <1>3
<1>4. QED
  BY <1>1, <1>2, <1>3 DEF Jobs

\* A call starts with nothing published (main).
LEMMA BeginKeeps ==
  ASSUME Inv, NEW p \in Processes, Begin(p)
  PROVE  Inv'
<1>1. PICK j \in Jobs :
        /\ job' = [job EXCEPT ![p] = j]
        /\ Goto(p, CASE j.kind = "prepare" -> "fetch"
                     [] j.kind = "index" -> "open"
                     [] OTHER -> "read")
  BY DEF Begin
<1> DEFINE w == CASE j.kind = "prepare" -> "fetch"
                  [] j.kind = "index" -> "open"
                  [] OTHER -> "read"
<1>2. /\ j.kind = "prepare" => w = "fetch"
      /\ j.kind = "index" => w = "open"
      /\ j.kind \notin {"prepare", "index"} => w = "read"
  OBVIOUS
<1>3. pc' = [pc EXCEPT ![p] = w]
  BY <1>1 DEF Goto
<1> HIDE DEF w
<1>4. pc[p] = "idle" /\ UNCHANGED <<disk, staged, relied, orphans, crashes>>
  BY DEF Begin
<1>5. pc'[p] = w /\ job'[p] = j /\ Shape' /\ OnlyMoves(p)
  BY <1>1, <1>2, <1>3, <1>4 DEF Inv, Shape, OnlyMoves, Steps
<1>6. JobFit(p)'
  BY <1>2, <1>5, JobsShape DEF JobFit, Config, Preparing, Indexing
<1>7. StagedFit(p)'
  BY <1>2, <1>5 DEF StagedFit
<1>8. QED
  BY <1>2, <1>4, <1>5, <1>6, <1>7, QuietStep DEF Late, MayLeave, SameArtifacts

\* A download puts a source in place and touches no artifact (download_source).
LEMMA FetchKeeps ==
  ASSUME Inv, NEW p \in Processes, Fetch(p)
  PROVE  Inv'
<1>1. pc[p] = "fetch" /\ UNCHANGED <<job, staged, relied, orphans, crashes>>
  BY DEF Fetch
<1>2. PICK w \in {"target", "error"} : pc' = [pc EXCEPT ![p] = w]
  BY DEF Fetch, Goto
<1>3. disk' = disk \/ disk' = [disk EXCEPT ![SourcePath(Config(p).source)] = Config(p).source]
  <2> DEFINE path == SourcePath(Config(p).source)
  <2>1. CASE disk[path] # None /\ ~job[p].download
    BY <2>1, Zenon DEF Fetch
  <2>2. CASE disk[path] # None /\ job[p].download
    BY <2>2, Zenon DEF Fetch
  <2>3. CASE disk[path] = None /\ ~job[p].download
    BY <2>3, Zenon DEF Fetch
  <2>4. CASE disk[path] = None /\ job[p].download
    BY <2>4, Zenon DEF Fetch
  <2>5. QED
    BY <2>1, <2>2, <2>3, <2>4
<1>4. SameArtifacts
  <2>1. \A q \in Paths : q # SourcePath(Config(p).source) => disk'[q] = disk[q]
    BY <1>3 DEF Inv, Shape
  <2>2. \A v \in Datasets : disk'[DatasetPath(v)] = disk[DatasetPath(v)]
    BY <2>1, PathsDiffer, PathsExist
  <2>3. \A v \in Corpora : disk'[CorpusPath(v)] = disk[CorpusPath(v)]
    BY <2>1, PathsDiffer, PathsExist
  <2>4. \A kind \in Kinds, v \in Corpora, i \in IndexVersions :
          disk'[IndexPath(kind, v, i)] = disk[IndexPath(kind, v, i)]
    <3>1. TAKE kind \in Kinds, v \in Corpora, i \in IndexVersions
    <3>2. IndexPath(kind, v, i) # SourcePath(Config(p).source)
      BY PathsDiffer
    <3>3. IndexPath(kind, v, i) \in Paths
      BY PathsExist
    <3>4. QED
      BY <2>1, <3>2, <3>3
  <2>5. QED
    BY <2>2, <2>3, <2>4 DEF SameArtifacts
<1>5. DOMAIN disk' = Paths /\ disk' = [path \in Paths |-> disk'[path]]
  BY <1>3 DEF Inv, Shape
<1>6. pc'[p] = w /\ Shape' /\ OnlyMoves(p)
  BY <1>1, <1>2, <1>5 DEF Inv, Shape, OnlyMoves, Steps
<1>7. JobFit(p)'
  BY <1>1, <1>6 DEF Inv, ProcessesFit, JobFit, Config, Preparing, Indexing
<1>8. StagedFit(p)'
  BY <1>6 DEF StagedFit
<1>9. QED
  BY <1>1, <1>4, <1>6, <1>7, <1>8, QuietStep DEF Late, MayLeave

\* The look at the targets changes nothing (_require_new_targets).
LEMMA TargetKeeps ==
  ASSUME Inv, NEW p \in Processes, Target(p)
  PROVE  Inv'
<1>1. pc[p] = "target" /\ UNCHANGED <<disk, job, staged, relied, orphans, crashes>>
  BY DEF Target
<1>2. PICK w \in {"select", "error"} : pc' = [pc EXCEPT ![p] = w]
  BY DEF Target, Goto
<1>3. pc'[p] = w /\ Shape' /\ OnlyMoves(p)
  BY <1>1, <1>2 DEF Inv, Shape, OnlyMoves, Steps
<1>4. JobFit(p)'
  BY <1>1, <1>3 DEF Inv, ProcessesFit, JobFit, Config, Preparing, Indexing
<1>5. StagedFit(p)'
  BY <1>3 DEF StagedFit
<1>6. QED
  BY <1>1, <1>3, <1>4, <1>5, QuietStep DEF Late, MayLeave, SameArtifacts

\* A selection that is staged has been prepared (prepare_benchmark).
LEMMA SelectKeeps ==
  ASSUME Inv, NEW p \in Processes, Select(p)
  PROVE  Inv'
<1>1. pc[p] = "select" /\ UNCHANGED <<disk, job, relied, orphans, crashes>>
  BY DEF Select
<1>2. JobFit(p)
  BY DEF Inv, ProcessesFit
<1>3. Config(p) \in Configs
  BY <1>1, <1>2 DEF JobFit, Preparing
<1>4. \/ /\ Prepared(Config(p))
         /\ staged' = [staged EXCEPT ![p] = [dataset |-> DatasetOf(Config(p)),
                                             corpus |-> CorpusOf(Config(p))]]
         /\ pc' = [pc EXCEPT ![p] = "dataset"]
      \/ staged' = staged /\ pc' = [pc EXCEPT ![p] = "error"]
  BY <1>3 DEF Select, Goto, Prepared
<1>5. Shape' /\ OnlyMoves(p) /\ pc'[p] \in {"dataset", "error"}
  BY <1>1, <1>4 DEF Inv, Shape, OnlyMoves, Steps
<1>6. JobFit(p)'
  BY <1>1, <1>3, <1>5 DEF JobFit, Config, Preparing, Indexing
<1>7. StagedFit(p)'
  <2>1. CASE pc' = [pc EXCEPT ![p] = "error"]
    BY <2>1 DEF StagedFit, Inv, Shape
  <2>2. CASE /\ Prepared(Config(p))
             /\ staged' = [staged EXCEPT ![p] = [dataset |-> DatasetOf(Config(p)),
                                                 corpus |-> CorpusOf(Config(p))]]
             /\ pc' = [pc EXCEPT ![p] = "dataset"]
    BY <1>1, <2>2 DEF StagedFit, Inv, Shape, Config
  <2>3. QED
    BY <1>4, <2>1, <2>2
<1>8. QED
  BY <1>1, <1>5, <1>6, <1>7, QuietStep DEF Late, MayLeave, SameArtifacts

\* A build reads its corpus from the disk (FrozenCorpus.load).
LEMMA OpenKeeps ==
  ASSUME Inv, NEW p \in Processes, Open(p)
  PROVE  Inv'
<1>1. pc[p] = "open" /\ UNCHANGED <<disk, job, relied, orphans, crashes>>
  BY DEF Open
<1>2. JobFit(p)
  BY DEF Inv, ProcessesFit
<1> DEFINE corpus == disk[CorpusPath(job[p].corpus)]
<1>3. \/ /\ corpus # None
         /\ staged' = [staged EXCEPT ![p] = corpus] /\ pc' = [pc EXCEPT ![p] = "new"]
      \/ staged' = staged /\ pc' = [pc EXCEPT ![p] = "error"]
  BY DEF Open, Goto, Whole
<1>4. Shape' /\ OnlyMoves(p) /\ pc'[p] \in {"new", "error"}
  BY <1>1, <1>3 DEF Inv, Shape, OnlyMoves, Steps
<1>5. JobFit(p)'
  BY <1>1, <1>2, <1>4 DEF JobFit, Preparing, Indexing
<1>6. StagedFit(p)'
  <2>1. CASE pc' = [pc EXCEPT ![p] = "error"]
    BY <2>1 DEF StagedFit, Inv, Shape
  <2>2. CASE /\ corpus # None
             /\ staged' = [staged EXCEPT ![p] = corpus] /\ pc' = [pc EXCEPT ![p] = "new"]
    BY <1>1, <2>2 DEF StagedFit, Inv, Shape
  <2>3. QED
    BY <1>3, <2>1, <2>2
<1>7. QED
  BY <1>1, <1>4, <1>5, <1>6, QuietStep DEF Late, MayLeave, SameArtifacts

\* A build that is under way publishes nothing yet (_require_new_target).
LEMMA NewKeeps ==
  ASSUME Inv, NEW p \in Processes, New(p) \/ Build(p)
  PROVE  Inv'
<1>1. pc[p] \in {"new", "build"} /\ UNCHANGED <<disk, job, staged, relied, orphans, crashes>>
  BY DEF New, Build
<1>2. PICK w \in {"build", "publish", "error"} : pc' = [pc EXCEPT ![p] = w]
  BY DEF New, Build, Goto
<1>3. pc'[p] = w /\ Shape' /\ OnlyMoves(p)
  BY <1>1, <1>2 DEF Inv, Shape, OnlyMoves, Steps
<1>4. JobFit(p) /\ StagedFit(p)
  BY DEF Inv, ProcessesFit
<1>5. JobFit(p)'
  BY <1>1, <1>3, <1>4 DEF JobFit, Preparing, Indexing
<1>6. StagedFit(p)'
  BY <1>1, <1>3, <1>4 DEF StagedFit
<1>7. QED
  BY <1>1, <1>3, <1>5, <1>6, QuietStep DEF Late, MayLeave, SameArtifacts

\* A return, or a crash anywhere.
LEMMA LeaveKeeps ==
  ASSUME Inv, NEW p \in Processes, Return(p) \/ Crash(p)
  PROVE  Inv'
<1>1. /\ pc' = [pc EXCEPT ![p] = "idle"]
      /\ job' = [job EXCEPT ![p] = None] /\ staged' = [staged EXCEPT ![p] = None]
      /\ disk' = disk /\ relied' = relied
  BY DEF Return, Crash, Forget, Goto
<1>2. orphans \subseteq orphans' /\ MayLeave(p)
  BY DEF Return, Crash, MayLeave, Late
<1>3. Shape' /\ OnlyMoves(p) /\ pc'[p] = "idle"
  BY <1>1 DEF Inv, Shape, OnlyMoves
<1>4. JobFit(p)' /\ StagedFit(p)'
  BY <1>3 DEF JobFit, StagedFit, Preparing, Indexing
<1>5. QED
  BY <1>1, <1>2, <1>3, <1>4, QuietStep DEF Late, SameArtifacts

\* An evaluation that loads a dataset and a corpus of one configuration has found
\* what one preparation published.
LEMMA ReadKeeps ==
  ASSUME Inv, NEW p \in Processes, Read(p)
  PROVE  Inv'
<1> DEFINE dataset == DatasetPath(job[p].dataset)
           corpus == CorpusPath(job[p].corpus)
           index(kind) == IndexPath(kind, job[p].corpus, job[p].version)
           loads == /\ BenchmarkLoads(disk[dataset], disk[corpus])
                    /\ \A kind \in Kinds : IndexLoads(disk[index(kind)], kind, disk[corpus])
           loaded == {<<path, disk[path]>> :
                        path \in {dataset, corpus} \cup {index(kind) : kind \in Kinds}}
<1>1. pc[p] = "read" /\ UNCHANGED <<disk, job, staged, orphans, crashes>>
  BY DEF Read
<1>2. JobFit(p)
  BY DEF Inv, ProcessesFit
<1>3. /\ job[p].dataset \in Datasets /\ job[p].corpus \in Corpora
      /\ job[p].version \in IndexVersions
  BY <1>1, <1>2 DEF JobFit
<1>4. \/ loads /\ relied' = relied \cup loaded /\ pc' = [pc EXCEPT ![p] = "ok"]
      \/ relied' = relied /\ pc' = [pc EXCEPT ![p] = "error"]
  BY DEF Read, Goto
<1>5. loads => \A a \in loaded : ReliedOn(a)
  <2>1. SUFFICES ASSUME loads, NEW a \in loaded
                 PROVE  ReliedOn(a)
    OBVIOUS
  <2>2. a = <<dataset, disk[dataset]>> \/ a = <<corpus, disk[corpus]>>
        \/ \E kind \in Kinds : a = <<index(kind), disk[index(kind)]>>
    OBVIOUS
  <2>3. /\ Whole(disk[dataset]) /\ Whole(disk[corpus])
        /\ \A kind \in Kinds : Whole(disk[index(kind)])
        /\ disk[dataset].config = disk[corpus].config
    BY <2>1 DEF BenchmarkLoads, IndexLoads
  <2>4. CASE a = <<dataset, disk[dataset]>>
    <3>1. PICK c \in Configs :
            Prepared(c) /\ c.dataset = job[p].dataset /\ disk[dataset] = DatasetOf(c)
      BY <1>3, <2>3 DEF Inv, DatasetsFit
    <3>2. PICK d \in Configs :
            Prepared(d) /\ d.corpus = job[p].corpus /\ disk[corpus] = CorpusOf(d)
      BY <1>3, <2>3 DEF Inv, CorporaFit, Whole
    <3>3. c = d
      BY <2>3, <3>1, <3>2 DEF DatasetOf, CorpusOf
    <3>4. InPlace(c) /\ a = <<DatasetPath(c.dataset), DatasetOf(c)>>
      BY <2>4, <3>1, <3>2, <3>3 DEF InPlace
    <3>5. a[1] = dataset /\ a[2] = disk[dataset]
      BY <2>4
    <3>6. QED
      BY <2>3, <3>1, <3>4, <3>5 DEF ReliedOn, Whole
  <2>5. CASE a = <<corpus, disk[corpus]>>
    <3>1. a[1] = corpus /\ a[2] = disk[corpus]
      BY <2>5
    <3>2. QED
      BY <1>3, <2>3, <3>1 DEF ReliedOn, Whole
  <2>6. CASE \E kind \in Kinds : a = <<index(kind), disk[index(kind)]>>
    <3>1. PICK kind \in Kinds : a = <<index(kind), disk[index(kind)]>>
      BY <2>6
    <3>2. a[1] = index(kind) /\ a[2] = disk[index(kind)]
      BY <3>1
    <3>3. QED
      BY <1>3, <2>3, <3>2 DEF ReliedOn, Whole
  <2>7. QED
    BY <2>2, <2>4, <2>5, <2>6
<1> HIDE DEF loads, loaded
<1>6. Shape' /\ OnlyMoves(p) /\ pc'[p] \in {"ok", "error"}
  BY <1>1, <1>4 DEF Inv, Shape, OnlyMoves, Steps
<1>7. JobFit(p)' /\ StagedFit(p)'
  BY <1>6 DEF JobFit, StagedFit, Preparing, Indexing
<1>8. \A a : ReliedOn(a)' <=> ReliedOn(a)
  BY <1>1 DEF ReliedOn, InPlace
<1>9. \A a \in relied' \ relied : ReliedOn(a)'
  BY <1>4, <1>5, <1>8
<1>10. QED
  BY <1>1, <1>6, <1>7, <1>9, QuietStep DEF Late, MayLeave, SameArtifacts
-----------------------------------------------------------------------------
(* The steps that publish or remove *)

\* No pair of a dataset and its corpus is in place under this name.
Unsettled(v) ==
  ~ \E c \in Configs :
      Prepared(c) /\ c.dataset = v /\ disk[DatasetPath(v)] = DatasetOf(c) /\ InPlace(c)

\* A step of a preparation on the name of its dataset, which no pair has and no other
\* preparation holds.
LEMMA DatasetStep ==
  ASSUME Inv, NEW p \in Processes, NEW x, NEW w \in Late \cup {"error"},
         pc[p] \in Late \cup {"dataset"},
         disk' = [disk EXCEPT ![DatasetPath(Config(p).dataset)] = x],
         pc' = [pc EXCEPT ![p] = w],
         UNCHANGED <<job, staged, relied, orphans>>,
         Unsettled(Config(p).dataset),
         \A q \in Processes \ {p} : ~Holds(q, Config(p).dataset),
         Whole(x) => Prepared(Config(p)) /\ x = DatasetOf(Config(p)),
         w = "corpus" => pc[p] = "dataset" /\ x = DatasetOf(Config(p)),
         w = "clear" => x \notin {None, Empty},
         w = "rmdir" => x = Empty,
         w = "error" => x = None
  PROVE  Inv'
<1> DEFINE c0 == Config(p)
           v0 == Config(p).dataset
<1>1. JobFit(p) /\ StagedFit(p) /\ HeldFit(p)
  BY DEF Inv, ProcessesFit
<1>2. c0 \in Configs /\ v0 \in Datasets /\ DatasetPath(v0) \in Paths
  BY <1>1, PathsExist DEF JobFit, Preparing, Late
<1>3. \A q \in Paths : q # DatasetPath(v0) => disk'[q] = disk[q]
  BY DEF Inv, Shape
<1>4. disk'[DatasetPath(v0)] = x
  BY <1>2 DEF Inv, Shape
<1>5. \A v \in Datasets \ {v0} : disk'[DatasetPath(v)] = disk[DatasetPath(v)]
  BY <1>3, PathsDiffer, PathsExist
<1>6. \A v \in Corpora : disk'[CorpusPath(v)] = disk[CorpusPath(v)]
  BY <1>3, PathsDiffer, PathsExist
<1>7. \A kind \in Kinds, v \in Corpora, i \in IndexVersions :
        disk'[IndexPath(kind, v, i)] = disk[IndexPath(kind, v, i)]
  <2>1. TAKE kind \in Kinds, v \in Corpora, i \in IndexVersions
  <2>2. IndexPath(kind, v, i) # DatasetPath(v0)
    BY PathsDiffer
  <2>3. IndexPath(kind, v, i) \in Paths
    BY PathsExist
  <2>4. QED
    BY <1>3, <2>2, <2>3
<1>8. \A c \in Configs : InPlace(c)' <=> InPlace(c)
  BY <1>6, PathsExist DEF InPlace
<1>9. pc'[p] = w /\ Config(p)' = c0 /\ \A q \in Processes : Config(q)' = Config(q)
  BY DEF Inv, Shape, Config
<1>10. \A q \in Processes \ {p} : pc'[q] = pc[q] /\ job'[q] = job[q] /\ staged'[q] = staged[q]
  BY DEF Inv, Shape
<1>11. \A q \in Processes \ {p} : \A v : Holds(q, v)' <=> Holds(q, v)
  BY <1>9, <1>10 DEF Holds
<1>12. \A v : (Holds(p, v) \/ Holds(p, v)') => v = v0
  BY <1>9 DEF Holds
<1>13. Shape'
  <2>1. w \in Steps \cup {"idle", "ok", "error"}
    BY DEF Late, Steps
  <2>2. QED
    BY <2>1 DEF Inv, Shape
<1>14. ProcessesFit'
  <2>1. SUFFICES ASSUME NEW q \in Processes
                 PROVE  JobFit(q)' /\ StagedFit(q)' /\ HeldFit(q)'
    BY DEF ProcessesFit
  <2>2. CASE q = p
    <3>1. JobFit(p)'
      BY <1>2, <1>9 DEF JobFit, Late, Preparing, Indexing
    <3>2. StagedFit(p)'
      BY <1>1, <1>9 DEF StagedFit, Late
    <3>3. HeldFit(p)'
      BY <1>4, <1>9 DEF HeldFit, Free
    <3>4. QED
      BY <2>2, <3>1, <3>2, <3>3
  <2>3. CASE q # p
    <3>1. JobFit(q) /\ StagedFit(q) /\ HeldFit(q)
      BY DEF Inv, ProcessesFit
    <3>2. pc'[q] = pc[q] /\ job'[q] = job[q] /\ staged'[q] = staged[q]
      BY <1>10, <2>3
    <3>3. JobFit(q)'
      BY <3>1, <3>2 DEF JobFit, Config
    <3>4. pc[q] \in {"corpus", "clear"} =>
            Config(q).dataset \in Datasets /\ Config(q).dataset # v0
      BY <2>3, <3>1, PathsExist DEF JobFit, Preparing, Holds
    <3>5. pc[q] \in {"new", "build", "publish"} => job[q].corpus \in Corpora
      BY <3>1 DEF JobFit, Indexing, IndexJobs
    <3>6. StagedFit(q)'
      BY <1>6, <3>1, <3>2, <3>5 DEF StagedFit, Config
    <3>7. HeldFit(q)'
      BY <1>5, <3>1, <3>2, <3>4 DEF HeldFit, Config, Free
    <3>8. QED
      BY <3>3, <3>6, <3>7
  <2>4. QED
    BY <2>2, <2>3
<1>15. OneHolder'
  BY <1>11, <1>12 DEF OneHolder, Inv
<1>16. DatasetsFit'
  <2>1. SUFFICES ASSUME NEW v \in Datasets, Whole(disk'[DatasetPath(v)])
                 PROVE  \E c \in Configs :
                          Prepared(c) /\ c.dataset = v /\ disk'[DatasetPath(v)] = DatasetOf(c)
    BY DEF DatasetsFit
  <2>2. CASE v = v0
    BY <1>2, <1>4, <2>1, <2>2
  <2>3. CASE v # v0
    BY <1>5, <2>1, <2>3 DEF DatasetsFit, Inv
  <2>4. QED
    BY <2>2, <2>3
<1>17. CorporaFit'
  <2>1. SUFFICES ASSUME NEW v \in Corpora, disk[CorpusPath(v)] # None
                 PROVE  \E c \in Configs :
                          /\ Prepared(c) /\ c.corpus = v /\ disk'[CorpusPath(v)] = CorpusOf(c)
                          /\ disk'[DatasetPath(c.dataset)] = DatasetOf(c)
                          /\ \A q \in Processes : ~Holds(q, c.dataset)'
    BY <1>6 DEF CorporaFit
  <2>2. PICK c \in Configs :
          /\ Prepared(c) /\ c.corpus = v /\ disk[CorpusPath(v)] = CorpusOf(c)
          /\ disk[DatasetPath(c.dataset)] = DatasetOf(c)
          /\ \A q \in Processes : ~Holds(q, c.dataset)
    BY <2>1 DEF CorporaFit, Inv
  <2>3. c.dataset # v0 /\ c.dataset \in Datasets
    BY <2>2, PathsExist DEF Unsettled, InPlace
  <2>4. QED
    BY <1>5, <1>6, <1>11, <1>12, <2>2, <2>3
<1>18. IndexesFit'
  BY <1>6, <1>7 DEF IndexesFit, Inv
<1>19. ReliedFit'
  <2>1. SUFFICES ASSUME NEW a \in relied, ReliedOn(a)
                 PROVE  ReliedOn(a)'
    BY DEF ReliedFit, Inv
  <2>2. CASE \E v \in Corpora : a[1] = CorpusPath(v)
    BY <1>6, <2>1, <2>2 DEF ReliedOn
  <2>3. CASE \E kind \in Kinds, v \in Corpora, i \in IndexVersions : a[1] = IndexPath(kind, v, i)
    BY <1>7, <2>1, <2>3 DEF ReliedOn
  <2>4. CASE \E c \in Configs :
               Prepared(c) /\ a = <<DatasetPath(c.dataset), DatasetOf(c)>> /\ InPlace(c)
    <3>1. PICK c \in Configs :
            Prepared(c) /\ a = <<DatasetPath(c.dataset), DatasetOf(c)>> /\ InPlace(c)
      BY <2>4
    <3>2. a[1] = DatasetPath(c.dataset) /\ a[2] = DatasetOf(c)
      BY <3>1
    <3>3. disk[DatasetPath(c.dataset)] = DatasetOf(c)
      BY <2>1, <3>2 DEF ReliedOn
    <3>4. c.dataset \in Datasets \ {v0}
      BY <3>1, <3>3, PathsExist DEF Unsettled
    <3>5. disk'[a[1]] = a[2] /\ a[2] # None
      BY <1>5, <2>1, <3>2, <3>3, <3>4 DEF ReliedOn
    <3>6. InPlace(c)'
      BY <1>8, <3>1
    <3>7. QED
      BY <3>1, <3>5, <3>6 DEF ReliedOn
  <2>5. QED
    BY <2>1, <2>2, <2>3, <2>4 DEF ReliedOn
<1>20. Accompanied'
  <2>1. SUFFICES ASSUME NEW v \in Datasets, disk'[DatasetPath(v)] # None
                 PROVE  \/ v \in orphans'
                        \/ \E q \in Processes : Holds(q, v)'
                        \/ disk'[DatasetPath(v)] = Empty
                             /\ \E q \in Processes : (pc[q] = "rmdir" /\ Config(q).dataset = v)'
                        \/ \E c \in Configs :
                             /\ Prepared(c) /\ c.dataset = v
                             /\ disk'[DatasetPath(v)] = DatasetOf(c) /\ InPlace(c)'
    BY DEF Accompanied
  <2>2. CASE v = v0
    <3>1. w # "error"
      BY <1>4, <2>1, <2>2
    <3>2. w \in {"corpus", "clear"} => Holds(p, v)'
      BY <1>9, <2>2 DEF Holds
    <3>3. w = "rmdir" =>
            disk'[DatasetPath(v)] = Empty /\ (pc[p] = "rmdir" /\ Config(p).dataset = v)'
      BY <1>4, <1>9, <2>2
    <3>4. QED
      BY <3>1, <3>2, <3>3 DEF Late
  <2>3. CASE v # v0
    <3>1. \/ v \in orphans
          \/ \E q \in Processes : Holds(q, v)
          \/ disk[DatasetPath(v)] = Empty
               /\ \E q \in Processes : pc[q] = "rmdir" /\ Config(q).dataset = v
          \/ \E c \in Configs :
               /\ Prepared(c) /\ c.dataset = v
               /\ disk[DatasetPath(v)] = DatasetOf(c) /\ InPlace(c)
      BY <1>5, <2>1, <2>3 DEF Accompanied, Inv
    <3>2. \A q \in Processes :
            pc[q] = "rmdir" /\ Config(q).dataset = v =>
              (pc[q] = "rmdir" /\ Config(q).dataset = v)'
      BY <1>9, <1>10, <2>3
    <3>3. \A q \in Processes : Holds(q, v) => Holds(q, v)'
      BY <1>11, <1>12, <2>3
    <3>4. QED
      BY <1>5, <1>8, <2>3, <3>1, <3>2, <3>3
  <2>4. QED
    BY <2>2, <2>3
<1>21. QED
  BY <1>13, <1>14, <1>15, <1>16, <1>17, <1>18, <1>19, <1>20 DEF Inv

\* While a preparation holds a name, no other one does and no pair is in place there.
LEMMA HolderIsAlone ==
  ASSUME Inv, NEW p \in Processes, pc[p] \in {"corpus", "clear"}
  PROVE  /\ Unsettled(Config(p).dataset)
         /\ \A q \in Processes \ {p} : ~Holds(q, Config(p).dataset)
         /\ Config(p) \in Configs /\ ~Free(DatasetPath(Config(p).dataset))
<1>1. JobFit(p) /\ HeldFit(p) /\ StagedFit(p)
  BY DEF Inv, ProcessesFit
<1>2. Config(p) \in Configs /\ Config(p).dataset \in Datasets
  BY <1>1, PathsExist DEF JobFit, Preparing
<1>3. Holds(p, Config(p).dataset)
  BY DEF Holds
<1>4. \A q \in Processes \ {p} : ~Holds(q, Config(p).dataset)
  BY <1>2, <1>3 DEF Inv, OneHolder
<1>5. Unsettled(Config(p).dataset)
  <2>1. SUFFICES ASSUME NEW c \in Configs, Prepared(c), InPlace(c)
                 PROVE  c.dataset # Config(p).dataset
    BY DEF Unsettled
  <2>2. c.corpus \in Corpora /\ disk[CorpusPath(c.corpus)] # None
    BY <2>1, PathsExist, ArtifactsAreTold DEF InPlace, Whole
  <2>3. PICK d \in Configs : CorpusOf(d) = CorpusOf(c) /\ ~Holds(p, d.dataset)
    BY <2>1, <2>2 DEF Inv, CorporaFit, InPlace
  <2>4. d = c
    BY <2>3, ArtifactsAreTold
  <2>5. QED
    BY <1>3, <2>3, <2>4
<1>6. ~Free(DatasetPath(Config(p).dataset))
  BY <1>1, ArtifactsAreTold DEF HeldFit, StagedFit, Free, Whole
<1>7. QED
  BY <1>2, <1>4, <1>5, <1>6

\* A name that is free is not held, and has no pair.
LEMMA FreeIsUnsettled ==
  ASSUME Inv, NEW c \in Configs, Free(DatasetPath(c.dataset))
  PROVE  Unsettled(c.dataset) /\ \A q \in Processes : ~Holds(q, c.dataset)
<1>1. Unsettled(c.dataset)
  BY ArtifactsAreTold DEF Unsettled, Free, Whole
<1>2. \A q \in Processes : ~Holds(q, c.dataset)
  BY HolderIsAlone DEF Holds
<1>3. QED
  BY <1>1, <1>2

\* The first rename takes a free name, or fails (prepare_benchmark).
LEMMA PublishDatasetKeeps ==
  ASSUME Inv, NEW p \in Processes, PublishDataset(p)
  PROVE  Inv'
<1> DEFINE path == DatasetPath(Config(p).dataset)
<1>1. pc[p] = "dataset" /\ UNCHANGED <<job, staged, relied, orphans, crashes>>
  BY DEF PublishDataset
<1>2. JobFit(p) /\ StagedFit(p)
  BY DEF Inv, ProcessesFit
<1>3. /\ Config(p) \in Configs /\ Prepared(Config(p))
      /\ staged[p].dataset = DatasetOf(Config(p))
  BY <1>1, <1>2 DEF JobFit, StagedFit, Preparing
<1>4. CASE Free(path)
  <2>1. disk' = [disk EXCEPT ![path] = DatasetOf(Config(p))] /\ pc' = [pc EXCEPT ![p] = "corpus"]
    BY <1>3, <1>4 DEF PublishDataset, Goto
  <2>2. Unsettled(Config(p).dataset) /\ \A q \in Processes : ~Holds(q, Config(p).dataset)
    BY <1>3, <1>4, FreeIsUnsettled
  <2>3. QED
    BY <1>1, <1>3, <2>1, <2>2, DatasetStep DEF Late
<1>5. CASE ~Free(path)
  <2>1. disk' = disk /\ pc' = [pc EXCEPT ![p] = "error"]
    BY <1>5 DEF PublishDataset, Goto
  <2>2. Shape' /\ OnlyMoves(p) /\ pc'[p] = "error"
    BY <1>1, <2>1 DEF Inv, Shape, OnlyMoves
  <2>3. JobFit(p)' /\ StagedFit(p)'
    BY <2>2 DEF JobFit, StagedFit, Preparing, Indexing
  <2>4. QED
    BY <1>1, <2>1, <2>2, <2>3, QuietStep DEF Late, MayLeave, SameArtifacts
<1>6. QED
  BY <1>4, <1>5

\* Only the holder of a name removes what is under it (prepare_benchmark).
LEMMA ClearKeeps ==
  ASSUME Inv, NEW p \in Processes, Clear(p)
  PROVE  Inv'
<1> DEFINE path == DatasetPath(Config(p).dataset)
<1>1. pc[p] = "clear" /\ UNCHANGED <<job, staged, relied, orphans, crashes>>
  BY DEF Clear
<1>2. /\ Unsettled(Config(p).dataset)
      /\ \A q \in Processes \ {p} : ~Holds(q, Config(p).dataset)
  BY <1>1, HolderIsAlone
<1>3. ~Whole(Empty) /\ ~Whole(Torn) /\ Torn \notin {None, Empty}
  BY ArtifactsAreTold DEF Whole
<1>4. CASE disk[path] = Torn
  <2>1. disk' = [disk EXCEPT ![path] = Empty] /\ pc' = [pc EXCEPT ![p] = "rmdir"]
    BY <1>4 DEF Clear, Goto
  <2>2. QED
    BY <1>1, <1>2, <1>3, <2>1, DatasetStep DEF Late
<1>5. CASE disk[path] # Torn
  <2>1. disk' = [disk EXCEPT ![path] = Torn] /\ pc' = [pc EXCEPT ![p] = "clear"]
    BY <1>1, <1>5 DEF Clear, Inv, Shape
  <2>2. QED
    BY <1>1, <1>2, <1>3, <2>1, DatasetStep DEF Late
<1>6. QED
  BY <1>4, <1>5

\* An emptied directory goes, one that a rival has filled stays.
LEMMA RmdirKeeps ==
  ASSUME Inv, NEW p \in Processes, Rmdir(p)
  PROVE  Inv'
<1> DEFINE path == DatasetPath(Config(p).dataset)
<1>1. /\ pc[p] = "rmdir" /\ pc' = [pc EXCEPT ![p] = "error"]
      /\ UNCHANGED <<job, staged, relied, orphans, crashes>>
  BY DEF Rmdir, Goto
<1>2. JobFit(p)
  BY DEF Inv, ProcessesFit
<1>3. Config(p) \in Configs
  BY <1>1, <1>2 DEF JobFit, Preparing
<1>4. CASE disk[path] = Empty
  <2>1. disk' = [disk EXCEPT ![path] = None]
    BY <1>4 DEF Rmdir
  <2>2. Unsettled(Config(p).dataset) /\ \A q \in Processes : ~Holds(q, Config(p).dataset)
    BY <1>3, <1>4, FreeIsUnsettled DEF Free
  <2>3. QED
    BY <1>1, <2>1, <2>2, DatasetStep DEF Late, Whole
<1>5. CASE disk[path] # Empty
  <2>1. disk' = disk
    BY <1>5 DEF Rmdir
  <2>2. Shape' /\ OnlyMoves(p) /\ pc'[p] = "error"
    BY <1>1, <2>1 DEF Inv, Shape, OnlyMoves
  <2>3. JobFit(p)' /\ StagedFit(p)'
    BY <2>2 DEF JobFit, StagedFit, Preparing, Indexing
  <2>4. QED
    BY <1>1, <1>5, <2>1, <2>2, <2>3, QuietStep DEF Late, MayLeave, SameArtifacts
<1>6. QED
  BY <1>4, <1>5

\* The next index of a build goes beside the corpus it was built from.
LEMMA PublishIndexKeeps ==
  ASSUME Inv, NEW p \in Processes, PublishIndex(p)
  PROVE  Inv'
<1> DEFINE path == Due(p)
           corpus == disk[CorpusPath(job[p].corpus)]
<1>1. pc[p] = "publish" /\ UNCHANGED <<staged, orphans, crashes>>
  BY DEF PublishIndex
<1>2. JobFit(p) /\ StagedFit(p)
  BY DEF Inv, ProcessesFit
<1>3. job[p] \in IndexJobs /\ staged[p] = corpus /\ corpus # None
  BY <1>1, <1>2 DEF JobFit, StagedFit, Indexing
<1>4. /\ job[p].corpus \in Corpora /\ job[p].version \in IndexVersions
      /\ job[p].kinds \in Seq(Kinds) /\ job[p].kinds # <<>>
  BY <1>3 DEF IndexJobs
<1>5. Head(job[p].kinds) \in Kinds /\ Tail(job[p].kinds) \in Seq(Kinds)
  BY <1>4, HeadTailProperties
<1>6. path = IndexPath(Head(job[p].kinds), job[p].corpus, job[p].version) /\ path \in Paths
  BY <1>4, <1>5, PathsExist DEF Due
<1>7. CASE Free(path)
  <2>1. /\ disk' = [disk EXCEPT ![path] = IndexOf(Head(job[p].kinds), corpus)]
        /\ relied' = relied \cup {<<path, disk'[path]>>}
        /\ job' = [job EXCEPT ![p].kinds = Tail(@)]
        /\ pc' = [pc EXCEPT ![p] = IF Len(job[p].kinds) > 1 THEN "new" ELSE "ok"]
    BY <1>3, <1>7 DEF PublishIndex, Goto, Rely
  <2>2. PICK c \in Configs : Prepared(c) /\ corpus = CorpusOf(c)
    BY <1>3, <1>4 DEF Inv, CorporaFit
  <2>3. disk[path] = None
    <3>1. disk[path] # None => disk[path] = IndexOf(Head(job[p].kinds), CorpusOf(c))
      BY <1>4, <1>5, <1>6, <2>2 DEF Inv, IndexesFit
    <3>2. Whole(IndexOf(Head(job[p].kinds), CorpusOf(c)))
      BY <1>5, <2>2, ArtifactsAreTold
    <3>3. QED
      BY <1>7, <3>1, <3>2 DEF Free, Whole
  <2>4. disk'[path] = IndexOf(Head(job[p].kinds), corpus)
    BY <1>6, <2>1 DEF Inv, Shape
  <2>5. \A q \in Paths : q # path => disk'[q] = disk[q]
    BY <2>1 DEF Inv, Shape
  <2>6. SameArtifacts
    <3>1. \A v \in Datasets : disk'[DatasetPath(v)] = disk[DatasetPath(v)]
      BY <1>5, <1>6, <2>5, PathsDiffer, PathsExist
    <3>2. \A v \in Corpora : disk'[CorpusPath(v)] = disk[CorpusPath(v)]
      BY <1>5, <1>6, <2>5, PathsDiffer, PathsExist
    <3>3. ASSUME NEW kind \in Kinds, NEW v \in Corpora, NEW i \in IndexVersions,
                 disk'[IndexPath(kind, v, i)] # disk[IndexPath(kind, v, i)]
          PROVE  /\ disk[IndexPath(kind, v, i)] = None /\ disk[CorpusPath(v)] # None
                 /\ disk'[IndexPath(kind, v, i)] = IndexOf(kind, disk[CorpusPath(v)])
      <4>1. IndexPath(kind, v, i) = path
        BY <2>5, <3>3, PathsExist
      <4>2. kind = Head(job[p].kinds) /\ v = job[p].corpus
        BY <1>6, <4>1, PathsDiffer
      <4>3. QED
        BY <1>3, <2>3, <2>4, <4>1, <4>2
    <3>4. QED
      BY <3>1, <3>2, <3>3 DEF SameArtifacts
  <2>7. job' = [job EXCEPT ![p] = [job[p] EXCEPT !.kinds = Tail(job[p].kinds)]]
    BY <2>1
  <2>8. pc'[p] \in {"new", "ok"} /\ job'[p] = [job[p] EXCEPT !.kinds = Tail(job[p].kinds)]
    BY <2>1, <2>7 DEF Inv, Shape
  <2>9. Shape' /\ OnlyMoves(p)
    BY <1>1, <2>1, <2>7 DEF Inv, Shape, OnlyMoves, Steps
  <2>10. JobFit(p)'
    <3>1. CASE pc'[p] = "new"
      <4>1. Len(job[p].kinds) > 1
        BY <2>1, <3>1 DEF Inv, Shape
      <4>2. Tail(job[p].kinds) # <<>>
        <5> DEFINE all == job[p].kinds
                   rest == Tail(all)
        <5>1. Len(all) \in Nat /\ Len(rest) = Len(all) - 1
          BY <1>4, LenProperties, HeadTailProperties
        <5> HIDE DEF all, rest
        <5>2. Len(rest) # 0
          BY <4>1, <5>1 DEF all
        <5>3. Len(<<>>) = 0
          OBVIOUS
        <5>4. rest # <<>>
          BY <5>2, <5>3, Zenon
        <5>5. QED
          BY <5>4 DEF all, rest
      <4>3. job'[p] \in IndexJobs
        BY <1>3, <1>5, <2>8, <4>2 DEF IndexJobs
      <4>4. QED
        BY <3>1, <4>3 DEF JobFit, Preparing
    <3>2. CASE pc'[p] = "ok"
      BY <3>2 DEF JobFit, Preparing, Indexing
    <3>3. QED
      BY <2>8, <3>1, <3>2
  <2>11. StagedFit(p)'
    <3>1. job'[p].corpus = job[p].corpus
      BY <1>3, <2>8 DEF IndexJobs
    <3>2. disk'[CorpusPath(job[p].corpus)] = corpus
      BY <1>4, <2>6 DEF SameArtifacts
    <3>3. QED
      BY <1>1, <1>3, <2>8, <3>1, <3>2 DEF StagedFit
  <2>12. \A a \in relied' \ relied : ReliedOn(a)'
    <3>1. SUFFICES ASSUME NEW a, a = <<path, disk'[path]>>
                   PROVE  ReliedOn(a)'
      BY <2>1
    <3>2. a[1] = path /\ a[2] = disk'[path]
      BY <3>1
    <3>3. Whole(IndexOf(Head(job[p].kinds), corpus))
      BY <1>5, <2>2, ArtifactsAreTold
    <3>4. QED
      BY <1>4, <1>5, <1>6, <2>4, <3>2, <3>3 DEF ReliedOn, Whole
  <2>13. orphans \subseteq orphans' /\ MayLeave(p)
    BY <1>1 DEF MayLeave, Late
  <2>14. QED
    BY <2>6, <2>8, <2>9, <2>10, <2>11, <2>12, <2>13, QuietStep DEF Late
<1>8. CASE ~Free(path)
  <2>1. disk' = disk /\ job' = job /\ relied' = relied /\ pc' = [pc EXCEPT ![p] = "error"]
    BY <1>8 DEF PublishIndex, Goto
  <2>2. Shape' /\ OnlyMoves(p) /\ pc'[p] = "error"
    BY <1>1, <2>1 DEF Inv, Shape, OnlyMoves
  <2>3. JobFit(p)' /\ StagedFit(p)'
    BY <2>2 DEF JobFit, StagedFit, Preparing, Indexing
  <2>4. QED
    BY <1>1, <2>1, <2>2, <2>3, QuietStep DEF Late, MayLeave, SameArtifacts
<1>9. QED
  BY <1>7, <1>8

\* The corpus goes beside its dataset: the pair is in place.
LEMMA CorpusInPlace ==
  ASSUME Inv, NEW p \in Processes, PublishCorpus(p), Free(CorpusPath(Config(p).corpus))
  PROVE  Inv'
<1>1. pc[p] = "corpus" /\ UNCHANGED <<job, staged, orphans, crashes>>
  BY DEF PublishCorpus
<1>2. JobFit(p) /\ StagedFit(p) /\ HeldFit(p)
  BY DEF Inv, ProcessesFit
<1>3. PICK c0 \in Configs :
        /\ c0 = Config(p) /\ Prepared(c0)
        /\ staged[p].corpus = CorpusOf(c0) /\ disk[DatasetPath(c0.dataset)] = DatasetOf(c0)
  BY <1>1, <1>2 DEF JobFit, StagedFit, HeldFit, Preparing
<1> DEFINE dataset == DatasetPath(c0.dataset)
           corpus == CorpusPath(c0.corpus)
<1>4. /\ disk' = [disk EXCEPT ![corpus] = CorpusOf(c0)]
      /\ relied' = relied \cup {<<dataset, disk'[dataset]>>, <<corpus, disk'[corpus]>>}
      /\ pc' = [pc EXCEPT ![p] = "ok"]
  BY <1>3 DEF PublishCorpus, Goto, Rely
<1>5. disk[corpus] = None
  <2>1. c0.corpus \in Corpora
    BY <1>3, PathsExist
  <2>2. disk[corpus] # None => \E c \in Configs : Prepared(c) /\ disk[corpus] = CorpusOf(c)
    BY <2>1 DEF Inv, CorporaFit
  <2>3. QED
    BY <1>3, <2>2, ArtifactsAreTold DEF Free, Whole
<1>6. corpus \in Paths /\ c0.corpus \in Corpora /\ c0.dataset \in Datasets
  BY <1>3, PathsExist
<1>7. \A q \in Paths : q # corpus => disk'[q] = disk[q]
  BY <1>4 DEF Inv, Shape
<1>8. disk'[corpus] = CorpusOf(c0)
  BY <1>4, <1>6 DEF Inv, Shape
<1>9. \A v \in Datasets : disk'[DatasetPath(v)] = disk[DatasetPath(v)]
  BY <1>7, PathsDiffer, PathsExist
<1>10. \A v \in Corpora : disk[CorpusPath(v)] # None => disk'[CorpusPath(v)] = disk[CorpusPath(v)]
  BY <1>5, <1>7, PathsExist
<1>11. \A kind \in Kinds, v \in Corpora, i \in IndexVersions :
         disk'[IndexPath(kind, v, i)] = disk[IndexPath(kind, v, i)]
  <2>1. TAKE kind \in Kinds, v \in Corpora, i \in IndexVersions
  <2>2. IndexPath(kind, v, i) # corpus /\ IndexPath(kind, v, i) \in Paths
    BY PathsDiffer, PathsExist
  <2>3. QED
    BY <1>7, <2>2
<1>12. \A c \in Configs : Prepared(c) /\ InPlace(c) => InPlace(c)'
  <2>1. TAKE c \in Configs
  <2>2. HAVE Prepared(c) /\ InPlace(c)
  <2>3. disk[CorpusPath(c.corpus)] # None /\ c.corpus \in Corpora
    BY <2>2, ArtifactsAreTold, PathsExist DEF InPlace, Whole
  <2>4. QED
    BY <1>10, <2>2, <2>3 DEF InPlace
<1>13. \A q \in Processes : \A v : Holds(q, v)' <=> Holds(q, v) /\ q # p
  BY <1>1, <1>4 DEF Holds, Config, Inv, Shape
<1>14. Shape'
  BY <1>1, <1>4 DEF Inv, Shape
<1>15. ProcessesFit'
  <2>1. SUFFICES ASSUME NEW q \in Processes
                 PROVE  JobFit(q)' /\ StagedFit(q)' /\ HeldFit(q)'
    BY DEF ProcessesFit
  <2>2. CASE q = p
    <3>1. pc'[p] = "ok"
      BY <1>4 DEF Inv, Shape
    <3>2. QED
      BY <2>2, <3>1 DEF JobFit, StagedFit, HeldFit, Preparing, Indexing
  <2>3. CASE q # p
    <3>1. JobFit(q) /\ StagedFit(q) /\ HeldFit(q)
      BY DEF Inv, ProcessesFit
    <3>2. pc'[q] = pc[q] /\ job'[q] = job[q] /\ staged'[q] = staged[q]
      BY <1>1, <1>4, <2>3 DEF Inv, Shape
    <3>3. JobFit(q)'
      BY <3>1, <3>2 DEF JobFit, Config
    <3>4. pc[q] \in {"corpus", "clear"} => Config(q).dataset \in Datasets
      BY <3>1, PathsExist DEF JobFit, Preparing
    <3>5. pc[q] \in {"new", "build", "publish"} => job[q].corpus \in Corpora
      BY <3>1 DEF JobFit, Indexing, IndexJobs
    <3>6. StagedFit(q)'
      BY <1>10, <3>1, <3>2, <3>5 DEF StagedFit, Config
    <3>7. HeldFit(q)'
      BY <1>9, <3>1, <3>2, <3>4 DEF HeldFit, Config, Free
    <3>8. QED
      BY <3>3, <3>6, <3>7
  <2>4. QED
    BY <2>2, <2>3
<1>16. OneHolder'
  BY <1>13 DEF OneHolder, Inv
<1>17. DatasetsFit'
  BY <1>9 DEF DatasetsFit, Inv
<1>18. CorporaFit'
  <2>1. SUFFICES ASSUME NEW v \in Corpora, disk'[CorpusPath(v)] # None
                 PROVE  \E c \in Configs :
                          /\ Prepared(c) /\ c.corpus = v /\ disk'[CorpusPath(v)] = CorpusOf(c)
                          /\ disk'[DatasetPath(c.dataset)] = DatasetOf(c)
                          /\ \A q \in Processes : ~Holds(q, c.dataset)'
    BY DEF CorporaFit
  <2>2. CASE v = c0.corpus
    <3>1. \A q \in Processes : ~Holds(q, c0.dataset)'
      BY <1>1, <1>3, <1>13, HolderIsAlone
    <3>2. disk'[DatasetPath(c0.dataset)] = DatasetOf(c0)
      BY <1>3, <1>6, <1>9
    <3>3. QED
      BY <1>3, <1>8, <2>2, <3>1, <3>2
  <2>3. CASE v # c0.corpus
    <3>1. disk'[CorpusPath(v)] = disk[CorpusPath(v)]
      BY <1>7, <2>3, PathsDiffer, PathsExist
    <3>2. PICK c \in Configs :
            /\ Prepared(c) /\ c.corpus = v /\ disk[CorpusPath(v)] = CorpusOf(c)
            /\ disk[DatasetPath(c.dataset)] = DatasetOf(c)
            /\ \A q \in Processes : ~Holds(q, c.dataset)
      BY <2>1, <3>1 DEF CorporaFit, Inv
    <3>3. disk'[DatasetPath(c.dataset)] = DatasetOf(c)
      BY <1>9, <3>2, PathsExist
    <3>4. QED
      BY <1>13, <3>1, <3>2, <3>3
  <2>4. QED
    BY <2>2, <2>3
<1>19. IndexesFit'
  BY <1>10, <1>11 DEF IndexesFit, Inv
<1>20. ReliedFit'
  <2>1. SUFFICES ASSUME NEW a \in relied'
                 PROVE  ReliedOn(a)'
    BY DEF ReliedFit
  <2>2. CASE a \in relied
    <3>1. ReliedOn(a)
      BY <2>2 DEF ReliedFit, Inv
    <3>2. CASE \E v \in Corpora : a[1] = CorpusPath(v)
      BY <1>10, <3>1, <3>2 DEF ReliedOn
    <3>3. CASE \E kind \in Kinds, v \in Corpora, i \in IndexVersions :
                 a[1] = IndexPath(kind, v, i)
      BY <1>11, <3>1, <3>3 DEF ReliedOn
    <3>4. CASE \E c \in Configs :
                 Prepared(c) /\ a = <<DatasetPath(c.dataset), DatasetOf(c)>> /\ InPlace(c)
      BY <1>9, <1>12, <3>1, <3>4, PathsExist DEF ReliedOn
    <3>5. QED
      BY <3>1, <3>2, <3>3, <3>4 DEF ReliedOn
  <2>3. CASE a = <<dataset, disk'[dataset]>>
    <3>1. InPlace(c0)'
      BY <1>8 DEF InPlace
    <3>2. disk'[dataset] = DatasetOf(c0)
      BY <1>3, <1>6, <1>9
    <3>3. a[1] = dataset /\ a[2] = DatasetOf(c0) /\ a = <<dataset, DatasetOf(c0)>>
      BY <2>3, <3>2
    <3>4. a[2] # None
      BY <1>3, <3>3, ArtifactsAreTold DEF Whole
    <3>5. QED
      BY <1>3, <3>1, <3>2, <3>3, <3>4 DEF ReliedOn
  <2>4. CASE a = <<corpus, disk'[corpus]>>
    <3>1. a[1] = corpus /\ a[2] = CorpusOf(c0)
      BY <1>8, <2>4
    <3>2. a[2] # None
      BY <1>3, <3>1, ArtifactsAreTold DEF Whole
    <3>3. QED
      BY <1>6, <1>8, <3>1, <3>2 DEF ReliedOn
  <2>5. QED
    BY <1>4, <2>2, <2>3, <2>4
<1>21. Accompanied'
  <2>1. SUFFICES ASSUME NEW v \in Datasets, disk'[DatasetPath(v)] # None
                 PROVE  \/ v \in orphans'
                        \/ \E q \in Processes : Holds(q, v)'
                        \/ disk'[DatasetPath(v)] = Empty
                             /\ \E q \in Processes : (pc[q] = "rmdir" /\ Config(q).dataset = v)'
                        \/ \E c \in Configs :
                             /\ Prepared(c) /\ c.dataset = v
                             /\ disk'[DatasetPath(v)] = DatasetOf(c) /\ InPlace(c)'
    BY DEF Accompanied
  <2>2. CASE v = c0.dataset
    <3>1. InPlace(c0)'
      BY <1>8 DEF InPlace
    <3>2. QED
      BY <1>3, <1>9, <2>2, <3>1
  <2>3. CASE v # c0.dataset
    <3>1. \/ v \in orphans
          \/ \E q \in Processes : Holds(q, v)
          \/ disk[DatasetPath(v)] = Empty
               /\ \E q \in Processes : pc[q] = "rmdir" /\ Config(q).dataset = v
          \/ \E c \in Configs :
               /\ Prepared(c) /\ c.dataset = v
               /\ disk[DatasetPath(v)] = DatasetOf(c) /\ InPlace(c)
      BY <1>9, <2>1 DEF Accompanied, Inv
    <3>2. \A q \in Processes :
            pc[q] = "rmdir" /\ Config(q).dataset = v =>
              (pc[q] = "rmdir" /\ Config(q).dataset = v)'
      BY <1>1, <1>4 DEF Inv, Shape, Config
    <3>3. \A q \in Processes : Holds(q, v) => Holds(q, v)'
      BY <1>3, <1>13, <2>3 DEF Holds
    <3>4. QED
      BY <1>1, <1>9, <1>12, <3>1, <3>2, <3>3
  <2>4. QED
    BY <2>2, <2>3
<1>22. QED
  BY <1>14, <1>15, <1>16, <1>17, <1>18, <1>19, <1>20, <1>21 DEF Inv

\* The second rename settles the pair, or its dataset is to be removed.
LEMMA PublishCorpusKeeps ==
  ASSUME Inv, NEW p \in Processes, PublishCorpus(p)
  PROVE  Inv'
<1> DEFINE dataset == DatasetPath(Config(p).dataset)
           corpus == CorpusPath(Config(p).corpus)
<1>1. CASE Free(corpus)
  BY <1>1, CorpusInPlace
<1>2. CASE ~Free(corpus)
  <2>1. /\ pc[p] = "corpus" /\ pc' = [pc EXCEPT ![p] = "clear"] /\ disk' = disk
        /\ UNCHANGED <<job, staged, relied, orphans>>
    BY <1>2 DEF PublishCorpus, Goto
  <2>2. JobFit(p) /\ StagedFit(p) /\ HeldFit(p)
    BY DEF Inv, ProcessesFit
  <2>3. Prepared(Config(p)) /\ disk[dataset] = DatasetOf(Config(p))
    BY <2>1, <2>2 DEF StagedFit, HeldFit
  <2>4. /\ Unsettled(Config(p).dataset)
        /\ \A q \in Processes \ {p} : ~Holds(q, Config(p).dataset)
        /\ disk[dataset] \notin {None, Empty}
    BY <2>1, HolderIsAlone DEF Free
  <2>5. disk' = [disk EXCEPT ![dataset] = disk[dataset]]
    BY <2>1 DEF Inv, Shape
  <2>6. QED
    BY <2>1, <2>3, <2>4, <2>5, DatasetStep DEF Late
<1>3. QED
  BY <1>1, <1>2
-----------------------------------------------------------------------------
(* The theorems *)

\* With nothing published the invariant holds.
LEMMA InitHasInv == Init => Inv
<1> SUFFICES ASSUME Init PROVE Inv
  OBVIOUS
<1>1. disk \in [Paths -> {None} \cup DOMAIN Sources]
  BY DEF Init
<1>2. Shape
  BY <1>1 DEF Init, Shape
<1>3. \A path \in Paths : path[1] # "source" => disk[path] = None
  BY DEF Init
<1>4. \A v \in Datasets : disk[DatasetPath(v)] = None
  BY <1>3, PathsExist DEF DatasetPath
<1>5. \A v \in Corpora : disk[CorpusPath(v)] = None
  BY <1>3, PathsExist DEF CorpusPath
<1>6. \A kind \in Kinds, v \in Corpora, i \in IndexVersions : disk[IndexPath(kind, v, i)] = None
  <2>1. TAKE kind \in Kinds, v \in Corpora, i \in IndexVersions
  <2>2. IndexPath(kind, v, i)[1] # "source"
    BY DEF IndexPath, Kinds
  <2>3. QED
    BY <1>3, <2>2, PathsExist
<1>7. \A p \in Processes : pc[p] = "idle"
  BY DEF Init
<1>8. ProcessesFit
  BY <1>7 DEF ProcessesFit, JobFit, StagedFit, HeldFit, Preparing, Indexing
<1>9. OneHolder
  BY <1>7 DEF OneHolder, Holds
<1>10. DatasetsFit /\ CorporaFit /\ IndexesFit /\ Accompanied
  BY <1>4, <1>5, <1>6 DEF DatasetsFit, CorporaFit, IndexesFit, Accompanied, Whole
<1>11. ReliedFit
  BY DEF Init, ReliedFit
<1>12. QED
  BY <1>2, <1>8, <1>9, <1>10, <1>11 DEF Inv

\* Every step of every process keeps the invariant.
LEMMA StepKeepsInv == Inv /\ [Next]_vars => Inv'
<1>1. SUFFICES ASSUME Inv, [Next]_vars PROVE Inv'
  OBVIOUS
<1>2. CASE UNCHANGED vars
  <2>1. UNCHANGED <<disk, pc, job, staged, relied, orphans>>
    BY <1>2 DEF vars
  <2>2. Shape' /\ DatasetsFit' /\ IndexesFit'
    BY <1>1, <2>1 DEF Inv, Shape, DatasetsFit, IndexesFit
  <2>3. ProcessesFit'
    BY <1>1, <2>1
    DEF Inv, ProcessesFit, JobFit, StagedFit, HeldFit, Config, Free
  <2>4. OneHolder' /\ CorporaFit'
    BY <1>1, <2>1 DEF Inv, OneHolder, CorporaFit, Holds, Config
  <2>5. ReliedFit'
    BY <1>1, <2>1 DEF Inv, ReliedFit, ReliedOn, InPlace
  <2>6. Accompanied'
    BY <1>1, <2>1 DEF Inv, Accompanied, InPlace, Holds, Config
  <2>7. QED
    BY <2>2, <2>3, <2>4, <2>5, <2>6 DEF Inv
<1>3. ASSUME NEW p \in Processes,
             \/ Begin(p)
             \/ Fetch(p) \/ Target(p) \/ Select(p) \/ PublishDataset(p) \/ PublishCorpus(p)
             \/ Clear(p) \/ Rmdir(p)
             \/ Open(p) \/ New(p) \/ Build(p) \/ PublishIndex(p)
             \/ Read(p) \/ Return(p) \/ Crash(p)
      PROVE  Inv'
  BY <1>1, <1>3, BeginKeeps, FetchKeeps, TargetKeeps, SelectKeeps, PublishDatasetKeeps,
     PublishCorpusKeeps, ClearKeeps, RmdirKeeps, OpenKeeps, NewKeeps, PublishIndexKeeps,
     ReadKeeps, LeaveKeeps
<1>4. QED
  BY <1>1, <1>2, <1>3 DEF Next

\* The versions on disk follow the life described above in every reachable state.
THEOREM Invariance == Spec => []Inv
BY InitHasInv, StepKeepsInv, PTL DEF Spec

\* No artifact that a successful call published or loaded is ever changed or removed,
\* whatever rivals, crashes and clean-ups do (prepare_benchmark, _publish).
THEOREM ReliedOnIsKept == Spec => []ReliedOnStays
<1>1. Inv => ReliedOnStays
  BY DEF Inv, ReliedFit, ReliedOn, ReliedOnStays
<1>2. QED
  BY <1>1, Invariance, PTL

\* A dataset is on disk with its own corpus, or its preparation is still between the
\* two renames, or it died there (prepare_benchmark).
THEOREM DatasetsKeepCorpora == Spec => []DatasetHasCorpus
<1>1. Inv => DatasetHasCorpus
  <2>1. SUFFICES ASSUME Inv, NEW v \in Datasets, disk[DatasetPath(v)] # None
                 PROVE  \/ v \in orphans
                        \/ \E p \in Processes :
                             pc[p] \in {"corpus", "clear", "rmdir"} /\ Config(p).dataset = v
                        \/ /\ Whole(disk[DatasetPath(v)])
                           /\ BenchmarkLoads(disk[DatasetPath(v)],
                                disk[CorpusPath(disk[DatasetPath(v)].config.corpus)])
    BY DEF DatasetHasCorpus
  <2>2. \/ v \in orphans
        \/ \E p \in Processes : Holds(p, v)
        \/ disk[DatasetPath(v)] = Empty
             /\ \E p \in Processes : pc[p] = "rmdir" /\ Config(p).dataset = v
        \/ \E c \in Configs :
             /\ Prepared(c) /\ c.dataset = v
             /\ disk[DatasetPath(v)] = DatasetOf(c) /\ InPlace(c)
    BY <2>1 DEF Inv, Accompanied
  <2>3. ASSUME NEW c \in Configs, Prepared(c), disk[DatasetPath(v)] = DatasetOf(c), InPlace(c)
        PROVE  /\ Whole(disk[DatasetPath(v)])
               /\ BenchmarkLoads(disk[DatasetPath(v)],
                    disk[CorpusPath(disk[DatasetPath(v)].config.corpus)])
    <3>1. DatasetOf(c).config = c
      BY DEF DatasetOf
    <3>2. BenchmarkLoads(DatasetOf(c), CorpusOf(c)) /\ Whole(DatasetOf(c))
      BY <2>3, PreparedLoads, ArtifactsAreTold
    <3>3. QED
      BY <2>3, <3>1, <3>2 DEF InPlace
  <2>4. QED
    BY <2>2, <2>3 DEF Holds
<1>2. QED
  BY <1>1, Invariance, PTL

\* The selection of a preparation is what the manifest of its dataset says.
LEMMA DatasetIsSound ==
  ASSUME NEW c \in Configs, Prepared(c)
  PROVE  LET d == DatasetOf(c)
             records == ToSet(Sources[d.config.source])
             chosen == {r \in records : \E i \in DOMAIN d.examples : d.examples[i].id = r.id}
         IN /\ Len(d.examples) = d.config.count /\ Cardinality(chosen) = d.config.count
            /\ \A r \in chosen : Valid(r) /\ d.config.level \in {None, r.level}
            /\ \A r \in records \ chosen :
                 \/ d.config.level \notin {None, r.level}
                 \/ d.config.valid_only /\ ~Valid(r)
                 \/ \A s \in chosen : Before(d.config.seed, s, r)
<1> DEFINE source == Sources[c.source]
           records == ToSet(source)
           selected == Selected(c, source)
           examples == Examples(c, source)
           chosen == {r \in records : \E i \in DOMAIN examples : examples[i].id = r.id}
           N == 1..c.count
<1>1. DatasetOf(c).config = c /\ DatasetOf(c).examples = examples
  BY DEF DatasetOf
<1>2. Len(examples) = c.count
  BY <1>1, PreparedLoads DEF BenchmarkLoads
<1>3. Selectable(c, source) /\ c.count \in Nat
  BY ConfigAssumption DEF Prepared
<1>4. /\ DOMAIN selected = N
      /\ \A i \in N : selected[i] \in Pool(c)
      /\ \A i, j \in N : selected[i] = selected[j] => i = j
      /\ \A r \in Pool(c) : \/ \E i \in N : selected[i] = r
                            \/ \A i \in N : Before(c.seed, selected[i], r)
  BY <1>3, SelectionIsLeast
<1>5. DOMAIN examples = N /\ \A i \in N : examples[i].id = selected[i].id
  BY <1>4 DEF Examples
<1>6. \A r \in Pool(c) : /\ r \in records /\ c.level \in {None, r.level}
                         /\ c.valid_only => Valid(r)
  BY DEF Pool, Eligible
<1>7. \A r \in records : \/ r \in Pool(c) \/ c.level \notin {None, r.level}
                         \/ c.valid_only /\ ~Valid(r)
  BY DEF Pool, Eligible
<1>8. \A r, s \in records : r.id = s.id => r = s
  BY <1>3 DEF Selectable, ToSet
<1>9. \A i \in N : Valid(selected[i])
  BY <1>3, <1>4 DEF Selectable, ToSet
<1> HIDE DEF selected, examples, records, source
<1>10. chosen = {selected[i] : i \in N}
  BY <1>4, <1>5, <1>6, <1>8
<1> HIDE DEF chosen
<1>11. Cardinality(chosen) = c.count
  <2> DEFINE f == [i \in N |-> selected[i]]
  <2>1. f \in Surjection(N, chosen)
    BY <1>10 DEF Surjection
  <2>2. f \in Injection(N, chosen)
    BY <1>4, <1>10 DEF Injection, IsInjective
  <2>3. IsFiniteSet(N) /\ Cardinality(N) = c.count
    BY <1>3, FS_Interval
  <2> HIDE DEF f, N
  <2>4. QED
    BY <2>1, <2>2, <2>3, FS_Surjection
<1>12. \A r \in chosen : Valid(r) /\ c.level \in {None, r.level}
  BY <1>4, <1>6, <1>9, <1>10
<1>13. \A r \in records \ chosen :
         \/ c.level \notin {None, r.level}
         \/ c.valid_only /\ ~Valid(r)
         \/ \A s \in chosen : Before(c.seed, s, r)
  BY <1>4, <1>7, <1>10
<1>14. QED
  BY <1>1, <1>2, <1>11, <1>12, <1>13 DEF chosen, records, source, examples

\* Whatever is published is what its manifest says: the eligible questions of least
\* rank, their paragraphs once, and the chunks of the corpus in their order
\* (load_selected_source, build_artifacts, build_indexes).
THEOREM PublishedStaysSound == Spec => []PublishedIsSound
<1>1. Inv => PublishedIsSound
  <2>1. SUFFICES ASSUME Inv PROVE PublishedIsSound
    OBVIOUS
  <2>2. ASSUME NEW v \in Datasets, Whole(disk[DatasetPath(v)])
        PROVE  LET d == disk[DatasetPath(v)]
                   records == ToSet(Sources[d.config.source])
                   chosen == {r \in records :
                                \E i \in DOMAIN d.examples : d.examples[i].id = r.id}
               IN /\ Len(d.examples) = d.config.count /\ Cardinality(chosen) = d.config.count
                  /\ \A r \in chosen : Valid(r) /\ d.config.level \in {None, r.level}
                  /\ \A r \in records \ chosen :
                       \/ d.config.level \notin {None, r.level}
                       \/ d.config.valid_only /\ ~Valid(r)
                       \/ \A s \in chosen : Before(d.config.seed, s, r)
    <3>1. PICK c \in Configs : Prepared(c) /\ disk[DatasetPath(v)] = DatasetOf(c)
      BY <2>1, <2>2 DEF Inv, DatasetsFit
    <3>2. QED
      BY <3>1, DatasetIsSound, Zenon
  <2>3. ASSUME NEW v \in Corpora, Whole(disk[CorpusPath(v)])
        PROVE  /\ CorpusValid(disk[CorpusPath(v)].chunks)
               /\ \A kind \in Kinds, i \in IndexVersions :
                    Whole(disk[IndexPath(kind, v, i)]) =>
                      IndexLoads(disk[IndexPath(kind, v, i)], kind, disk[CorpusPath(v)])
    <3>1. PICK c \in Configs : Prepared(c) /\ disk[CorpusPath(v)] = CorpusOf(c)
      BY <2>1, <2>3 DEF Inv, CorporaFit, Whole
    <3>2. CorpusValid(disk[CorpusPath(v)].chunks)
      BY <3>1 DEF Prepared
    <3>3. ASSUME NEW kind \in Kinds, NEW i \in IndexVersions, Whole(disk[IndexPath(kind, v, i)])
          PROVE  IndexLoads(disk[IndexPath(kind, v, i)], kind, disk[CorpusPath(v)])
      <4>1. disk[IndexPath(kind, v, i)] = IndexOf(kind, disk[CorpusPath(v)])
        BY <2>1, <3>3 DEF Inv, IndexesFit, Whole
      <4>2. QED
        BY <3>3, <4>1 DEF IndexLoads, IndexOf
    <3>4. QED
      BY <3>2, <3>3
  <2>4. ASSUME NEW kind \in Kinds, NEW v \in Corpora, NEW i \in IndexVersions,
               Whole(disk[IndexPath(kind, v, i)])
        PROVE  Whole(disk[CorpusPath(v)])
    <3>1. disk[CorpusPath(v)] # None
      BY <2>1, <2>4 DEF Inv, IndexesFit, Whole
    <3>2. PICK c \in Configs : Prepared(c) /\ disk[CorpusPath(v)] = CorpusOf(c)
      BY <2>1, <3>1 DEF Inv, CorporaFit
    <3>3. QED
      BY <3>2, ArtifactsAreTold
  <2>5. QED
    BY <2>2, <2>3, <2>4, Zenon DEF PublishedIsSound
<1>2. QED
  BY <1>1, Invariance, PTL
=============================================================================
