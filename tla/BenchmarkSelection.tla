--------------------------- MODULE BenchmarkSelection ---------------------------
(***************************************************************************)
(* What data preparation computes from a source file: the eligible         *)
(* questions, the selection by seeded rank, the benchmark examples with    *)
(* their gold labels, and the global corpus without duplicates.            *)
(*                                                                         *)
(* A chunk ID is the digest of its title and sentences: chunks are natural *)
(* numbers in the order of their IDs, and Rank is the seeded digest of a   *)
(* question ID.                                                            *)
(***************************************************************************)
EXTENDS Naturals, Sequences, FiniteSets, SequencesExt

CONSTANTS
  Chunks,      \* chunk IDs
  Title, Size, \* Title[c] and Size[c]: title and number of sentences of a chunk
  Rank(_, _),  \* Rank(seed, id): the digest of a question ID under a seed
  None

ASSUME ChunkAssumption == Chunks \subseteq Nat /\ Size \in [Chunks -> Nat]

Titled(r, title) == {c \in ToSet(r.context) : Title[c] = title}

\* HotPotQASourceExample: no empty and no repeated paragraph, and each of at least one
\* supporting fact is a sentence of a paragraph of the context.
Valid(r) ==
  /\ r.schema
  /\ \A i, j \in DOMAIN r.context : Title[r.context[i]] = Title[r.context[j]] => i = j
  /\ \A c \in ToSet(r.context) : Size[c] > 0
  /\ r.gold # <<>>
  /\ \A i \in DOMAIN r.gold : \E c \in Titled(r, r.gold[i].title) : r.gold[i].sentence < Size[c]

\* Fault: the difficulty filter is forgotten.
EligibleAnyLevel(config, source) ==
  {r \in ToSet(source) : config.valid_only => Valid(r)}

\* First pass over the source: the filter, and validity where the method asks for it.
Eligible(config, source) ==
  {r \in ToSet(source) :
     /\ config.level # None => r.level = config.level
     /\ config.valid_only => Valid(r)}

Before(seed, a, b) ==
  \/ Rank(seed, a.id) < Rank(seed, b.id)
  \/ Rank(seed, a.id) = Rank(seed, b.id) /\ a.id < b.id

\* How many of the records S come before r: its place in the order, from 0.
Place(seed, S, r) == Cardinality({s \in S : Before(seed, s, r)})

\* The question_count first of the eligible records by rank and ID.
Selected(config, source) ==
  LET S == Eligible(config, source)
  IN [i \in 1..config.count |-> CHOOSE r \in S : Place(config.seed, S, r) = i - 1]

\* Second pass: the selected records must be valid.
Selectable(config, source) ==
  /\ \A i, j \in DOMAIN source : source[i].id = source[j].id => i = j
  /\ source # <<>>
  /\ config.count <= Cardinality(Eligible(config, source))
  /\ \A r \in ToSet(Selected(config, source)) : Valid(r)

Label(r, fact) ==
  [chunk |-> CHOOSE c \in Titled(r, fact.title) : TRUE, sentence |-> fact.sentence]

\* build_artifacts: one example for each selected record, and the chunks of all of
\* them once, in the order of their IDs.
Examples(config, source) ==
  LET selected == Selected(config, source) IN
  [i \in DOMAIN selected |->
     [id |-> selected[i].id,
      gold |-> [j \in DOMAIN selected[i].gold |-> Label(selected[i], selected[i].gold[j])]]]

Corpus(config, source) ==
  SetToSortSeq(UNION {ToSet(r.context) : r \in ToSet(Selected(config, source))},
               LAMBDA a, b : a < b)

\* validate_dataset_artifact, validate_corpus_artifact, validate_benchmark_links.
Linked(examples, corpus) ==
  \A i \in DOMAIN examples : \A j \in DOMAIN examples[i].gold :
    LET label == examples[i].gold[j] IN
    label.chunk \in ToSet(corpus) /\ label.sentence < Size[label.chunk]

DatasetValid(examples) ==
  \A i, j \in DOMAIN examples : examples[i].id = examples[j].id => i = j

CorpusValid(corpus) == \A i, j \in DOMAIN corpus : i < j => corpus[i] < corpus[j]
=============================================================================
