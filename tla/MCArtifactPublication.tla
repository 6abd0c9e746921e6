------------------------- MODULE MCArtifactPublication -------------------------
(***************************************************************************)
(* Two processes.  Three preparations that are rivals for a dataset version *)
(* or a corpus version, of two sources: one with an invalid record, two    *)
(* difficulties, a repeated paragraph and equal ranks.                     *)
(***************************************************************************)
EXTENDS ArtifactPublication

CONSTANTS p1, p2

MCTitle == [c \in Chunks |-> c % 3]
MCSize == [c \in Chunks |-> IF c = 3 THEN 0 ELSE 2]
MCRank(seed, id) == (seed * id) % 3

Record(id, schema, level, context, title, sentence) ==
  [id |-> id, schema |-> schema, level |-> level, context |-> context,
   gold |-> <<[title |-> title, sentence |-> sentence]>>]

MCSources ==
  [dev |-> <<Record(1, TRUE, "easy", <<1, 2>>, 1, 1), Record(2, TRUE, "hard", <<2>>, 2, 0),
             Record(3, TRUE, "hard", <<4, 2>>, 1, 0), Record(4, FALSE, "hard", <<1>>, 1, 0)>>,
   train |-> <<Record(1, TRUE, "hard", <<1, 4>>, 1, 0), Record(2, TRUE, "hard", <<3>>, 0, 0),
               Record(5, TRUE, "hard", <<2, 1>>, 2, 1), Record(4, TRUE, "easy", <<2>>, 2, 0),
               Record(8, TRUE, "hard", <<1>>, 1, 2)>>]

MCConfig(dataset, corpus, count, seed, level, valid_only, source) ==
  [dataset |-> dataset, corpus |-> corpus, count |-> count, seed |-> seed, level |-> level,
   valid_only |-> valid_only, source |-> source]

MCConfigs ==
  {MCConfig("d1", "c1", 2, 1, None, FALSE, "dev"),
   MCConfig("d1", "c2", 1, 2, "hard", TRUE, "train"),
   MCConfig("d2", "c1", 2, 1, "hard", TRUE, "dev")}
=============================================================================
