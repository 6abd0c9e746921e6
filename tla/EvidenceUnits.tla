----------------------------- MODULE EvidenceUnits -----------------------------
(***************************************************************************)
(* What EPSA knows of a question and of retrieved paragraphs: the analysis *)
(* of the question (01), the evidence units of the paragraphs, one for     *)
(* each sentence (03), and the score of a unit (04).                       *)
(*                                                                         *)
(* The lexical rules that find names, relations, answer types and tokens   *)
(* in a text are not modelled: a question and a sentence are records of    *)
(* what the rules find.  Names, document titles among them, are positive   *)
(* naturals in alphabetical order; the case folding and the punctuation    *)
(* rules of the components identify the same names.                        *)
(***************************************************************************)
EXTENDS Ordering

CONSTANT
  Paragraph   \* Paragraph[c]: title and sentences of chunk c

Name == Nat \ {0}
AnswerTypes == {"PERSON", "LOCATION", "DATE", "NUMBER", "BOOLEAN", "ENTITY",
                "ORGANIZATION", "TITLE_OR_WORK", "UNKNOWN"}

\* What the rules find in a sentence and in a question.
AnySentence ==
  [names : SUBSET Name, literal : SUBSET Name, relations : SUBSET STRING,
   types : SUBSET AnswerTypes, pronoun : {"none", "neutral", "person"}, states_title : BOOLEAN,
   tokens : SUBSET STRING, length : {"short", "normal", "long"}]

AnyText == [tokens : SUBSET STRING, names : SUBSET Name, anchors : SUBSET Name, multi_fact : BOOLEAN]

AnyQuestion ==
  [asked : AnswerTypes, compares : Seq(Name), structure : {"plain", "role_of", "relative"},
   seeds : Seq(Name), hints : Seq(STRING), text : AnyText]

\* The rules find finitely many names in a sentence.
ASSUME ParagraphAssumption ==
  \A c \in DOMAIN Paragraph :
    /\ Paragraph[c] \in [title : Name, sentences : Seq(AnySentence)]
    /\ \A s \in ToSet(Paragraph[c].sentences) : IsFiniteSet(s.names) /\ IsFiniteSet(s.literal)
-----------------------------------------------------------------------------
\* infer_question_type: comparison, then yes/no, then the structures of a bridge.
QuestionType(q) ==
  IF q.compares # <<>> THEN "comparison"
  ELSE IF q.asked = "BOOLEAN" THEN "yes_no"
  ELSE IF \/ q.structure = "role_of" /\ (Len(q.hints) >= 2 \/ q.asked # "PERSON")
          \/ q.structure = "relative"
       THEN "bridge"
  ELSE "factoid"

\* A comparison that starts with an auxiliary returns a target, and never yes or no.
ExpectedType(q) ==
  IF QuestionType(q) = "comparison" /\ q.asked = "BOOLEAN" THEN "ENTITY" ELSE q.asked

\* RuleBasedQuestionAnalyzer.analyze
Analysis(q) ==
  [type |-> QuestionType(q), expected |-> ExpectedType(q), seeds |-> q.seeds,
   required |-> q.hints, targets |-> q.compares, text |-> q.text]
-----------------------------------------------------------------------------
Sentences(c) == Paragraph[c].sentences

\* ConservativeTitlePronounResolver: a leading pronoun stands for the title, unless the
\* sentence before names something else; "it" may still follow "<title> is".
Resolves(c, s) ==
  LET sentence == Sentences(c)[s]
      others == IF s = 1 THEN {} ELSE Sentences(c)[s - 1].names \ {Paragraph[c].title}
  IN /\ sentence.pronoun # "none"
     /\ \/ others = {}
        \/ sentence.pronoun = "neutral" /\ Sentences(c)[s - 1].states_title

\* The names in the resolved text: those the rules find, names of the question that
\* occur literally, and the title if it replaces a pronoun.
ResolvedNames(c, s) ==
  Sentences(c)[s].names \cup Sentences(c)[s].literal
    \cup (IF Resolves(c, s) THEN {Paragraph[c].title} ELSE {})

\* RuleBasedV2EvidenceUnitExtractor: rank is the place of the paragraph in the ranking; no
\* score yet.
Unit(c, s, rank) ==
  LET sentence == Sentences(c)[s] IN
  [id |-> <<c, s>>, title |-> Paragraph[c].title,
   entities |-> {Paragraph[c].title} \cup sentence.names,
   names |-> ResolvedNames(c, s),
   relations |-> sentence.relations, types |-> sentence.types,
   tokens |-> sentence.tokens, length |-> sentence.length, rank |-> rank, score |-> 0]

Extract(chunks) ==
  FlattenSeq([r \in DOMAIN chunks |->
    [s \in DOMAIN Sentences(chunks[r]) |-> Unit(chunks[r], s, r)]])
-----------------------------------------------------------------------------
\* The weights and penalties of EvidenceScorerV1Config, in units of 1/2400.
Gain == [entity |-> 600, relation |-> 480, type |-> 360, tokens |-> 360, title |-> 240,
         rank |-> 120, bridge |-> 240]
Penalty == [short |-> 480, long |-> 240, empty |-> 360, most |-> 840]

\* The features of ResearchV1EvidenceFeatureExtractor, each multiplied with its weight.
EntityMatch(u, a) ==
  IF a.seeds = <<>> THEN 0
  ELSE (Gain.entity * Cardinality(ToSet(a.seeds) \cap (u.entities \cup u.names))) \div Len(a.seeds)

RelationMatch(u, a) ==
  LET required == ToSet(a.required) IN
  IF required = {} THEN 0
  ELSE (Gain.relation * Cardinality(required \cap u.relations)) \div Cardinality(required)

TypeMatch(u, a) ==
  IF a.expected = "UNKNOWN" THEN 0
  ELSE IF a.expected \in u.types THEN Gain.type
  ELSE IF a.expected = "ENTITY" /\ u.types # {} THEN (3 * Gain.type) \div 5
  ELSE 0

TokenOverlap(u, a) ==
  IF a.text.tokens = {} THEN 0
  ELSE (Gain.tokens * Cardinality(a.text.tokens \cap u.tokens)) \div Cardinality(a.text.tokens)

TitleMatch(u, a) ==
  IF u.title \in ToSet(a.seeds) THEN Gain.title
  ELSE IF u.title \in a.text.names THEN (4 * Gain.title) \div 5
  ELSE 0

RankQuality(u) == Gain.rank \div u.rank

BridgeNames(u, a) == u.entities \ (ToSet(a.seeds) \cup {u.title})
BridgeQuality(u, a) ==
  IF BridgeNames(u, a) = {} THEN 0 ELSE IF u.relations # {} THEN Gain.bridge ELSE Gain.bridge \div 2

Noise(u) ==
  Min({Penalty.most, (IF u.length = "short" THEN Penalty.short ELSE 0)
                       + (IF u.length = "long" THEN Penalty.long ELSE 0)
                       + (IF u.entities = {} /\ u.relations = {} THEN Penalty.empty ELSE 0)})

\* RuleBasedEvidenceScorerV1.score
Score(u, a) ==
  LET gain == EntityMatch(u, a) + RelationMatch(u, a) + TypeMatch(u, a)
                + TokenOverlap(u, a) + TitleMatch(u, a) + RankQuality(u) + BridgeQuality(u, a)
  IN Max({Noise(u), gain}) - Noise(u)

Scored(units, a) ==
  [i \in DOMAIN units |-> [units[i] EXCEPT !.score = Score(units[i], a)]]
=============================================================================
