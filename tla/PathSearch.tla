------------------------------ MODULE PathSearch ------------------------------
(***************************************************************************)
(* The search for evidence paths (06): from a seed of the question through *)
(* sentences and entities of the evidence graph to an answer candidate.    *)
(*                                                                         *)
(* A path is named by its nodes: the seed, the ID of its sentence, and so  *)
(* on.  Paths of one score, length and answer are ordered by their digest: *)
(* idOrder is one of two opposite orders of the nodes that stand for it.   *)
(* Scores are in units of 1/4800.                                          *)
(***************************************************************************)
EXTENDS EvidenceGraph

CONSTANTS
  TypeWord,    \* TypeWord[e]: the answer type whose name e is, for such names
  MaxPaths

\* EPSAControllerConfig.max_paths; with 0 there are no paths.
ASSUME SearchAssumption == MaxPaths \in Nat

\* _build_index: what the templates look up in the edges of the graph.
Index(g) ==
  LET pairs(kind) == {<<e.from[2], e.to[2]>> : e \in {e \in g.edges : e.kind = kind}} IN
  [mentions |-> pairs("sentence_mentions_entity"),
   relations |-> pairs("sentence_has_relation"),
   types |-> pairs("sentence_has_answer_type"),
   anchors |-> pairs("seed_entity_to_sentence"),
   answers |-> pairs("possible_answer_candidate"),
   units |-> g.units]

EntitiesOf(x, s) == {m[2] : m \in {m \in x.mentions : m[1] = s}}
SentencesOf(x, e) == {m[1] : m \in {m \in x.mentions : m[2] = e}}
AnchoredBy(x, e) == {m[2] : m \in {m \in x.anchors : m[1] = e}}
UnitOf(x, s) == CHOOSE u \in x.units : u.id = s
RelationsOn(x, ss) == {m[2] : m \in {m \in x.relations : m[1] \in ss}}

LooksSpecific(e) == e \notin DOMAIN TypeWord
-----------------------------------------------------------------------------
\* The weights of EvidencePathSearcherV1Config: for paths in units of 1/4800, for answer
\* candidates in units of 1/100.
Bonus == [type |-> 1200, relation |-> 960, length |-> 480, specific_bridge |-> 960,
          generic_bridge |-> 240, specific_answer |-> 720, rank |-> 240, yes_no |-> 720]
CandidateBonus == [possible |-> 40, type |-> 25, specific |-> 10, type_word |-> 20]

\* _rank_answer_candidates: the other entities of the sentence, best first.
CandidateRank(x, s, expected, e) ==
  (IF <<s, e>> \in x.answers THEN CandidateBonus.possible ELSE 0)
    + (IF <<s, expected>> \in x.types THEN CandidateBonus.type ELSE 0)
    + (IF LooksSpecific(e) THEN CandidateBonus.specific ELSE 0)
    + (IF ~LooksSpecific(e) /\ TypeWord[e] = expected THEN 0 ELSE CandidateBonus.type_word)

Candidates(x, s, excluded) == EntitiesOf(x, s) \ excluded

BestCandidate(x, s, excluded, expected) ==
  CHOOSE e \in Candidates(x, s, excluded) : \A f \in Candidates(x, s, excluded) :
    LET re == CandidateRank(x, s, expected, e)  rf == CandidateRank(x, s, expected, f)
    IN re > rf \/ (re = rf /\ e <= f)
-----------------------------------------------------------------------------
\* The score of a path, by _score_path.
AverageScore(x, ss) == (2 * MapThenSumSet(LAMBDA s : UnitOf(x, s).score, ss)) \div Cardinality(ss)

RelationScore(x, ss, a) ==
  LET matched == RelationsOn(x, ss) \cap ToSet(a.required)
      wanted == Max({1, Len(a.required)})
  IN Min({Bonus.relation, (Bonus.relation * Cardinality(matched)) \div wanted})

\* Sentences ss, answer e found in sentence s, and the bridge, or 0.
PathScore(x, a, ss, s, e, bridge) ==
  AverageScore(x, ss)
    + (IF <<s, a.expected>> \in x.types THEN Bonus.type ELSE 0)
    + RelationScore(x, ss, a)
    + (IF bridge = 0 \/ Cardinality(ss) = 2 THEN Bonus.length ELSE (2 * Bonus.length) \div 5)
    + (IF bridge = 0 THEN 0 ELSE IF LooksSpecific(bridge) THEN Bonus.specific_bridge
       ELSE Bonus.generic_bridge)
    + (IF LooksSpecific(e) THEN Bonus.specific_answer ELSE 0)
    + Bonus.rank \div Min({UnitOf(x, t).rank : t \in ss})

\* _make_path: sentences in order, and the entities from the seed to the answer.
Path(x, a, kind, sentences, chain, bridge) ==
  LET answer == Last(chain)
      ss == ToSet(sentences)
  IN [kind |-> kind, sentences |-> sentences, chain |-> chain, bridge |-> bridge,
      relations |-> RelationsOn(x, ss), answer |-> answer, answer_type |-> a.expected,
      score |-> PathScore(x, a, ss, Last(sentences), answer, bridge)]

\* Fault: an entity of the first sentence is taken for the answer.
BridgePathsVia(x, a, seed, s, bridge) ==
  UNION {{Path(x, a, "bridge", <<s, t>>, <<seed, bridge, e>>, bridge) :
            e \in Candidates(x, s, ToSet(a.seeds) \cup {bridge})} :
         t \in SentencesOf(x, bridge) \ {s}}

\* Through a bridge to another sentence, and to every answer candidate there.
BridgePathsOver(x, a, seed, s, bridge) ==
  UNION {{Path(x, a, "bridge", <<s, t>>, <<seed, bridge, e>>, bridge) :
            e \in Candidates(x, t, ToSet(a.seeds) \cup {bridge})} :
         t \in SentencesOf(x, bridge) \ {s}}

BridgePaths(x, a) ==
  UNION {UNION {UNION {BridgePathsOver(x, a, seed, s, bridge) :
                         bridge \in EntitiesOf(x, s) \ ToSet(a.seeds)} :
                s \in AnchoredBy(x, seed)} :
         seed \in ToSet(a.seeds)}

FactoidPaths(x, a) ==
  UNION {UNION {{Path(x, a, "factoid", <<s>>, <<seed, e>>, 0) :
                   e \in Candidates(x, s, ToSet(a.seeds))} :
                s \in AnchoredBy(x, seed)} :
         seed \in ToSet(a.seeds)}

\* The targets that are entities of the graph, else the seeds, with the best candidate
\* of each sentence that mentions them.
ComparisonTargets(g, a) ==
  LET known == {e \in ToSet(a.targets) : Entity(e) \in g.nodes}
  IN IF known # {} THEN known ELSE ToSet(a.seeds)

ComparisonPaths(x, g, a) ==
  UNION {{Path(x, a, "comparison", <<s>>,
               <<target, BestCandidate(x, s, {target}, a.expected)>>, 0) :
            s \in {s \in SentencesOf(x, target) : Candidates(x, s, {target}) # {}}} :
         target \in ComparisonTargets(g, a)}

\* Sentences that mention two seeds; no answer, and a score of their own.
YesNoPath(x, s, left, right) ==
  [kind |-> "yes_no", sentences |-> <<s>>, chain |-> <<left, right>>, bridge |-> 0,
   relations |-> RelationsOn(x, {s}), answer |-> 0, answer_type |-> "BOOLEAN",
   score |-> 2 * UnitOf(x, s).score + Bonus.yes_no]

YesNoPaths(x, a) ==
  UNION {{YesNoPath(x, s, a.seeds[p[1]], a.seeds[p[2]]) :
            s \in SentencesOf(x, a.seeds[p[1]]) \cap SentencesOf(x, a.seeds[p[2]])} :
         p \in {p \in (DOMAIN a.seeds) \X (DOMAIN a.seeds) : p[1] < p[2]}}

\* Fault: a second seed alone does not make a yes/no search.
PathsByTypeThree(x, g, a) ==
  CASE a.type = "bridge" -> BridgePaths(x, a)
    [] a.type = "comparison" -> ComparisonPaths(x, g, a)
    [] a.type = "yes_no" /\ Len(a.seeds) > 2 -> YesNoPaths(x, a)
    [] OTHER -> FactoidPaths(x, a)

\* A yes/no question with fewer than two seeds is searched like a factoid question.
PathsByType(x, g, a) ==
  CASE a.type = "bridge" -> BridgePaths(x, a)
    [] a.type = "comparison" -> ComparisonPaths(x, g, a)
    [] a.type = "yes_no" /\ Len(a.seeds) >= 2 -> YesNoPaths(x, a)
    [] OTHER -> FactoidPaths(x, a)
-----------------------------------------------------------------------------
\* _stable_path_id: the nodes of a path, in place of their digest.
PathNodes(p) == p.chain \o FlattenSeq(p.sentences)

\* EvidencePathMetadata and EvidencePath
PathValid(p) ==
  /\ p.sentences # <<>>
  /\ p.kind = "bridge" => p.bridge # 0
  /\ p.kind = "yes_no" => p.answer = 0

\* By score, number of units and answer; what is then equal by the ID.
PathBefore(idOrder, p, q) ==
  \/ p.score > q.score
  \/ p.score = q.score /\ \/ p.answer < q.answer
                          \/ /\ p.answer = q.answer
                             /\ IF idOrder = "up" THEN LexBefore(PathNodes(p), PathNodes(q))
                                ELSE LexBefore(PathNodes(q), PathNodes(p))

\* search_paths
Search(idOrder, g, a) ==
  LET x == Index(g)
  IN FirstOf(MaxPaths, InOrder(PathsByType(x, g, a), LAMBDA p, q : PathBefore(idOrder, p, q)))
=============================================================================
