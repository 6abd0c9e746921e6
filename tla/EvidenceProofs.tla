--------------------------- MODULE EvidenceProofs ---------------------------
(***************************************************************************)
(* Proofs about the evidence of a run, for all paragraphs, questions,      *)
(* retrievals and weights, and every answer of the providers: a run fails  *)
(* only for reasons known beforehand, a finished pass has paths grounded   *)
(* in its chunks, calls evidence sufficient only for sentences that back   *)
(* the answer, and keeps these sentences in its context.                   *)
(*                                                                         *)
(* The inductive invariant EvidenceInv says what each phase of a pass has  *)
(* to work on (UnitsKnown, PathsKnown, DecisionKnown), all of it computed  *)
(* from the chunks of the pass and the analysis of the question; what each *)
(* finished pass keeps (PassesAreKept, PassesOfHops); and that only known  *)
(* failures happened. With RunInv, which says which retrievals and merge a *)
(* phase has, every contract that a record checks is then a fact about the *)
(* component that built it, and the next phase follows.                    *)
(***************************************************************************)
EXTENDS EvidenceSearchProofs
-----------------------------------------------------------------------------
(* Component 05: no contract of the graph or of a path is broken *)

\* The parts of a graph.
LEMMA GraphParts ==
  ASSUME NEW units, NEW a
  PROVE  /\ Graph(units, a).type = a.type /\ Graph(units, a).expected = a.expected
         /\ Graph(units, a).required = a.required /\ Graph(units, a).seeds = a.seeds
         /\ Graph(units, a).units = ToSet(units)
         /\ Graph(units, a).edges = UNION {EdgesOf(units[i], a) : i \in DOMAIN units}
         /\ \A e \in Graph(units, a).edges :
              e.from \in Graph(units, a).nodes /\ e.to \in Graph(units, a).nodes
         /\ \A n \in ToSet(a.seeds) : Entity(n) \in Graph(units, a).nodes
<1> DEFINE edges == UNION {EdgesOf(units[i], a) : i \in DOMAIN units}
           nodes == {Entity(e) : e \in ToSet(a.seeds)}
                      \cup {e.from : e \in edges} \cup {e.to : e \in edges}
<1>1. /\ \A e \in edges : e.from \in nodes /\ e.to \in nodes
      /\ \A n \in ToSet(a.seeds) : Entity(n) \in nodes
  <2> HIDE DEF edges
  <2>1. QED
    OBVIOUS
<1>2. /\ Graph(units, a).type = a.type /\ Graph(units, a).expected = a.expected
      /\ Graph(units, a).required = a.required /\ Graph(units, a).seeds = a.seeds
      /\ Graph(units, a).units = ToSet(units)
      /\ Graph(units, a).edges = edges /\ Graph(units, a).nodes = nodes
  BY DEF Graph
<1> HIDE DEF edges, nodes
<1>3. QED
  BY <1>1, <1>2 DEF edges

\* EvidenceGraph.validate_graph_identity_and_order never fails.
LEMMA GraphFits ==
  ASSUME NEW units, NEW a
  PROVE  GraphValid(Graph(units, a))
<1> DEFINE g == Graph(units, a)
<1>1. /\ g.seeds = a.seeds /\ g.units = ToSet(units)
      /\ g.edges = UNION {EdgesOf(units[i], a) : i \in DOMAIN units}
      /\ \A e \in g.edges : e.from \in g.nodes /\ e.to \in g.nodes
      /\ \A n \in ToSet(a.seeds) : Entity(n) \in g.nodes
  BY GraphParts
<1> HIDE DEF g
<1>2. ASSUME NEW u \in g.units
      PROVE  SentenceNode(u) \in g.nodes
  <2>1. PICK i \in DOMAIN units : u = units[i]
    BY <1>1, <1>2 DEF ToSet
  <2> DEFINE e == Edge("title_to_sentence", <<"title", u.title>>, SentenceNode(u), u)
  <2>2. e \in EdgesOf(u, a)
    BY DEF EdgesOf, DocumentEdges
  <2>3. e.to = SentenceNode(u)
    BY EdgeParts
  <2> HIDE DEF e
  <2>4. e \in g.edges
    BY <1>1, <2>1, <2>2
  <2>5. QED
    BY <1>1, <2>3, <2>4
<1>3. QED
  BY <1>1, <1>2 DEF GraphValid, g

\* The pass under way: scored units of distinct chunks, and what the search found in them.
PassFits(units, chunks, a) ==
  chunks \in Seq(Chunk) /\ Distinct(chunks) /\ ScoredOf(units, chunks) /\ AnalysisFits(a)

\* Paths that a search may give for the units of a pass.
SearchFits(units, chunks, a, g, paths) ==
  /\ PassFits(units, chunks, a) /\ g = Graph(units, a)
  /\ \E idOrder : paths = Search(idOrder, g, a)

\* What the search gives component 07.
LEMMA SearchGives ==
  ASSUME NEW units, NEW chunks, NEW a, NEW g, NEW paths, SearchFits(units, chunks, a, g, paths)
  PROVE  /\ UnitsFit(ToSet(units), chunks) /\ AnalysisFits(a)
         /\ IndexOf(Index(g), ToSet(units), a) /\ g.units = ToSet(units)
         /\ Finds(paths, Index(g), ToSet(units), a)
         /\ \A i \in DOMAIN paths : Told(paths[i], KindSought(a), ToSet(units), a)
<1>1. /\ chunks \in Seq(Chunk) /\ Distinct(chunks) /\ ScoredOf(units, chunks) /\ AnalysisFits(a)
      /\ g = Graph(units, a)
  BY DEF SearchFits, PassFits
<1>2. UnitsFit(ToSet(units), chunks)
  BY <1>1, ScoredUnitsFit
<1>3. IndexOf(Index(g), ToSet(units), a) /\ g.units = ToSet(units)
  BY <1>1, Indexed, GraphParts
<1>4. PICK idOrder : paths = Search(idOrder, g, a)
  BY DEF SearchFits
<1>5. Finds(paths, Index(g), ToSet(units), a)
  BY <1>1, <1>2, <1>3, <1>4, Searches
<1>6. \A i \in DOMAIN paths : Told(paths[i], KindSought(a), ToSet(units), a)
  <2>1. \A i \in DOMAIN paths : MadeBy(paths[i], KindSought(a), Index(g), ToSet(units), a)
    BY <1>5 DEF Finds
  <2>2. KindSought(a) \in {"bridge", "factoid", "comparison", "yes_no"}
    BY <1>1, KindKnown
  <2>3. QED
    BY <1>1, <1>2, <1>3, <2>1, <2>2, MadeTold
<1>7. QED
  BY <1>1, <1>2, <1>3, <1>5, <1>6

\* EvidencePathMetadata and EvidencePath never refuse a path of the search.
LEMMA PathsFit ==
  ASSUME NEW units, NEW chunks, NEW a, NEW g, NEW paths, SearchFits(units, chunks, a, g, paths)
  PROVE  \A i \in DOMAIN paths : PathValid(paths[i])
<1>1. TAKE i \in DOMAIN paths
<1>2. PICK u, v \in ToSet(units) : Ends(paths[i], u, v) /\ Tells(paths[i], KindSought(a), a, u, v)
  BY SearchGives DEF Told
<1>3. QED
  BY <1>2 DEF Ends, Tells, PathValid

\* The paths are of the type of the question, unless a yes/no question has too few seeds.
LEMMA InputsFit ==
  ASSUME NEW units, NEW chunks, NEW a, NEW g, NEW paths, SearchFits(units, chunks, a, g, paths)
  PROVE  DecisionInputsValid(g, a, paths) \/ (a.type = "yes_no" /\ Len(a.seeds) < 2)
<1>1. /\ g.type = a.type /\ g.expected = a.expected /\ g.required = a.required
  BY GraphParts DEF SearchFits
<1>2. \A i \in DOMAIN paths : paths[i].kind = KindSought(a)
  BY SearchGives DEF Told, Tells
<1>3. QED
  BY <1>1, <1>2 DEF KindSought, DecisionInputsValid

\* What is decided: nothing suffices, or one path passes all guards.
Decides(d, g, a, paths) ==
  /\ d.type = a.type /\ d.considered = ToSet(paths)
  /\ a.type = "yes_no" => d.answer = 0 /\ d.answer_type = "BOOLEAN"
  /\ a.type # "yes_no" => d.answer_type = IF d.best = <<>> THEN a.expected ELSE d.best[1].answer_type
  /\ d.best = <<>> \/ \E i \in DOMAIN paths : d.best = <<paths[i]>>
  /\ ~d.sufficient => \A s \in d.selected : \E i \in DOMAIN paths : s \in ToSet(paths[i].sentences)
  /\ d.sufficient => /\ d.missing = Nothing /\ d.best # <<>>
                     /\ \E i \in DOMAIN paths :
                          /\ Passes(GuardsOf(paths[i], g, a)) /\ d.best = <<paths[i]>>
                          /\ d.best[1] = paths[i] /\ d.selected = ToSet(paths[i].sentences)

\* The parts of a decision for the best path.
DecidedAs(d, a, sufficient, paths, best, selected, missing) ==
  /\ d.type = a.type /\ d.considered = ToSet(paths) /\ d.best = best
  /\ d.sufficient = sufficient /\ d.selected = selected /\ d.missing = missing
  /\ a.type = "yes_no" => d.answer = 0 /\ d.answer_type = "BOOLEAN"
  /\ a.type # "yes_no" => d.answer_type = IF best = <<>> THEN a.expected ELSE best[1].answer_type

\* The parts of a decision.
LEMMA DecisionParts ==
  ASSUME NEW a, NEW sufficient, NEW paths, NEW best, NEW selected, NEW missing
  PROVE  DecidedAs(Decision(a, sufficient, paths, best, selected, missing),
                   a, sufficient, paths, best, selected, missing)
BY DEF Decision, DecidedAs

\* Component 07 decides for one of the best paths, or that there is none.
LEMMA DecideGives ==
  ASSUME NEW g, NEW a, NEW paths, IsListed(paths)
  PROVE  Decides(Decide(g, a, paths), g, a, paths)
<1> DEFINE passing == {i \in DOMAIN paths : Passes(GuardsOf(paths[i], g, a))}
           d == Decide(g, a, paths)
<1>1. DOMAIN paths = 1..Len(paths) /\ Len(paths) \in Nat
  BY LenProperties DEF IsListed
<1>2. CASE paths = <<>>
  <2>1. d = Decision(a, FALSE, <<>>, <<>>, {}, [says |-> "path", name |-> 0])
    BY <1>2 DEF Decide
  <2> HIDE DEF d
  <2>2. DecidedAs(d, a, FALSE, <<>>, <<>>, {}, [says |-> "path", name |-> 0])
    BY <2>1, DecisionParts
  <2>3. Decides(d, g, a, paths)
    BY <1>2, <2>2 DEF Decides, DecidedAs
  <2>4. QED
    BY <2>3 DEF d
<1>3. CASE paths # <<>> /\ passing # {}
  <2>1. Min(passing) \in passing
    BY <1>1, <1>3, LeastOf
  <2>2. PICK i \in DOMAIN paths : i = Min(passing) /\ Passes(GuardsOf(paths[i], g, a))
    BY <2>1
  <2>3. d = Decision(a, TRUE, paths, <<paths[i]>>, ToSet(paths[i].sentences), Nothing)
    BY <1>3, <2>2 DEF Decide
  <2> HIDE DEF d, passing
  <2>4. DecidedAs(d, a, TRUE, paths, <<paths[i]>>, ToSet(paths[i].sentences), Nothing)
    BY <2>3, DecisionParts
  <2>5. <<paths[i]>> # <<>> /\ <<paths[i]>>[1] = paths[i]
    OBVIOUS
  <2>6. Decides(d, g, a, paths)
    BY <2>2, <2>4, <2>5 DEF Decides, DecidedAs
  <2>7. QED
    BY <2>6 DEF d
<1>4. CASE paths # <<>> /\ passing = {}
  <2> DEFINE selected == IF a.type = "comparison" THEN UNION {ToSet(p.sentences) : p \in ToSet(paths)}
                         ELSE ToSet(paths[1].sentences)
  <2>1. d = Decision(a, FALSE, paths, <<paths[1]>>, selected, FirstFailure(GuardsOf(Last(paths), g, a)))
    BY <1>4 DEF Decide
  <2>2. 1 \in DOMAIN paths
    BY <1>1, <1>4, EmptySeq DEF IsListed
  <2>3. \A s \in selected : \E i \in DOMAIN paths : s \in ToSet(paths[i].sentences)
    <3>1. \A p \in ToSet(paths) : \E i \in DOMAIN paths : p = paths[i]
      BY DEF ToSet
    <3>2. QED
      BY <2>2, <3>1
  <2> HIDE DEF d, passing, selected
  <2>4. DecidedAs(d, a, FALSE, paths, <<paths[1]>>, selected, FirstFailure(GuardsOf(Last(paths), g, a)))
    BY <2>1, DecisionParts
  <2>5. Decides(d, g, a, paths)
    BY <2>2, <2>3, <2>4 DEF Decides, DecidedAs
  <2>6. QED
    BY <2>5 DEF d
<1>5. QED
  BY <1>2, <1>3, <1>4
-----------------------------------------------------------------------------
(* Component 07: what a sufficient decision means *)

\* SufficiencyDecision.require_consistent_provenance never refuses a decision.
LEMMA DecisionFits ==
  ASSUME NEW g, NEW a, NEW paths, IsListed(paths)
  PROVE  DecisionValid(Decide(g, a, paths))
<1> DEFINE d == Decide(g, a, paths)
<1>1. Decides(d, g, a, paths)
  BY DecideGives
<1> HIDE DEF d
<1>2. ASSUME NEW i \in DOMAIN d.best
      PROVE  d.best[i] \in d.considered
  <2>1. PICK j \in DOMAIN paths : d.best = <<paths[j]>>
    BY <1>1, <1>2 DEF Decides
  <2>2. i = 1 /\ d.best[i] = paths[j]
    BY <1>2, <2>1
  <2>3. QED
    BY <1>1, <2>2 DEF Decides, ToSet
<1>3. DecisionValid(d)
  BY <1>1, <1>2 DEF Decides, DecisionValid
<1>4. QED
  BY <1>3 DEF d

\* The query generator never refuses what the decision gives it.
LEMMA QueryFits ==
  ASSUME NEW units, NEW chunks, NEW a, NEW g, NEW paths, SearchFits(units, chunks, a, g, paths),
         DecisionInputsValid(g, a, paths)
  PROVE  QueryInputsValid(Decide(g, a, paths), g, a, paths)
<1> DEFINE d == Decide(g, a, paths)
<1>1. /\ IsListed(paths) /\ AnalysisFits(a)
      /\ \A i, j \in DOMAIN paths : PathNodes(paths[i]) = PathNodes(paths[j]) => i = j
  BY SearchGives DEF Finds
<1>2. Decides(d, g, a, paths)
  BY <1>1, DecideGives
<1> HIDE DEF d
<1>3. d.type = a.type /\ d.considered = ToSet(paths)
  BY <1>2 DEF Decides
<1>4. d.answer_type = a.expected
  <2>1. CASE a.type = "yes_no"
    BY <1>1, <1>2, <2>1 DEF Decides, AnalysisFits
  <2>2. CASE a.type # "yes_no" /\ d.best = <<>>
    BY <1>2, <2>2 DEF Decides
  <2>3. CASE a.type # "yes_no" /\ d.best # <<>>
    <3>1. PICK i \in DOMAIN paths : d.best = <<paths[i]>>
      BY <1>2, <2>3 DEF Decides
    <3>2. d.answer_type = paths[i].answer_type
      <4>1. d.best[1] = paths[i]
        BY <3>1
      <4>2. QED
        BY <1>2, <2>3, <4>1 DEF Decides
    <3>3. PICK u, v \in ToSet(units) : Tells(paths[i], KindSought(a), a, u, v)
      BY <3>1, SearchGives DEF Told
    <3>4. KindSought(a) # "yes_no"
      BY <2>3 DEF KindSought
    <3>5. QED
      BY <3>2, <3>3, <3>4 DEF Tells
  <2>4. QED
    BY <2>1, <2>2, <2>3
<1>5. QueryInputsValid(d, g, a, paths)
  BY <1>1, <1>3, <1>4 DEF QueryInputsValid, DecisionInputsValid
<1>6. QED
  BY <1>5 DEF d

\* What SufficientMeansBacked says for the analysis a.
AnswerBackedFor(a, s, t, answer) ==
  /\ Resolved(s) \cap ToSet(a.seeds) # {}
  /\ answer \in Resolved(t) \ (ToSet(a.seeds) \cup VagueAnswers)
  /\ a.expected \in {"ENTITY", "UNKNOWN"} \cup SurfaceTypes[answer]

\* A sentence with a seed and the answer.
OneSentenceBacks(a, ss, answer) ==
  /\ ToSet(a.required) \subseteq Stated(ss)
  /\ \E s \in ss : AnswerBackedFor(a, s, s, answer)

\* Sentences with two seeds.
TwoSeedsBack(a, ss) ==
  /\ ToSet(a.required) \subseteq Stated(ss)
  /\ \E s \in ss : Cardinality(Mentioned(s) \cap ToSet(a.seeds)) >= 2

\* Two sentences, the seed in one and the answer in the other.
BridgeBacks(a, ss, answer) ==
  /\ Cardinality(ToSet(a.required) \ Stated(ss)) <= Max({2, Len(a.required)}) - 2
  /\ \E s, t \in ss :
       /\ AnswerBackedFor(a, s, t, answer)
       /\ Paragraph[s[1]].title # Paragraph[t[1]].title
       /\ (Resolved(s) \cap Resolved(t)) \ (ToSet(a.seeds) \cup GenericBridges \cup {answer}) # {}

\* What backs an answer, by the type of the question.
BackedFor(a, ss, answer) ==
  CASE a.type = "comparison" -> FALSE
    [] a.type = "yes_no" -> TwoSeedsBack(a, ss)
    [] a.type = "factoid" -> OneSentenceBacks(a, ss, answer)
    [] a.type = "bridge" -> BridgeBacks(a, ss, answer)

\* What the guards that a path passes say.
LEMMA NineHold ==
  ASSUME NEW g1, NEW g2, NEW g3, NEW g4, NEW g5, NEW g6, NEW g7, NEW g8, NEW g9,
         Passes(<<g1, g2, g3, g4, g5, g6, g7, g8, g9>>)
  PROVE  g3.holds /\ g5.holds /\ g6.holds /\ g8.holds /\ g9.holds
BY DEF Passes

\* What the guards of a factoid question say.
LEMMA SevenHold ==
  ASSUME NEW g1, NEW g2, NEW g3, NEW g4, NEW g5, NEW g6, NEW g7,
         Passes(<<g1, g2, g3, g4, g5, g6, g7>>)
  PROVE  g2.holds /\ g3.holds /\ g4.holds
BY DEF Passes

\* What the guards of a yes/no question say.
LEMMA TwoHold ==
  ASSUME NEW g1, NEW g2, Passes(<<g1, g2>>)
  PROVE  g2.holds
BY DEF Passes

\* A bridge path that passes.
LEMMA BridgePasses ==
  ASSUME NEW p, NEW g, NEW a, Passes(BridgeGuards(p, g, a))
  PROVE  /\ SpecificBridge(p) /\ AnswerFits(p, g, a)
         /\ RelationsFound(p, a) >= Min({2, Cardinality(Required(a))})
         /\ RolesCovered(p, g, a) /\ IndependentCoverage(p, g)
<1> DEFINE enough == RelationsFound(p, a) >= Min({2, Cardinality(Required(a))})
           g3 == [holds |-> SpecificBridge(p),
                  missing |-> [says |-> "generic bridge", name |-> p.bridge]]
           g5 == Guard(AnswerFits(p, g, a), "answer")
           g6 == Guard(enough, "required relation")
           g8 == Guard(RolesCovered(p, g, a), "roles")
           g9 == Guard(IndependentCoverage(p, g), "coverage")
<1>1. PICK g1, g2, g4, g7 : Passes(<<g1, g2, g3, g4, g5, g6, g7, g8, g9>>)
  BY DEF BridgeGuards
<1>2. /\ g3.holds = SpecificBridge(p) /\ g5.holds = AnswerFits(p, g, a)
      /\ g6.holds = enough /\ g8.holds = RolesCovered(p, g, a)
      /\ g9.holds = IndependentCoverage(p, g)
  BY DEF Guard
<1> HIDE DEF g3, g5, g6, g8, g9, enough
<1>3. g3.holds /\ g5.holds /\ g6.holds /\ g8.holds /\ g9.holds
  BY <1>1, NineHold
<1>4. SpecificBridge(p) /\ AnswerFits(p, g, a) /\ enough /\ RolesCovered(p, g, a) /\ IndependentCoverage(p, g)
  BY <1>2, <1>3, Zenon
<1>5. QED
  BY <1>4 DEF enough

\* A factoid path that passes.
LEMMA FactoidPasses ==
  ASSUME NEW p, NEW g, NEW a, Passes(FactoidGuards(p, g, a))
  PROVE  /\ AnswerFits(p, g, a) /\ RolesCovered(p, g, a)
         /\ RelationsFound(p, a) = Cardinality(Required(a))
<1> DEFINE all == RelationsFound(p, a) = Cardinality(Required(a))
           g2 == Guard(AnswerFits(p, g, a), "answer")
           g3 == Guard(RolesCovered(p, g, a), "roles")
           g4 == Guard(all, "required relation")
<1>1. PICK g1, g5, g6, g7 : Passes(<<g1, g2, g3, g4, g5, g6, g7>>)
  BY DEF FactoidGuards
<1>2. /\ g2.holds = AnswerFits(p, g, a) /\ g3.holds = RolesCovered(p, g, a) /\ g4.holds = all
  BY DEF Guard
<1> HIDE DEF g2, g3, g4, all
<1>3. g2.holds /\ g3.holds /\ g4.holds
  BY <1>1, SevenHold
<1>4. AnswerFits(p, g, a) /\ RolesCovered(p, g, a) /\ all
  BY <1>2, <1>3, Zenon
<1>5. QED
  BY <1>4 DEF all

\* A yes/no path that passes.
LEMMA YesNoPasses ==
  ASSUME NEW p, NEW g, NEW a, Passes(YesNoGuards(p, g, a))
  PROVE  RelationsFound(p, a) = Cardinality(Required(a))
<1> DEFINE all == RelationsFound(p, a) = Cardinality(Required(a))
           g2 == Guard(all, "yes/no relation")
<1>1. PICK g1 : Passes(<<g1, g2>>)
  BY DEF YesNoGuards
<1>2. g2.holds = all
  BY DEF Guard
<1> HIDE DEF g2, all
<1>3. g2.holds
  BY <1>1, TwoHold
<1>4. all
  BY <1>2, <1>3, Zenon
<1>5. QED
  BY <1>4 DEF all

\* One guard of a comparison never holds: no comparison is called sufficient.
LEMMA ComparisonFails == ~Passes(ComparisonGuards)
BY DEF Passes, ComparisonGuards, Guard

\* Relations found among the required ones.
LEMMA RequiredFound ==
  ASSUME NEW p, NEW a, AnalysisFits(a)
  PROVE  /\ RelationsFound(p, a) = Cardinality(Required(a)) => ToSet(a.required) \subseteq p.relations
         /\ RelationsFound(p, a) >= Min({2, Cardinality(Required(a))}) =>
              Cardinality(ToSet(a.required) \ p.relations) <= Max({2, Len(a.required)}) - 2
<1> DEFINE R == ToSet(a.required)
           n == Cardinality(R)
           m == Cardinality(R \cap p.relations)
<1>1. IsFiniteSet(R) /\ n \in Nat /\ n <= Len(a.required) /\ Len(a.required) \in Nat
  BY ElementsFinite DEF AnalysisFits
<1>2. m \in Nat /\ m <= n /\ (m = n => R \subseteq p.relations)
  BY <1>1, PartSize
<1>3. RelationsFound(p, a) = m /\ Cardinality(Required(a)) = n
  BY DEF RelationsFound, Required
<1>4. Cardinality(R \ p.relations) = n - m
  <2>1. \A S, T : IsFiniteSet(S) => Cardinality(S \ T) = Cardinality(S) - Cardinality(S \cap T)
    BY FS_Difference
  <2>2. QED
    BY <1>1, <2>1
<1>5. Min({2, n}) = IF 2 <= n THEN 2 ELSE n
  BY <1>1, LeastOfTwo
<1>6. Max({2, Len(a.required)}) = IF 2 >= Len(a.required) THEN 2 ELSE Len(a.required)
  BY <1>1, GreatestOfTwo
<1> HIDE DEF R, n, m
<1>7. m = n => R \subseteq p.relations
  BY <1>2
<1>8. m >= Min({2, n}) => n - m <= Max({2, Len(a.required)}) - 2
  BY <1>1, <1>2, <1>5, <1>6
<1>9. QED
  BY <1>3, <1>4, <1>7, <1>8 DEF R

\* The relations that the units of a path state.
LEMMA StatedBy ==
  ASSUME NEW U, NEW chunks, UnitsFit(U, chunks), NEW u \in U, NEW v \in U
  PROVE  Stated({u.id, v.id}) = u.relations \cup v.relations
<1>1. /\ u.relations = Sentences(u.id[1])[u.id[2]].relations
      /\ v.relations = Sentences(v.id[1])[v.id[2]].relations
  BY UnitHas
<1> DEFINE says(s) == Sentences(s[1])[s[2]].relations
<1>2. Stated({u.id, v.id}) = UNION {says(s) : s \in {u.id, v.id}}
  BY DEF Stated
<1>3. says(u.id) = u.relations /\ says(v.id) = v.relations
  BY <1>1
<1> HIDE DEF says
<1>4. QED
  BY <1>2, <1>3

\* Two different elements.
LEMMA AtLeastTwo ==
  ASSUME NEW S, IsFiniteSet(S), NEW l \in S, NEW r \in S, l # r
  PROVE  Cardinality(S) >= 2
<1>1. {l, r} \in SUBSET S
  OBVIOUS
<1>2. IsFiniteSet({l}) /\ Cardinality({l}) = 1
  BY FS_Singleton
<1>3. IsFiniteSet({l} \cup {r}) /\ Cardinality({l} \cup {r}) = Cardinality({l}) + 1
  <2>1. \A T, y : IsFiniteSet(T) => /\ IsFiniteSet(T \cup {y})
                                    /\ Cardinality(T \cup {y}) = IF y \in T THEN Cardinality(T) ELSE Cardinality(T) + 1
    BY FS_AddElement
  <2>2. QED
    BY <1>2, <2>1
<1>4. {l} \cup {r} = {l, r}
  OBVIOUS
<1>5. Cardinality({l, r}) <= Cardinality(S) /\ Cardinality(S) \in Nat
  BY <1>1, FS_Subset, FS_CardinalityType
<1>6. QED
  BY <1>2, <1>3, <1>4, <1>5

\* At most one element.
LEMMA NotTwo ==
  ASSUME NEW S, NEW y, S \subseteq {y}
  PROVE  ~(Cardinality(S) >= 2)
<1>1. S = {} \/ S = {y}
  OBVIOUS
<1>2. Cardinality({}) = 0 /\ Cardinality({y}) = 1
  BY FS_EmptySet, FS_Singleton
<1>3. QED
  BY <1>1, <1>2

\* The ends of a path are units of the graph.
LEMMA EndUnits ==
  ASSUME NEW U, NEW chunks, UnitsFit(U, chunks), NEW g, g.units = U,
         NEW u \in U, NEW v \in U, NEW p, Ends(p, u, v)
  PROVE  /\ First(g, p) = u /\ Final(g, p) = v /\ UnitsOf(g, p) = {u, v}
<1>1. UnitOf(g, u.id) = u /\ UnitOf(g, v.id) = v
  BY UnitNamed
<1>2. First(g, p) = u /\ Final(g, p) = v
  BY <1>1 DEF First, Final, Ends
<1>3. UnitsOf(g, p) = {UnitOf(g, s) : s \in {u.id, v.id}}
  BY DEF UnitsOf, Ends
<1>4. QED
  BY <1>1, <1>2, <1>3

\* The answer fits the question and is not vague.
LEMMA AnswerShown ==
  ASSUME NEW U, NEW chunks, UnitsFit(U, chunks), NEW a, AnalysisFits(a), NEW g, g.units = U,
         NEW u \in U, NEW v \in U, NEW p, Ends(p, u, v), Tells(p, a.type, a, u, v),
         a.type \in {"bridge", "factoid"}, AnswerFits(p, g, a), RolesCovered(p, g, a)
  PROVE  AnswerBackedFor(a, u.id, v.id, p.answer)
<1>1. u.names = Resolved(u.id) /\ v.names = Resolved(v.id)
  BY UnitHas
<1>2. First(g, p) = u /\ Final(g, p) = v
  BY EndUnits
<1>3. ToSet(a.seeds) \cap u.names # {} /\ p.answer \in v.names
  BY <1>2 DEF RolesCovered
<1>4. p.answer \notin VagueAnswers
  BY DEF AnswerFits, SpecificAnswer
<1>5. a.expected \in {"ENTITY", "UNKNOWN"} \cup SurfaceTypes[p.answer]
  BY DEF AnswerFits, SurfaceMatches, AnalysisFits
<1>6. p.answer \notin ToSet(a.seeds)
  BY DEF Tells
<1>7. QED
  BY <1>1, <1>3, <1>4, <1>5, <1>6 DEF AnswerBackedFor

\* A decision calls evidence sufficient only if the selected sentences back the answer.
LEMMA SufficientBacked ==
  ASSUME NEW units, NEW chunks, NEW a, NEW g, NEW paths, SearchFits(units, chunks, a, g, paths),
         DecisionInputsValid(g, a, paths), NEW d, d = Decide(g, a, paths), d.sufficient
  PROVE  BackedFor(a, d.selected, d.best[1].answer)
<1> DEFINE U == ToSet(units)
<1>1. /\ UnitsFit(U, chunks) /\ AnalysisFits(a) /\ g.units = U /\ IsListed(paths)
  BY SearchGives DEF Finds
<1>2. Decides(d, g, a, paths)
  BY <1>1, DecideGives
<1>3. PICK i \in DOMAIN paths :
        Passes(GuardsOf(paths[i], g, a)) /\ d.best[1] = paths[i] /\ d.selected = ToSet(paths[i].sentences)
  BY <1>2 DEF Decides
<1>4. PICK u, v \in U : Ends(paths[i], u, v) /\ Tells(paths[i], KindSought(a), a, u, v)
  BY SearchGives DEF Told
<1>5. KindSought(a) = a.type
  <2>1. paths[i].kind = a.type
    BY DEF DecisionInputsValid
  <2>2. QED
    BY <1>4, <2>1 DEF Tells
<1>6. PICK p : p = paths[i]
  OBVIOUS
<1>7. Ends(p, u, v) /\ Tells(p, a.type, a, u, v) /\ Passes(GuardsOf(p, g, a))
  BY <1>3, <1>4, <1>5, <1>6
<1>8. PICK ss : ss = {u.id, v.id} /\ d.selected = ss /\ d.best[1].answer = p.answer
  BY <1>3, <1>6, <1>7 DEF Ends
<1>9. Stated(ss) = p.relations
  BY <1>1, <1>7, <1>8, StatedBy DEF Tells
<1> HIDE DEF U
<1>10. CASE a.type = "comparison"
  <2>1. GuardsOf(p, g, a) = ComparisonGuards
    BY <1>10 DEF GuardsOf
  <2>2. QED
    BY <1>7, <2>1, ComparisonFails
<1>11. CASE a.type = "yes_no"
  <2>1. GuardsOf(p, g, a) = YesNoGuards(p, g, a)
    BY <1>11 DEF GuardsOf
  <2>2. ToSet(a.required) \subseteq Stated(ss)
    BY <1>1, <1>7, <1>9, <2>1, YesNoPasses, RequiredFound
  <2>3. PICK l, r \in ToSet(a.seeds) \cap u.entities : l # r
    BY <1>7, <1>11 DEF Tells
  <2>4. u.entities = Mentioned(u.id) /\ IsFiniteSet(u.entities)
    BY <1>1, UnitHas
  <2>5. l \in Mentioned(u.id) \cap ToSet(a.seeds) /\ r \in Mentioned(u.id) \cap ToSet(a.seeds)
    BY <2>3, <2>4
  <2>6. IsFiniteSet(Mentioned(u.id) \cap ToSet(a.seeds))
    BY <2>4, PartSize
  <2>7. Cardinality(Mentioned(u.id) \cap ToSet(a.seeds)) >= 2
    BY <2>3, <2>5, <2>6, AtLeastTwo
  <2>8. TwoSeedsBack(a, ss)
    BY <1>8, <2>2, <2>7 DEF TwoSeedsBack
  <2>9. QED
    BY <1>8, <1>11, <2>8 DEF BackedFor
<1>12. CASE a.type = "factoid"
  <2>1. GuardsOf(p, g, a) = FactoidGuards(p, g, a)
    BY <1>12 DEF GuardsOf
  <2>2. AnswerFits(p, g, a) /\ RolesCovered(p, g, a)
    BY <1>7, <2>1, FactoidPasses
  <2>3. ToSet(a.required) \subseteq Stated(ss)
    BY <1>1, <1>7, <1>9, <2>1, FactoidPasses, RequiredFound
  <2>4. u = v
    BY <1>7, <1>12 DEF Tells
  <2>5. AnswerBackedFor(a, u.id, u.id, p.answer)
    BY <1>1, <1>7, <1>12, <2>2, <2>4, AnswerShown
  <2>6. OneSentenceBacks(a, ss, p.answer)
    BY <1>8, <2>3, <2>5 DEF OneSentenceBacks
  <2>7. QED
    BY <1>8, <1>12, <2>6 DEF BackedFor
<1>13. CASE a.type = "bridge"
  <2>1. GuardsOf(p, g, a) = BridgeGuards(p, g, a)
    BY <1>13 DEF GuardsOf
  <2>2. /\ SpecificBridge(p) /\ AnswerFits(p, g, a) /\ RolesCovered(p, g, a)
        /\ IndependentCoverage(p, g)
    BY <1>7, <2>1, BridgePasses
  <2>3. Cardinality(ToSet(a.required) \ Stated(ss)) <= Max({2, Len(a.required)}) - 2
    BY <1>1, <1>7, <1>9, <2>1, BridgePasses, RequiredFound
  <2>4. AnswerBackedFor(a, u.id, v.id, p.answer)
    BY <1>1, <1>7, <1>13, <2>2, AnswerShown
  <2>5. /\ First(g, p) = u /\ Final(g, p) = v /\ UnitsOf(g, p) = {u, v}
    BY <1>1, <1>7, EndUnits
  <2>6. u.title # v.title
    <3>1. SUFFICES ASSUME u.title = v.title PROVE FALSE
      OBVIOUS
    <3>2. {w.title : w \in UnitsOf(g, p)} \subseteq {u.title}
      BY <2>5, <3>1
    <3>3. ~(Cardinality({w.title : w \in UnitsOf(g, p)}) >= 2)
      BY <3>2, NotTwo
    <3>4. QED
      BY <2>2, <3>3 DEF IndependentCoverage
  <2>7. /\ u.title = Paragraph[u.id[1]].title /\ v.title = Paragraph[v.id[1]].title
        /\ u.names = Resolved(u.id) /\ v.names = Resolved(v.id)
    BY <1>1, UnitHas
  <2>8. p.bridge # 0 /\ p.bridge # p.answer /\ p.bridge \notin ToSet(a.seeds)
    BY <1>7, <1>13 DEF Tells
  <2>9. p.bridge \in u.names \cap v.names /\ p.bridge \notin GenericBridges
    BY <2>2, <2>5, <2>8 DEF RolesCovered, SpecificBridge
  <2>10. (Resolved(u.id) \cap Resolved(v.id)) \ (ToSet(a.seeds) \cup GenericBridges \cup {p.answer}) # {}
    BY <2>7, <2>8, <2>9
  <2>11. BridgeBacks(a, ss, p.answer)
    BY <1>8, <2>3, <2>4, <2>6, <2>7, <2>10 DEF BridgeBacks
  <2>12. QED
    BY <1>8, <1>13, <2>11 DEF BackedFor
<1>14. QED
  BY <1>1, <1>10, <1>11, <1>12, <1>13 DEF AnalysisFits
-----------------------------------------------------------------------------
(* Component 08: the sentences that are kept *)

\* A unit is selected, or next to a selected sentence.
IsNear(mandatory, u) == \E s \in mandatory : Near(u.id, s)

\* One unit of the loop: it is taken if it is near a selected one and there is room.
LEMMA VisitTakes ==
  ASSUME NEW mandatory, NEW state, NEW u
  PROVE  /\ state.full => Visit(mandatory, state, u) = state
         /\ ~state.full /\ ~IsNear(mandatory, u) =>
              \/ Visit(mandatory, state, u) = state
              \/ /\ Visit(mandatory, state, u).taken = state.taken
                 /\ Visit(mandatory, state, u).full <=> Cardinality(state.taken) >= MaxUnits
         /\ ~state.full /\ IsNear(mandatory, u) =>
              /\ Visit(mandatory, state, u).taken = state.taken \cup {u.id}
              /\ Visit(mandatory, state, u).full <=> Cardinality(state.taken \cup {u.id}) >= MaxUnits
<1> DEFINE chunks == {s[1] : s \in mandatory}
           next(taken) == [taken |-> taken, full |-> Cardinality(taken) >= MaxUnits]
<1>1. state.full \/ u.id[1] \notin chunks => Visit(mandatory, state, u) = state
  BY DEF Visit
<1>2. ~(state.full \/ u.id[1] \notin chunks) =>
        Visit(mandatory, state, u) =
          next(IF IsNear(mandatory, u) THEN state.taken \cup {u.id} ELSE state.taken)
  BY DEF Visit, IsNear
<1>3. IsNear(mandatory, u) => u.id[1] \in chunks
  BY DEF IsNear, Near
<1>4. \A t : next(t).taken = t /\ (next(t).full <=> Cardinality(t) >= MaxUnits)
  OBVIOUS
<1> HIDE DEF next, chunks
<1>5. CASE state.full
  BY <1>1, <1>5
<1>6. CASE ~state.full /\ u.id[1] \notin chunks
  BY <1>1, <1>3, <1>6
<1>7. CASE ~state.full /\ u.id[1] \in chunks /\ IsNear(mandatory, u)
  BY <1>2, <1>4, <1>7
<1>8. CASE ~state.full /\ u.id[1] \in chunks /\ ~IsNear(mandatory, u)
  BY <1>2, <1>4, <1>8
<1>9. QED
  BY <1>5, <1>6, <1>7, <1>8

\* What the loop has taken after the first n units.
TakenUpTo(st, mandatory, units, n) ==
  /\ mandatory \subseteq st.taken /\ IsFiniteSet(st.taken)
  /\ \A s \in st.taken : s \in mandatory \/ \E k \in 1..n : s = units[k].id /\ IsNear(mandatory, units[k])
  /\ Cardinality(st.taken) <= MaxUnits
  /\ st.full => Cardinality(st.taken) >= MaxUnits
  /\ ~st.full => /\ Cardinality(st.taken) < MaxUnits
                 /\ \A k \in 1..n : IsNear(mandatory, units[k]) => units[k].id \in st.taken

\* After one unit more, all that are near are taken, or there was no room.
LEMMA VisitOne ==
  ASSUME NEW mandatory, NEW units, NEW n \in Nat \ {0}, NEW st, st.full \in BOOLEAN,
         TakenUpTo(st, mandatory, units, n - 1)
  PROVE  TakenUpTo(Visit(mandatory, st, units[n]), mandatory, units, n)
<1> DEFINE u == units[n]
           v == Visit(mandatory, st, u)
<1>0. MaxUnits \in Nat
  BY PruningAssumption
<1>1. 1..n = 1..(n - 1) \cup {n}
  OBVIOUS
<1>2. /\ mandatory \subseteq st.taken /\ IsFiniteSet(st.taken)
      /\ \A s \in st.taken : s \in mandatory \/ \E k \in 1..n : s = units[k].id /\ IsNear(mandatory, units[k])
      /\ Cardinality(st.taken) <= MaxUnits
      /\ st.full => Cardinality(st.taken) >= MaxUnits
      /\ ~st.full => /\ Cardinality(st.taken) < MaxUnits
                     /\ \A k \in 1..(n - 1) : IsNear(mandatory, units[k]) => units[k].id \in st.taken
  BY <1>1 DEF TakenUpTo
<1>3. Cardinality(st.taken) \in Nat
  BY <1>2, FS_CardinalityType
<1> HIDE DEF v
<1>4. CASE st.full
  <2>1. v = st
    BY <1>4, VisitTakes DEF v
  <2>2. TakenUpTo(v, mandatory, units, n)
    BY <1>2, <1>4, <2>1 DEF TakenUpTo
  <2>3. QED
    BY <2>2 DEF v
<1>5. CASE ~st.full /\ ~IsNear(mandatory, u)
  <2>1. \/ v = st
        \/ v.taken = st.taken /\ (v.full <=> Cardinality(st.taken) >= MaxUnits)
    BY <1>5, VisitTakes DEF v
  <2>1a. v.taken = st.taken
    BY <2>1
  <2>1b. ~(Cardinality(st.taken) >= MaxUnits)
    BY <1>0, <1>2, <1>3, <1>5
  <2>2. ~v.full
    BY <1>5, <2>1, <2>1b
  <2>3. \A k \in 1..n : IsNear(mandatory, units[k]) => units[k].id \in st.taken
    BY <1>1, <1>2, <1>5
  <2>4. TakenUpTo(v, mandatory, units, n)
    BY <1>2, <1>5, <2>1a, <2>2, <2>3 DEF TakenUpTo
  <2>5. QED
    BY <2>4 DEF v
<1>6. CASE ~st.full /\ IsNear(mandatory, u)
  <2>1. v.taken = st.taken \cup {u.id} /\ (v.full <=> Cardinality(st.taken \cup {u.id}) >= MaxUnits)
    BY <1>6, VisitTakes DEF v
  <2> DEFINE c == Cardinality(st.taken \cup {u.id})
  <2>2. IsFiniteSet(st.taken \cup {u.id}) /\ c \in Nat /\ c <= Cardinality(st.taken) + 1
    <3>1. \A T, y : IsFiniteSet(T) => /\ IsFiniteSet(T \cup {y})
                                      /\ Cardinality(T \cup {y}) = IF y \in T THEN Cardinality(T) ELSE Cardinality(T) + 1
      BY FS_AddElement
    <3>2. PICK T : T = st.taken
      OBVIOUS
    <3>3. PICK y : y = u.id
      OBVIOUS
    <3>4. IsFiniteSet(T) /\ Cardinality(T) \in Nat
      BY <1>2, <1>3, <3>2
    <3>5. IsFiniteSet(T \cup {y}) /\ (Cardinality(T \cup {y}) = Cardinality(T) \/ Cardinality(T \cup {y}) = Cardinality(T) + 1)
      BY <3>1, <3>4
    <3>6. Cardinality(T \cup {y}) \in Nat /\ Cardinality(T \cup {y}) <= Cardinality(T) + 1
      BY <3>4, <3>5
    <3>7. QED
      BY <3>2, <3>3, <3>5, <3>6
  <2>3. c <= MaxUnits
    BY <1>0, <1>2, <1>3, <1>6, <2>2
  <2>4. /\ v.full => c >= MaxUnits
        /\ ~v.full => c < MaxUnits
    <3>1. v.full <=> c >= MaxUnits
      BY <2>1
    <3>2. ~(c >= MaxUnits) => c < MaxUnits
      BY <1>0, <2>2
    <3>3. QED
      BY <3>1, <3>2
  <2>5. n \in 1..n
    OBVIOUS
  <2>6. \A s \in v.taken : s \in mandatory \/ \E k \in 1..n : s = units[k].id /\ IsNear(mandatory, units[k])
    BY <1>2, <1>6, <2>1, <2>5
  <2>7. \A k \in 1..n : IsNear(mandatory, units[k]) => units[k].id \in v.taken
    BY <1>1, <1>2, <1>6, <2>1
  <2>8. mandatory \subseteq v.taken /\ IsFiniteSet(v.taken) /\ Cardinality(v.taken) = c
    BY <1>2, <2>1, <2>2
  <2> HIDE DEF c
  <2>9. TakenUpTo(v, mandatory, units, n)
    BY <2>3, <2>4, <2>6, <2>7, <2>8 DEF TakenUpTo
  <2>10. QED
    BY <2>9 DEF v
<1>7. QED
  BY <1>4, <1>5, <1>6

\* The identifiers that may be in a context, and the states of the loop.
Within(mandatory, units) == mandatory \cup {units[k].id : k \in DOMAIN units}

\* The states of the loop over the units.
Taking(mandatory, units) == [taken : SUBSET Within(mandatory, units), full : BOOLEAN]

\* The sentences taken after the loop over all units.
Expansion(mandatory, units) ==
  FoldLeft(LAMBDA state, u : Visit(mandatory, state, u), [taken |-> mandatory, full |-> FALSE], units)

\* The loop takes units, and notes whether one found no room.
LEMMA VisitFits ==
  ASSUME NEW mandatory, NEW units, NEW state \in Taking(mandatory, units), NEW k \in DOMAIN units
  PROVE  Visit(mandatory, state, units[k]) \in Taking(mandatory, units)
<1> DEFINE ids == Within(mandatory, units)
           next(taken) == [taken |-> taken, full |-> Cardinality(taken) >= MaxUnits]
           taken == IF \E s \in mandatory : Near(units[k].id, s)
                    THEN state.taken \cup {units[k].id} ELSE state.taken
<1>1. units[k].id \in ids
  BY DEF Within
<1>2. state.taken \in SUBSET ids
  BY DEF Taking
<1>3. taken \in SUBSET ids
  BY <1>1, <1>2
<1>4. \A t \in SUBSET ids : next(t) \in Taking(mandatory, units)
  <2>1. \A t : (Cardinality(t) >= MaxUnits) \in BOOLEAN
    OBVIOUS
  <2>2. QED
    BY <2>1 DEF Taking
<1>5. Visit(mandatory, state, units[k]) = state \/ Visit(mandatory, state, units[k]) = next(taken)
  BY DEF Visit
<1> HIDE DEF next, taken
<1>6. QED
  BY <1>3, <1>4, <1>5

\* The whole loop over the units.
LEMMA VisitLoop ==
  ASSUME NEW mandatory, NEW units, IsListed(units)
  PROVE  \E m \in [0..Len(units) -> Taking(mandatory, units)] :
           /\ m[0] = [taken |-> mandatory, full |-> FALSE]
           /\ \A n \in 1..Len(units) : m[n] = Visit(mandatory, m[n - 1], units[n])
           /\ Expansion(mandatory, units) = m[Len(units)]
<1>1. PICK N \in Nat : N = Len(units) /\ DOMAIN units = 1..N
  BY LenProperties DEF IsListed
<1> DEFINE S == 1..N
           D == Taking(mandatory, units)
           start == [taken |-> mandatory, full |-> FALSE]
           pick == [s \in SUBSET S |-> Max(s)]
           step == [p \in S \X D |-> Visit(mandatory, p[2], units[p[1]])]
           loop(f) == f = [s \in SUBSET S |-> IF s = {} THEN start
                              ELSE Visit(mandatory, f[s \ {Max(s)}], units[Max(s)])]
           f == CHOOSE g : loop(g)
<1>0. start \in D
  <2>1. mandatory \in SUBSET Within(mandatory, units) /\ FALSE \in BOOLEAN
    BY DEF Within
  <2>2. \A t \in SUBSET Within(mandatory, units), b \in BOOLEAN : [taken |-> t, full |-> b] \in D
    BY DEF Taking
  <2>3. QED
    BY <2>1, <2>2
<1>2. Expansion(mandatory, units) = f[S]
  BY <1>1 DEF Expansion, FoldLeft, MapThenFoldSet
<1>3. \A s \in SUBSET S : s # {} => Max(s) \in s /\ \A x \in s : x <= Max(s)
  BY <1>1, Greatest
<1>4. \A s \in SUBSET S : pick[s] = Max(s)
  OBVIOUS
<1>5. step \in [S \X D -> D] /\ \A x \in S, y \in D : step[<<x, y>>] = Visit(mandatory, y, units[x])
  <2>1. \A p \in S \X D : p[1] \in S /\ p[2] \in D
    OBVIOUS
  <2>2. \A p \in S \X D : Visit(mandatory, p[2], units[p[1]]) \in D
    BY <1>1, <2>1, VisitFits
  <2>3. QED
    BY <2>2
<1> HIDE DEF pick, step
<1>6. Foldable(S, D, start, step, pick)
  <2>1. IsFiniteSet(S)
    BY <1>1, FS_Interval
  <2>2. Picks(pick, S)
    BY <1>3, <1>4 DEF Picks
  <2>3. start \in D
    BY <1>0
  <2>4. QED
    BY <1>5, <2>1, <2>2, <2>3 DEF Foldable
<1> HIDE DEF D
<1>7. PICK g \in [SUBSET S -> D] : IsFold(g, S, D, start, step, pick)
  BY <1>6, FoldExists
<1>8. loop(g)
  <2>1. ASSUME NEW s \in SUBSET S, s # {}
        PROVE  g[s] = Visit(mandatory, g[s \ {Max(s)}], units[Max(s)])
    <3>1. Max(s) \in S /\ Rest(pick, s) = s \ {Max(s)} /\ Rest(pick, s) \in SUBSET S
      BY <1>3, <1>4, <2>1 DEF Rest
    <3>2. g[Rest(pick, s)] \in D
      BY <3>1
    <3>3. g[s] = step[<<pick[s], g[Rest(pick, s)]>>]
      BY <1>7, <2>1, <3>2 DEF IsFold
    <3>4. step[<<Max(s), g[Rest(pick, s)]>>] = Visit(mandatory, g[Rest(pick, s)], units[Max(s)])
      BY <1>5, <3>1, <3>2
    <3>5. QED
      BY <1>4, <3>1, <3>3, <3>4
  <2>2. QED
    BY <1>7, <2>1 DEF IsFold
<1>9. loop(f)
  <2> HIDE DEF loop
  <2>1. QED
    BY <1>8
<1> HIDE DEF f
<1>10. f[{}] = start /\ \A s \in SUBSET S : s # {} => f[s] = Visit(mandatory, f[s \ {Max(s)}], units[Max(s)])
  BY <1>9
<1>11. \A s \in SUBSET S : f[s] \in D
  <2>1. ASSUME NEW s \in SUBSET S, s # {}, f[Rest(pick, s)] \in D
        PROVE  f[s] = step[<<pick[s], f[Rest(pick, s)]>>]
    <3>1. Max(s) \in S /\ Rest(pick, s) = s \ {Max(s)}
      BY <1>3, <1>4, <2>1 DEF Rest
    <3>2. f[s] = Visit(mandatory, f[Rest(pick, s)], units[Max(s)])
      BY <1>10, <2>1, <3>1
    <3>3. QED
      BY <1>4, <1>5, <2>1, <3>1, <3>2
  <2>2. IsFold(f, S, D, start, step, pick)
    BY <1>10, <2>1 DEF IsFold
  <2>3. QED
    BY <1>6, <2>2, FoldTyped
<1> DEFINE m == [n \in 0..N |-> f[1..n]]
<1>12. \A n \in 0..N : 1..n \in SUBSET S
  BY <1>1
<1>13. m \in [0..N -> D]
  BY <1>11, <1>12
<1>14. m[0] = start
  <2>1. 1..0 = {} /\ 0 \in 0..N
    BY <1>1
  <2>2. QED
    BY <1>10, <2>1
<1>15. ASSUME NEW n \in 1..N
       PROVE  m[n] = Visit(mandatory, m[n - 1], units[n])
  <2>1. n \in 0..N /\ n - 1 \in 0..N /\ n \in 1..n
    BY <1>1
  <2> HIDE DEF S
  <2>2. 1..n \in SUBSET S /\ 1..n # {}
    BY <1>12, <2>1
  <2>3. Max(1..n) \in 1..n /\ n <= Max(1..n)
    BY <1>3, <2>1, <2>2
  <2>4. Max(1..n) = n
    BY <2>1, <2>3
  <2>5. (1..n) \ {n} = 1..(n - 1)
    BY <2>1
  <2>6. f[1..n] = Visit(mandatory, f[1..(n - 1)], units[n])
    BY <1>10, <2>2, <2>4, <2>5
  <2>7. m[n] = f[1..n] /\ m[n - 1] = f[1..(n - 1)]
    BY <2>1
  <2>8. QED
    BY <2>6, <2>7
<1>16. m[N] = f[S]
  BY <1>1
<1> HIDE DEF m
<1>17. QED
  BY <1>1, <1>2, <1>13, <1>14, <1>15, <1>16 DEF D

\* What the expanded context has: the selected units, and units near them; all of those
\* if there is room.
Expands(taken, mandatory, units) ==
  /\ mandatory \subseteq taken /\ IsFiniteSet(taken) /\ Cardinality(taken) <= MaxUnits
  /\ \A s \in taken : s \in mandatory \/ \E k \in DOMAIN units : s = units[k].id /\ IsNear(mandatory, units[k])
  /\ Cardinality(taken) < MaxUnits =>
       \A k \in DOMAIN units : IsNear(mandatory, units[k]) => units[k].id \in taken

\* _expand_bridge_context: what is taken besides the selected sentences.
LEMMA ExpansionFits ==
  ASSUME NEW mandatory, IsFiniteSet(mandatory), Cardinality(mandatory) < MaxUnits,
         NEW units, IsListed(units)
  PROVE  Expands(Expansion(mandatory, units).taken, mandatory, units)
<1>1. PICK N \in Nat : N = Len(units) /\ DOMAIN units = 1..N
  BY LenProperties DEF IsListed
<1>2. PICK m \in [0..N -> Taking(mandatory, units)] :
        /\ m[0] = [taken |-> mandatory, full |-> FALSE]
        /\ \A n \in 1..N : m[n] = Visit(mandatory, m[n - 1], units[n])
        /\ Expansion(mandatory, units) = m[N]
  BY <1>1, VisitLoop
<1> DEFINE bad == {n \in 0..N : ~TakenUpTo(m[n], mandatory, units, n)}
<1>0. MaxUnits \in Nat /\ Cardinality(mandatory) \in Nat
  BY PruningAssumption, FS_CardinalityType
<1>3. TakenUpTo(m[0], mandatory, units, 0)
  <2>1. 1..0 = {}
    OBVIOUS
  <2>2. m[0].taken = mandatory /\ ~m[0].full
    BY <1>2
  <2>3. QED
    BY <1>0, <2>1, <2>2 DEF TakenUpTo
<1>4. ASSUME NEW n \in 1..N, TakenUpTo(m[n - 1], mandatory, units, n - 1)
      PROVE  TakenUpTo(m[n], mandatory, units, n)
  <2>1. n \in Nat \ {0} /\ n - 1 \in 0..N
    BY <1>1
  <2>2. m[n - 1].full \in BOOLEAN
    BY <1>2, <2>1 DEF Taking
  <2>3. QED
    BY <1>2, <1>4, <2>1, <2>2, VisitOne
<1>5. ASSUME bad # {}
      PROVE  FALSE
  <2>1. bad \in SUBSET Nat
    OBVIOUS
  <2>2. PICK n \in bad : \A k \in bad : n <= k
    <3> HIDE DEF bad
    <3>1. QED
      BY <1>5, <2>1, LeastNat
  <2>3. n \in 0..N /\ ~TakenUpTo(m[n], mandatory, units, n) /\ n # 0
    BY <1>3, <2>2
  <2>4. n \in 1..N /\ n - 1 \in 0..N /\ n - 1 \notin bad
    <3>1. ~(n <= n - 1)
      BY <2>3
    <3> HIDE DEF bad
    <3>2. QED
      BY <2>2, <2>3, <3>1
  <2>5. QED
    BY <1>4, <2>3, <2>4
<1>6. TakenUpTo(m[N], mandatory, units, N)
  BY <1>1, <1>5
<1>7. Cardinality(m[N].taken) \in Nat
  BY <1>6, FS_CardinalityType DEF TakenUpTo
<1>8. Cardinality(m[N].taken) < MaxUnits => ~m[N].full
  BY <1>0, <1>6, <1>7 DEF TakenUpTo
<1>9. Expands(m[N].taken, mandatory, units)
  BY <1>1, <1>6, <1>8 DEF TakenUpTo, Expands
<1>10. QED
  BY <1>2, <1>9

\* The units of a context in the order of _unit_sort_key.
UnitOrder(S) == {k \in S \X S : UnitBefore(k[1], k[2])}

\* _unit_sort_key: a strict total order of the units.
LEMMA UnitsOrdered ==
  ASSUME NEW U, NEW chunks, UnitsFit(U, chunks), NEW S \in SUBSET U
  PROVE  Orders(UnitOrder(S), S)
<1> DEFINE R == UnitOrder(S)
<1>1. \A u \in S : u.rank \in Nat /\ u.id[2] \in Nat
  BY UnitHas
<1>2. \A u, v \in S : <<u, v>> \in R <=> u.rank < v.rank \/ (u.rank = v.rank /\ u.id[2] < v.id[2])
  BY DEF UnitOrder, UnitBefore
<1>3. \A u, v \in S : u.rank = v.rank /\ u.id[2] = v.id[2] => u = v
  <2>1. TAKE u, v \in S
  <2>2. HAVE u.rank = v.rank /\ u.id[2] = v.id[2]
  <2>3. PICK r \in DOMAIN chunks : \E s \in DOMAIN Sentences(chunks[r]) : IsUnit(u, chunks[r], s, r)
    BY DEF UnitsFit
  <2>4. PICK q \in DOMAIN chunks : \E s \in DOMAIN Sentences(chunks[q]) : IsUnit(v, chunks[q], s, q)
    BY DEF UnitsFit
  <2>5. r = u.rank /\ q = v.rank /\ u.id = <<chunks[r], u.id[2]>> /\ v.id = <<chunks[q], v.id[2]>>
    BY <2>3, <2>4 DEF IsUnit
  <2>6. u.id = v.id
    BY <2>2, <2>5
  <2>7. QED
    BY <2>6 DEF UnitsFit
<1> HIDE DEF R
<1>4. ASSUME NEW u \in S
      PROVE  <<u, u>> \notin R
  BY <1>1, <1>2
<1>5. ASSUME NEW u \in S, NEW v \in S, NEW w \in S, <<u, v>> \in R, <<v, w>> \in R
      PROVE  <<u, w>> \in R
  <2>1. /\ u.rank \in Nat /\ v.rank \in Nat /\ w.rank \in Nat
        /\ u.id[2] \in Nat /\ v.id[2] \in Nat /\ w.id[2] \in Nat
    BY <1>1
  <2>2. /\ u.rank < v.rank \/ (u.rank = v.rank /\ u.id[2] < v.id[2])
        /\ v.rank < w.rank \/ (v.rank = w.rank /\ v.id[2] < w.id[2])
    BY <1>2, <1>5
  <2>3. u.rank < w.rank \/ (u.rank = w.rank /\ u.id[2] < w.id[2])
    BY <2>1, <2>2
  <2>4. QED
    BY <1>2, <2>3
<1>6. ASSUME NEW u \in S, NEW v \in S, u # v
      PROVE  <<u, v>> \in R \/ <<v, u>> \in R
  <2>1. u.rank \in Nat /\ v.rank \in Nat /\ u.id[2] \in Nat /\ v.id[2] \in Nat
    BY <1>1
  <2>2. u.rank # v.rank \/ u.id[2] # v.id[2]
    BY <1>3, <1>6
  <2>3. \/ u.rank < v.rank \/ (u.rank = v.rank /\ u.id[2] < v.id[2])
        \/ v.rank < u.rank \/ (v.rank = u.rank /\ v.id[2] < u.id[2])
    BY <2>1, <2>2
  <2>4. QED
    BY <1>2, <2>3
<1>7. QED
  BY <1>4, <1>5, <1>6 DEF Orders, R

\* The IDs of units, in the order of the units.
InPlace(sentences, U, ids) ==
  /\ DOMAIN sentences = 1..Len(sentences) /\ Len(sentences) \in Nat
  /\ Len(sentences) <= Cardinality(ids) /\ ToSet(sentences) = ids
  /\ ids = {} => sentences = <<>>
  /\ \A k, l \in DOMAIN sentences : k < l =>
       \E u, v \in U : sentences[k] = u.id /\ sentences[l] = v.id /\ UnitBefore(u, v)

\* The sentences ids in the order of their units.
SortedIds(U, ids) ==
  LET sorted == InOrder({u \in U : u.id \in ids}, UnitBefore)
  IN [i \in DOMAIN sorted |-> sorted[i].id]

\* The kept sentences in the order of their units.
LEMMA IdsInPlace ==
  ASSUME NEW U, NEW chunks, UnitsFit(U, chunks), NEW ids, IsFiniteSet(ids),
         \A s \in ids : \E u \in U : s = u.id
  PROVE  InPlace(SortedIds(U, ids), U, ids)
<1> DEFINE S == {u \in U : u.id \in ids}
           places == {<<Cardinality({y \in S : UnitBefore(y, u)}), u>> : u \in S}
           sorted == [i \in 1..Cardinality(S) |-> (CHOOSE p \in places : p[1] = i - 1)[2]]
           sentences == [i \in DOMAIN sorted |-> sorted[i].id]
<1>1. SortedIds(U, ids) = sentences
  BY DEF SortedIds, InOrder
<1>2. places = {<<Cardinality(Under(UnitOrder(S), S, u)), u>> : u \in S}
  <2> HIDE DEF S
  <2>1. \A u \in S : {y \in S : UnitBefore(y, u)} = Under(UnitOrder(S), S, u)
    BY DEF Under, UnitOrder
  <2>2. QED
    BY <2>1
<1> HIDE DEF places
<1>3. PICK seq : seq = sorted /\ Listing(seq, places, S, UnitOrder(S))
  BY <1>2 DEF Listing
<1>4. S \in SUBSET U /\ IsFiniteSet(S)
  <2>1. S \in SUBSET U
    OBVIOUS
  <2>2. QED
    BY <2>1, FS_Subset DEF UnitsFit
<1>5. /\ \A s \in ids : \E u \in S : s = u.id
      /\ \A u \in S : u.id \in ids
      /\ \A u, v \in S : u.id = v.id => u = v
  BY DEF UnitsFit
<1>6. sentences = [i \in DOMAIN seq |-> seq[i].id]
  BY <1>3
<1> HIDE DEF S, sorted, sentences
<1>7. Orders(UnitOrder(S), S)
  BY <1>4, UnitsOrdered
<1>8. PICK n \in Nat : n = Cardinality(S)
  BY <1>4, FS_CardinalityType
<1>9. /\ seq \in Seq(S) /\ Len(seq) = n
      /\ \A i, j \in 1..n : i < j <=> <<seq[i], seq[j]>> \in UnitOrder(S)
      /\ \A u \in S : \E i \in 1..n : seq[i] = u
  BY <1>3, <1>4, <1>7, <1>8, Listed
<1>10. DOMAIN seq = 1..n /\ \A i \in 1..n : seq[i] \in S
  BY <1>9, LenProperties
<1>11. /\ DOMAIN sentences = 1..n /\ Len(sentences) = n
       /\ \A i \in 1..n : sentences[i] = seq[i].id
  <2>1. sentences = [i \in 1..n |-> seq[i].id]
    BY <1>6, <1>10
  <2>2. \A i \in 1..n : seq[i].id \in ids
    BY <1>5, <1>10
  <2>3. sentences \in [1..n -> ids]
    BY <2>1, <2>2
  <2>4. Len(sentences) = n
    BY <2>3, LenProperties
  <2>5. QED
    BY <2>1, <2>4
<1>12. n <= Cardinality(ids)
  <2> DEFINE f == [u \in S |-> u.id]
  <2>1. f \in [S -> ids] /\ \A u, v \in S : f[u] = f[v] => u = v
    BY <1>5
  <2> HIDE DEF f
  <2>2. f \in Injection(S, ids)
    BY <2>1 DEF Injection, IsInjective
  <2>3. QED
    BY <1>8, <2>2, FS_Injection
<1>13. ToSet(sentences) = ids
  <2>1. \A i \in 1..n : sentences[i] \in ids
    BY <1>5, <1>10, <1>11
  <2>2. \A s \in ids : \E i \in 1..n : sentences[i] = s
    BY <1>5, <1>9, <1>11
  <2>3. QED
    BY <1>11, <2>1, <2>2 DEF ToSet
<1>14. ids = {} => sentences = <<>>
  <2>1. HAVE ids = {}
  <2>2. n = 0
    BY <1>12, <2>1, FS_EmptySet
  <2>3. DOMAIN sentences = {}
    BY <1>11, <2>2
  <2>4. sentences = [i \in DOMAIN seq |-> seq[i].id] /\ DOMAIN seq = {}
    BY <1>6, <1>10, <2>2
  <2>5. QED
    BY <2>4
<1>15. ASSUME NEW k \in 1..n, NEW l \in 1..n, k < l
       PROVE  \E u, v \in U : sentences[k] = u.id /\ sentences[l] = v.id /\ UnitBefore(u, v)
  <2>1. seq[k] \in U /\ seq[l] \in U /\ <<seq[k], seq[l]>> \in UnitOrder(S)
    BY <1>4, <1>9, <1>10, <1>15
  <2>2. UnitBefore(seq[k], seq[l])
    BY <2>1 DEF UnitOrder
  <2>3. QED
    BY <1>11, <2>1, <2>2
<1>16. InPlace(sentences, U, ids)
  BY <1>8, <1>11, <1>12, <1>13, <1>14, <1>15 DEF InPlace
<1>17. QED
  BY <1>1, <1>16

\* A pair is a small set.
LEMMA PairSmall ==
  ASSUME NEW x, NEW y
  PROVE  IsFiniteSet({x, y}) /\ Cardinality({x, y}) \in Nat /\ Cardinality({x, y}) <= 2
<1>1. IsFiniteSet({x}) /\ Cardinality({x}) = 1
  BY FS_Singleton
<1>2. IsFiniteSet({x} \cup {y}) /\ (Cardinality({x} \cup {y}) = 1 \/ Cardinality({x} \cup {y}) = 2)
  <2>1. \A T, z : IsFiniteSet(T) => /\ IsFiniteSet(T \cup {z})
                                    /\ Cardinality(T \cup {z}) = IF z \in T THEN Cardinality(T) ELSE Cardinality(T) + 1
    BY FS_AddElement
  <2>2. QED
    BY <1>1, <2>1
<1>3. {x} \cup {y} = {x, y}
  OBVIOUS
<1>4. QED
  BY <1>2, <1>3

\* A decision selects units: few if the evidence suffices.
LEMMA SelectedUnits ==
  ASSUME NEW units, NEW chunks, NEW a, NEW g, NEW paths, SearchFits(units, chunks, a, g, paths),
         NEW d, d = Decide(g, a, paths)
  PROVE  /\ \A s \in d.selected : \E u \in ToSet(units) : s = u.id
         /\ IsFiniteSet(d.selected)
         /\ d.sufficient => Cardinality(d.selected) < MaxUnits
<1>1. Decides(d, g, a, paths)
  BY SearchGives, DecideGives DEF Finds
<1>2. \A i \in DOMAIN paths : \E u, v \in ToSet(units) : ToSet(paths[i].sentences) = {u.id, v.id}
  <2>1. TAKE i \in DOMAIN paths
  <2>2. Told(paths[i], KindSought(a), ToSet(units), a)
    BY SearchGives
  <2>3. QED
    BY <2>2 DEF Told, Ends
<1>3. \A s \in d.selected : \E i \in DOMAIN paths : s \in ToSet(paths[i].sentences)
  <2>1. CASE d.sufficient
    BY <1>1, <2>1 DEF Decides
  <2>2. CASE ~d.sufficient
    BY <1>1, <2>2 DEF Decides
  <2>3. QED
    BY <2>1, <2>2
<1>4. \A s \in d.selected : \E u \in ToSet(units) : s = u.id
  <2>1. TAKE s \in d.selected
  <2>2. PICK i \in DOMAIN paths : s \in ToSet(paths[i].sentences)
    BY <1>3
  <2>3. PICK u, v \in ToSet(units) : ToSet(paths[i].sentences) = {u.id, v.id}
    BY <1>2
  <2>4. QED
    BY <2>2, <2>3
<1>5. IsFiniteSet(d.selected)
  <2>1. IsFiniteSet(ToSet(units))
    BY SearchGives DEF UnitsFit
  <2>2. PICK idOf : idOf = [u \in ToSet(units) |-> u.id]
    OBVIOUS
  <2>3. IsFiniteSet({idOf[u] : u \in ToSet(units)})
    BY <2>1, ImageFinite
  <2>4. d.selected \in SUBSET {idOf[u] : u \in ToSet(units)}
    BY <1>4, <2>2
  <2>5. QED
    BY <2>3, <2>4, FS_Subset
<1>6. ASSUME d.sufficient
      PROVE  Cardinality(d.selected) < MaxUnits
  <2>1. PICK i \in DOMAIN paths : d.selected = ToSet(paths[i].sentences)
    BY <1>1, <1>6 DEF Decides
  <2>2. PICK u, v \in ToSet(units) : ToSet(paths[i].sentences) = {u.id, v.id}
    BY <1>2
  <2>3. Cardinality(d.selected) \in Nat /\ Cardinality(d.selected) <= 2
    BY <2>1, <2>2, PairSmall
  <2>4. QED
    BY <2>3, PruningAssumption
<1>7. QED
  BY <1>4, <1>5, <1>6

\* What Prune keeps: the selected IDs, and in a sufficient bridge those of units near them.
PrunesTo(kept, ids, selected, expands, units) ==
  /\ InPlace(kept.sentences, ToSet(units), ids) /\ PrunedValid(kept)
  /\ expands => Expands(ids, selected, units)
  /\ ~expands => ids = selected

\* Component 08: the selected sentences, for a sufficient bridge their neighbours too.
LEMMA Prunes ==
  ASSUME NEW units, NEW chunks, NEW a, NEW g, NEW paths, SearchFits(units, chunks, a, g, paths),
         NEW d, d = Decide(g, a, paths)
  PROVE  \E ids : PrunesTo(Prune(d, units), ids, d.selected, d.sufficient /\ a.type = "bridge", units)
<1>1. /\ \A s \in d.selected : \E u \in ToSet(units) : s = u.id
      /\ IsFiniteSet(d.selected)
      /\ d.sufficient => Cardinality(d.selected) < MaxUnits
  BY SelectedUnits
<1>2. UnitsFit(ToSet(units), chunks) /\ d.type = a.type
  BY SearchGives, DecideGives DEF Finds, Decides
<1>3. IsListed(units)
  BY DEF SearchFits, PassFits, ScoredOf
<1>4. d.selected \cap {u.id : u \in ToSet(units)} = d.selected
  BY <1>1
<1> DEFINE expands == d.sufficient /\ a.type = "bridge"
<1>5. PICK ids : ids = Expanded(d, d.selected, units)
  OBVIOUS
<1>6. /\ expands => ids = Expansion(d.selected, units).taken
      /\ ~expands => ids = d.selected
  BY <1>2, <1>5 DEF Expanded, Expansion
<1>7. expands => Expands(ids, d.selected, units)
  BY <1>1, <1>3, <1>6, ExpansionFits
<1>8. IsFiniteSet(ids) /\ \A s \in ids : \E u \in ToSet(units) : s = u.id
  <2>1. CASE expands
    <3>1. \A k \in DOMAIN units : units[k] \in ToSet(units)
      BY DEF ToSet
    <3>2. QED
      BY <1>1, <1>7, <2>1, <3>1 DEF Expands
  <2>2. CASE ~expands
    BY <1>1, <1>6, <2>2
  <2>3. QED
    BY <2>1, <2>2
<1>9. PICK kept : kept = Prune(d, units)
  OBVIOUS
<1>10. kept.sentences = SortedIds(ToSet(units), ids) /\ kept.strategy = Strategy(d, ids)
  BY <1>4, <1>5, <1>9 DEF Prune, SortedIds
<1>11. InPlace(kept.sentences, ToSet(units), ids)
  BY <1>2, <1>8, <1>10, IdsInPlace
<1>12. PrunedValid(kept)
  <2>1. kept.strategy = "empty_evidence" => ids = {}
    BY <1>10 DEF Strategy
  <2>2. ids = {} => kept.sentences = <<>>
    BY <1>11 DEF InPlace
  <2>3. QED
    BY <2>1, <2>2 DEF PrunedValid
<1>13. PrunesTo(kept, ids, d.selected, expands, units)
  BY <1>6, <1>7, <1>11, <1>12 DEF PrunesTo
<1>14. QED
  BY <1>9, <1>13

\* The sentences next to the selected ones.
Neighbours(selected) ==
  {s \in UNION {{<<c, n>> : n \in DOMAIN Sentences(c)} : c \in Chunk} : \E t \in selected : Near(s, t)}

\* Sentences in the order of their paragraphs, and of the text.
ByPlace(chunks, s, t) ==
  \/ Place(chunks, s[1]) < Place(chunks, t[1])
  \/ s[1] = t[1] /\ s[2] < t[2]

\* What ContextKeepsEvidence says of one pass.
ContextKept(pass, a) ==
  /\ pass.selected \subseteq ToSet(pass.context.sentences)
  /\ ToSet(pass.context.sentences) # pass.selected =>
       pass.sufficient /\ a.type = "bridge" /\ Len(pass.context.sentences) <= MaxUnits
  /\ ToSet(pass.context.sentences) \subseteq Neighbours(pass.selected)
  /\ pass.sufficient /\ a.type = "bridge" /\ Cardinality(ToSet(pass.context.sentences)) < MaxUnits =>
       ToSet(pass.context.sentences) = Neighbours(pass.selected)
  /\ \A k, l \in DOMAIN pass.context.sentences : k < l =>
       ByPlace(pass.chunks, pass.context.sentences[k], pass.context.sentences[l])

\* A unit before another is in an earlier paragraph, or earlier in the same one.
LEMMA BeforeByPlace ==
  ASSUME NEW U, NEW chunks, UnitsFit(U, chunks), Distinct(chunks), NEW u \in U, NEW v \in U,
         UnitBefore(u, v)
  PROVE  ByPlace(chunks, u.id, v.id)
<1>1. ASSUME NEW w \in U
      PROVE  Place(chunks, w.id[1]) = w.rank /\ w.rank \in DOMAIN chunks /\ chunks[w.rank] = w.id[1]
  <2>1. PICK r \in DOMAIN chunks : \E s \in DOMAIN Sentences(chunks[r]) : IsUnit(w, chunks[r], s, r)
    BY DEF UnitsFit
  <2>2. chunks[r] = w.id[1] /\ w.rank = r
    BY <2>1 DEF IsUnit
  <2>3. \A i \in DOMAIN chunks : chunks[i] = w.id[1] => i = r
    BY <2>1, <2>2 DEF Distinct
  <2>4. PICK c : c = w.id[1]
    OBVIOUS
  <2>5. Place(chunks, c) = r
    BY <2>1, <2>2, <2>3, <2>4 DEF Place
  <2>6. QED
    BY <2>1, <2>2, <2>4, <2>5
<1>2. CASE u.rank < v.rank
  <2>1. Place(chunks, u.id[1]) < Place(chunks, v.id[1])
    BY <1>1, <1>2
  <2>2. QED
    BY <2>1 DEF ByPlace
<1>3. CASE u.rank = v.rank /\ u.id[2] < v.id[2]
  <2>1. u.id[1] = v.id[1]
    BY <1>1, <1>3
  <2>2. QED
    BY <1>3, <2>1 DEF ByPlace
<1>4. QED
  BY <1>2, <1>3 DEF UnitBefore

\* The ID of a unit is a sentence, near itself.
LEMMA UnitSentence ==
  ASSUME NEW U, NEW chunks, UnitsFit(U, chunks), NEW u \in U
  PROVE  /\ u.id \in UNION {{<<c, n>> : n \in DOMAIN Sentences(c)} : c \in Chunk}
         /\ Near(u.id, u.id)
<1>1. PICK c \in Chunk, n \in Nat : u.id = <<c, n>> /\ u.id[1] = c /\ u.id[2] = n /\ n \in DOMAIN Sentences(c)
  BY UnitHas
<1>2. u.id \in {<<c, k>> : k \in DOMAIN Sentences(c)}
  BY <1>1
<1>3. Near(u.id, u.id)
  BY <1>1 DEF Near
<1>4. QED
  BY <1>2, <1>3

\* A sentence next to one of a unit is that of a unit.
LEMMA NeighbourUnit ==
  ASSUME NEW units, NEW chunks, ScoredOf(units, chunks), UnitsFit(ToSet(units), chunks),
         NEW u \in ToSet(units), NEW c \in Chunk, NEW n \in DOMAIN Sentences(c), Near(<<c, n>>, u.id)
  PROVE  \E k \in DOMAIN units : units[k].id = <<c, n>>
<1>1. c = u.id[1]
  BY DEF Near
<1>2. PICK r \in DOMAIN chunks : \E s \in DOMAIN Sentences(chunks[r]) : IsUnit(u, chunks[r], s, r)
  BY DEF UnitsFit
<1>3. chunks[r] = c
  BY <1>1, <1>2 DEF IsUnit
<1>4. PICK k \in DOMAIN units : IsUnit(units[k], chunks[r], n, r)
  BY <1>3 DEF ScoredOf
<1>5. QED
  BY <1>3, <1>4 DEF IsUnit

\* The context that a pass prunes keeps the evidence that it selected.
LEMMA PrunedKeeps ==
  ASSUME NEW units, NEW chunks, NEW a, NEW g, NEW paths, SearchFits(units, chunks, a, g, paths),
         NEW d, d = Decide(g, a, paths),
         NEW pass, pass.chunks = chunks, pass.sufficient = d.sufficient, pass.selected = d.selected,
         pass.context = Prune(d, units)
  PROVE  ContextKept(pass, a) /\ PrunedValid(pass.context)
<1> DEFINE U == ToSet(units)
           expands == d.sufficient /\ a.type = "bridge"
<1>1. PICK ids : PrunesTo(pass.context, ids, d.selected, expands, units)
  BY Prunes
<1>2. PICK sentences : sentences = pass.context.sentences
  OBVIOUS
<1>3. /\ InPlace(sentences, U, ids) /\ PrunedValid(pass.context)
      /\ expands => Expands(ids, d.selected, units)
      /\ ~expands => ids = d.selected
  BY <1>1, <1>2 DEF PrunesTo
<1>4. UnitsFit(U, chunks) /\ Distinct(chunks) /\ ScoredOf(units, chunks)
  BY SearchGives DEF SearchFits, PassFits
<1>5. ToSet(sentences) = ids
  BY <1>3 DEF InPlace
<1>6. \A s \in d.selected : \E u \in U : s = u.id
  BY SelectedUnits
<1>7. \A k \in DOMAIN units : units[k] \in U
  BY DEF ToSet
<1> HIDE DEF U
<1>8. d.selected \subseteq ids
  BY <1>3 DEF Expands
<1>9. ids # d.selected => expands /\ Len(sentences) <= MaxUnits
  <2>1. HAVE ids # d.selected
  <2>2. expands /\ Expands(ids, d.selected, units)
    BY <1>3, <2>1
  <2>3. /\ Cardinality(ids) <= MaxUnits /\ Cardinality(ids) \in Nat
        /\ Len(sentences) <= Cardinality(ids) /\ Len(sentences) \in Nat
    BY <1>3, <2>2, FS_CardinalityType DEF Expands, InPlace
  <2>4. QED
    BY <2>2, <2>3, PruningAssumption
<1>10. \A s \in ids : s \in Neighbours(d.selected)
  <2>1. TAKE s \in ids
  <2>2. CASE s \in d.selected
    <3>1. PICK u \in U : s = u.id
      BY <1>6, <2>2
    <3>2. QED
      BY <1>4, <2>2, <3>1, UnitSentence DEF Neighbours
  <2>3. CASE s \notin d.selected
    <3>1. PICK k \in DOMAIN units : s = units[k].id /\ IsNear(d.selected, units[k])
      BY <1>3, <2>1, <2>3 DEF Expands
    <3>2. s \in UNION {{<<c, n>> : n \in DOMAIN Sentences(c)} : c \in Chunk}
      BY <1>4, <1>7, <3>1, UnitSentence
    <3>3. QED
      BY <3>1, <3>2 DEF Neighbours, IsNear
  <2>4. QED
    BY <2>2, <2>3
<1>11. ASSUME expands, Cardinality(ids) < MaxUnits, NEW s \in Neighbours(d.selected)
       PROVE  s \in ids
  <2>1. PICK t \in d.selected : Near(s, t)
    BY <1>11 DEF Neighbours
  <2>2. PICK c \in Chunk : \E n \in DOMAIN Sentences(c) : s = <<c, n>>
    BY <1>11 DEF Neighbours
  <2>3. PICK n \in DOMAIN Sentences(c) : s = <<c, n>>
    BY <2>2
  <2>4. PICK u \in U : t = u.id
    BY <1>6, <2>1
  <2>5. PICK k \in DOMAIN units : units[k].id = <<c, n>>
    BY <1>4, <2>1, <2>3, <2>4, NeighbourUnit DEF U
  <2>6. IsNear(d.selected, units[k])
    BY <2>1, <2>3, <2>5 DEF IsNear
  <2>7. units[k].id \in ids
    BY <1>3, <1>11, <2>6 DEF Expands
  <2>8. QED
    BY <2>3, <2>5, <2>7
<1>12. ASSUME NEW k \in DOMAIN sentences, NEW l \in DOMAIN sentences, k < l
       PROVE  ByPlace(chunks, sentences[k], sentences[l])
  <2>1. PICK u, v \in U : sentences[k] = u.id /\ sentences[l] = v.id /\ UnitBefore(u, v)
    BY <1>3, <1>12 DEF InPlace
  <2>2. QED
    BY <1>4, <2>1, BeforeByPlace
<1>13. ContextKept(pass, a)
  BY <1>2, <1>5, <1>8, <1>9, <1>10, <1>11, <1>12 DEF ContextKept
<1>14. QED
  BY <1>3, <1>13
-----------------------------------------------------------------------------
(* A finished pass *)

\* What PathsAreGrounded says of a path p between the sentences s and t.
PathGrounded(p, s, t, chunks, a) ==
  /\ \A x \in {s, t} : x[1] \in ToSet(chunks) /\ x[2] \in DOMAIN Sentences(x[1])
  /\ p.chain[1] \in Mentioned(s) \cup Resolved(s)
  /\ p.relations \subseteq Stated({s, t})
  /\ Last(p.chain) \in Mentioned(t) \ {p.chain[1]}
  /\ p.kind \in {"bridge", "factoid"} => p.answer \notin ToSet(a.seeds)
  /\ p.kind = "bridge" => s # t /\ p.bridge \in Mentioned(s) \cap Mentioned(t)

\* The paths of a search are grounded in the paragraphs.
LEMMA PathsGrounded ==
  ASSUME NEW units, NEW chunks, NEW a, NEW g, NEW paths, SearchFits(units, chunks, a, g, paths)
  PROVE  /\ \A i, j \in DOMAIN paths : i < j => paths[i].score >= paths[j].score
         /\ \A p \in ToSet(paths) : PathGrounded(p, p.sentences[1], Last(p.sentences), chunks, a)
<1>1. \A i, j \in DOMAIN paths : i < j => paths[i].score >= paths[j].score
  BY SearchGives DEF Finds
<1>2. ASSUME NEW p \in ToSet(paths)
      PROVE  PathGrounded(p, p.sentences[1], Last(p.sentences), chunks, a)
  <2>1. PICK i \in DOMAIN paths : p = paths[i]
    BY DEF ToSet
  <2>2. Told(p, KindSought(a), ToSet(units), a)
    BY <2>1, SearchGives
  <2>3. PICK u, v \in ToSet(units) : Ends(p, u, v) /\ Tells(p, KindSought(a), a, u, v)
    BY <2>2 DEF Told
  <2>4. UnitsFit(ToSet(units), chunks)
    BY SearchGives
  <2>5. /\ u.id[1] \in ToSet(chunks) /\ u.id[2] \in DOMAIN Sentences(u.id[1])
        /\ v.id[1] \in ToSet(chunks) /\ v.id[2] \in DOMAIN Sentences(v.id[1])
        /\ u.entities = Mentioned(u.id) /\ u.names = Resolved(u.id) /\ v.entities = Mentioned(v.id)
    BY <2>4, UnitHas
  <2>6. Stated({u.id, v.id}) = u.relations \cup v.relations
    BY <2>4, StatedBy
  <2>7. p.sentences[1] = u.id /\ Last(p.sentences) = v.id
    BY <2>3 DEF Ends
  <2>8. PICK s, t : s = u.id /\ t = v.id
    OBVIOUS
  <2>9. /\ p.kind = KindSought(a) /\ p.relations = u.relations \cup v.relations
        /\ p.chain[1] \in u.entities \cup u.names
        /\ Last(p.chain) \in v.entities /\ Last(p.chain) # p.chain[1]
        /\ KindSought(a) \in {"bridge", "factoid"} => p.answer \notin ToSet(a.seeds)
        /\ KindSought(a) = "bridge" => u.id # v.id /\ p.bridge \in u.entities \cap v.entities
    BY <2>3 DEF Tells
  <2>10. PathGrounded(p, s, t, chunks, a)
    BY <2>5, <2>6, <2>8, <2>9 DEF PathGrounded
  <2>11. QED
    BY <2>7, <2>8, <2>10
<1>3. QED
  BY <1>1, <1>2

\* What the components 01 to 04 give of a question and of retrieved paragraphs.
LEMMA AnalyzedFits ==
  ASSUME run \in Runs, NEW chunks \in Seq(Chunk), Distinct(chunks)
  PROVE  PassFits(Scored(Extract(chunks), A), chunks, A)
<1>1. /\ run.question \in AnyQuestion /\ IsFiniteSet(run.question.text.tokens)
      /\ \A i, j \in DOMAIN run.question.seeds :
           run.question.seeds[i] = run.question.seeds[j] => i = j
  BY EvidenceAssumption
<1>2. AnalysisFits(A)
  BY <1>1, AnalysisOfQuestion DEF A
<1>3. ScoredOf(Scored(Extract(chunks), A), chunks)
  BY <1>2, ScoredUnits
<1>4. QED
  BY <1>2, <1>3 DEF PassFits

\* EPSAPassResult never refuses its chunks and units.
LEMMA PassIsValid ==
  ASSUME NEW units, NEW chunks, NEW a, PassFits(units, chunks, a)
  PROVE  PassValid(chunks, units)
<1>1. UnitsFit(ToSet(units), chunks) /\ Distinct(chunks)
  BY ScoredUnitsFit DEF PassFits
<1>2. \A i \in DOMAIN units : units[i] \in ToSet(units)
  BY DEF ToSet
<1>3. \A i \in DOMAIN units : units[i].id[1] \in ToSet(chunks)
  BY <1>1, <1>2, UnitHas
<1>4. QED
  BY <1>1, <1>3 DEF PassValid, Distinct

\* A pass under way works on different chunks: those of the first retrieval, or of the merge.
LEMMA InputFits ==
  ASSUME RunInv, phase \in Working
  PROVE  PassInput \in Seq(Chunk) /\ Distinct(PassInput)
<1>1. /\ OneOrTwo(hops)
      /\ (passes = <<>> \/ (passes # <<>> /\ merged = Merge(hops)))
  <2>1. FirstPass \/ SecondPass
    BY DEF RunInv, AtWork
  <2>2. hops # <<>> /\ (passes # <<>> => merged = Merge(hops))
    BY <2>1 DEF FirstPass, SecondPass
  <2>3. QED
    BY <2>2 DEF RunInv, HopsMade
<1>2. CASE passes = <<>>
  <2>1. PassInput = hops[1].results
    BY <1>2 DEF PassInput
  <2>2. hops[1].results \in Seq(Chunk) /\ Distinct(hops[1].results)
    BY <1>1, HopResults DEF Distinct
  <2>3. QED
    BY <2>1, <2>2
<1>3. CASE passes # <<>>
  <2>1. PassInput = MergedChunks(merged)
    BY <1>3 DEF PassInput
  <2>2. PICK hits, front, n : Merges(merged, hits, front, n)
    BY <1>1, <1>3, MergeOfHops
  <2>3. merged \in Seq(MergedEntries) /\ MergedChunkOnce(merged)
    BY <2>2 DEF Merges
  <2>4. PICK m \in Nat : DOMAIN merged = 1..m /\ \A i \in 1..m : merged[i] \in MergedEntries
    BY <2>3, LenProperties
  <2>5. \A i \in 1..m : merged[i].chunk \in Chunk
    BY <2>4 DEF MergedEntries
  <2>6. PICK c : c = MergedChunks(merged)
    OBVIOUS
  <2>7. c = [i \in 1..m |-> merged[i].chunk]
    BY <2>4, <2>6 DEF MergedChunks
  <2>8. c \in Seq(Chunk)
    <3>1. c \in [1..m -> Chunk]
      BY <2>5, <2>7
    <3>2. QED
      BY <3>1
  <2>9. Distinct(c)
    BY <2>3, <2>4, <2>7 DEF Distinct, MergedChunkOnce
  <2>10. QED
    BY <2>1, <2>6, <2>8, <2>9
<1>4. QED
  BY <1>2, <1>3
-----------------------------------------------------------------------------
(* The invariant *)

\* What the pass under way has so far: scored units, then what the search found in them, then
\* the decision about it.
UnitsKnown == phase \in {"search", "decide", "prune"} => work.units = Scored(Extract(PassInput), A)

\* After the search: the graph and the paths of these units.
PathsKnown ==
  phase \in {"decide", "prune"} =>
    work.graph = Graph(work.units, A) /\ work.paths = Search(run.id_order, work.graph, A)

\* After component 07: its decision on these paths.
DecisionKnown ==
  phase = "prune" =>
    /\ DecisionInputsValid(work.graph, A, work.paths)
    /\ work.decision = Decide(work.graph, A, work.paths)

\* What a finished pass shows and keeps.
PassKept(pass, a) ==
  /\ pass.sufficient => BackedFor(a, pass.selected, pass.best[1].answer) /\ pass.query = NoQuery
  /\ ContextKept(pass, a)

\* Every finished pass is kept.
PassesAreKept == \A i \in DOMAIN passes : PassKept(passes[i], A)

\* Passes are of EPSA, and each is of the retrievals before it.
PassesOfHops ==
  /\ run.system # "epsa" => passes = <<>>
  /\ passes # <<>> => hops # <<>> /\ passes[1].chunks = hops[1].results
  /\ run.system = "epsa" /\ Len(hops) = 2 => hops[2].query = passes[1].query
  /\ Len(passes) = 2 => passes[2].chunks = MergedChunks(merged) /\ passes[2].query = NoQuery

\* The answer was generated from the context of the system.
AnswerKnown ==
  phase = "trace" =>
    /\ run.system # "epsa" => context = FullText
    /\ run.system = "epsa" => context = PrunedText /\ terminal = TerminalState

\* The inductive invariant, on top of RunInv.
EvidenceInv ==
  /\ UnitsKnown /\ PathsKnown /\ DecisionKnown
  /\ PassesAreKept /\ PassesOfHops /\ AnswerKnown /\ OnlyKnownFailures

\* The analysis and the input of a pass are of the run, the retrievals, passes and merge.
LEMMA SameRun ==
  ASSUME UNCHANGED run
  PROVE  A' = A
BY DEF A

\* So is the input of a pass while the retrievals and the merge stay.
LEMMA SameInput ==
  ASSUME UNCHANGED <<hops, passes, merged>>
  PROVE  PassInput' = PassInput
BY DEF PassInput

\* What finished passes keep stays while there is no new one.
LEMMA KeptStays ==
  ASSUME EvidenceInv, UNCHANGED <<run, passes>>
  PROVE  PassesAreKept'
<1>1. A' = A
  BY SameRun
<1>2. QED
  BY <1>1 DEF EvidenceInv, PassesAreKept

\* The passes still have their retrievals.
LEMMA HopsStay ==
  ASSUME EvidenceInv, UNCHANGED <<run, passes, hops, merged>>
  PROVE  PassesOfHops'
BY DEF EvidenceInv, PassesOfHops

\* No new failure.
LEMMA FailuresStay ==
  ASSUME EvidenceInv, UNCHANGED <<run, failure>>
  PROVE  OnlyKnownFailures'
<1>1. A' = A
  BY SameRun
<1>2. QED
  BY <1>1 DEF EvidenceInv, OnlyKnownFailures

\* The reasons for which a run fails.
Known(reason) ==
  /\ reason \in {"none", "provider", "controller", "decide"}
  /\ reason = "controller" => run.system = "adaptive"
  /\ reason = "decide" => A.type = "yes_no" /\ Len(A.seeds) < 2

\* A run that fails for a known reason keeps the rest.
LEMMA FailEvidence ==
  ASSUME EvidenceInv, NEW reason, Known(reason), Fail(reason)
  PROVE  EvidenceInv'
<1>1. /\ failure' = reason /\ phase' = "failed"
      /\ UNCHANGED <<run, hops, control, merged, work, passes, context, terminal>>
  BY DEF Fail
<1>2. A' = A
  BY <1>1, SameRun
<1>3. OnlyKnownFailures'
  BY <1>1, <1>2 DEF OnlyKnownFailures, Known
<1>4. PassesAreKept' /\ PassesOfHops'
  BY <1>1, KeptStays, HopsStay
<1>5. (UnitsKnown /\ PathsKnown /\ DecisionKnown /\ AnswerKnown)'
  BY <1>1 DEF UnitsKnown, PathsKnown, DecisionKnown, AnswerKnown
<1>6. QED
  BY <1>3, <1>4, <1>5 DEF EvidenceInv

\* A retrieval more: the second is for the query of the first pass.
LEMMA RetrieveEvidence ==
  ASSUME RunInv, EvidenceInv, RetrieveHop
  PROVE  EvidenceInv'
<1> DEFINE query == IF hops = <<>> THEN "question"
                    ELSE IF run.system = "epsa" THEN passes[1].query
                    ELSE "controller query"
<1>1. /\ phase = "retrieve" /\ UNCHANGED <<run, control, merged, work, passes, context, terminal, failure>>
      /\ phase' \in {"merge", "control", "analyze"}
  BY DEF RetrieveHop
<1>2. \E lexical \in Lexical, dense \in Dense : hops' = Append(hops, Retrieve(query, lexical, dense))
  BY DEF RetrieveHop
<1>3. PICK hop : hops' = Append(hops, hop) /\ hop.query = query
  <2>1. PICK lexical \in Lexical, dense \in Dense : hops' = Append(hops, Retrieve(query, lexical, dense))
    BY <1>2
  <2> HIDE DEF query
  <2>2. Retrieve(query, lexical, dense).query = query
    BY DEF Retrieve
  <2>3. QED
    BY <2>1, <2>2
<1>4. IsListed(hops) /\ (hops # <<>> => Len(hops) = 1) /\ (hops = <<>> => Len(hops) = 0)
  <2>1. hops # <<>> => Len(hops) = 1
    BY <1>1 DEF RunInv, AtRetrieve
  <2>2. hops # <<>> => IsListed(hops)
    BY DEF RunInv, HopsMade, OneOrTwo, IsListed
  <2>3. IsListed(<<>>) /\ Len(<<>>) = 0
    BY DEF IsListed
  <2>4. hops = <<>> => IsListed(hops) /\ Len(hops) = 0
    BY <2>3
  <2>5. QED
    BY <2>1, <2>2, <2>4
<1>5. /\ hops' # <<>> /\ Len(hops') = Len(hops) + 1
      /\ hops # <<>> => hops'[1] = hops[1] /\ hops'[2] = hop
  <2>1. PICK t : t = Append(hops, hop)
    OBVIOUS
  <2>2. /\ Len(hops) \in Nat /\ Len(t) = Len(hops) + 1 /\ t[Len(hops) + 1] = hop
        /\ \A i \in 1..Len(hops) : t[i] = hops[i]
    BY <1>4, <2>1, AppendListed
  <2>3. t # <<>>
    <3>1. Len(t) # 0
      BY <2>2
    <3>2. QED
      BY <3>1
  <2>4. hops # <<>> => t[1] = hops[1] /\ t[2] = hop
    <3>1. HAVE hops # <<>>
    <3>2. 1 \in 1..Len(hops) /\ Len(hops) + 1 = 2
      <4>1. Len(hops) = 1
        BY <1>4, <3>1
      <4>2. 1 \in 1..1 /\ 1 + 1 = 2
        OBVIOUS
      <4>3. QED
        BY <4>1, <4>2
    <3>3. QED
      BY <2>2, <3>2
  <2>5. QED
    BY <1>3, <2>1, <2>2, <2>3, <2>4
<1>6. PassesOfHops'
  <2>1. /\ run.system # "epsa" => passes = <<>>
        /\ passes # <<>> => hops # <<>> /\ passes[1].chunks = hops[1].results
        /\ Len(passes) = 2 => passes[2].chunks = MergedChunks(merged) /\ passes[2].query = NoQuery
    BY DEF EvidenceInv, PassesOfHops
  <2>2. run.system = "epsa" /\ Len(hops') = 2 => hops'[2].query = passes[1].query
    <3>1. HAVE run.system = "epsa" /\ Len(hops') = 2
    <3>2. hops # <<>>
      BY <1>4, <1>5, <3>1
    <3>3. QED
      BY <1>3, <1>5, <3>1, <3>2
  <2>3. QED
    BY <1>1, <1>5, <2>1, <2>2 DEF PassesOfHops
<1>7. PassesAreKept' /\ OnlyKnownFailures'
  BY <1>1, KeptStays, FailuresStay
<1>8. (UnitsKnown /\ PathsKnown /\ DecisionKnown /\ AnswerKnown)'
  BY <1>1 DEF UnitsKnown, PathsKnown, DecisionKnown, AnswerKnown
<1>9. QED
  BY <1>6, <1>7, <1>8 DEF EvidenceInv

\* The controller decides, or its answer is unusable.
LEMMA ControlEvidence ==
  ASSUME RunInv, EvidenceInv, Control
  PROVE  EvidenceInv'
<1>1. CASE Fail("controller")
  <2>1. run.system = "adaptive"
    BY DEF Control, RunInv, AtControl
  <2>2. Known("controller")
    BY <2>1 DEF Known
  <2>3. QED
    BY <1>1, <2>2, FailEvidence
<1>2. CASE ~Fail("controller")
  <2>1. /\ phase' \in {"retrieve", "merge"}
        /\ UNCHANGED <<run, hops, merged, work, passes, context, terminal, failure>>
    BY <1>2 DEF Control
  <2>2. PassesAreKept' /\ PassesOfHops' /\ OnlyKnownFailures'
    BY <2>1, KeptStays, HopsStay, FailuresStay
  <2>3. (UnitsKnown /\ PathsKnown /\ DecisionKnown /\ AnswerKnown)'
    BY <2>1 DEF UnitsKnown, PathsKnown, DecisionKnown, AnswerKnown
  <2>4. QED
    BY <2>2, <2>3 DEF EvidenceInv
<1>3. QED
  BY <1>1, <1>2

\* The merge never fails; the second pass is still to come.
LEMMA MergeEvidence ==
  ASSUME RunInv, EvidenceInv, MergeHops
  PROVE  EvidenceInv'
<1>1. /\ phase = "merge" /\ hops # <<>> /\ OneOrTwo(hops)
      /\ run.system = "epsa" => Len(passes) = 1
  BY DEF RunInv, MergeHops, AtMerge, HopsMade
<1>2. MergeValid(hops, Merge(hops))
  BY <1>1, MergeIsValid
<1>3. /\ phase' \in {"analyze", "answer"}
      /\ UNCHANGED <<run, hops, control, work, passes, context, terminal, failure>>
  BY <1>2 DEF MergeHops
<1>4. PassesOfHops'
  <2>1. /\ run.system # "epsa" => passes = <<>>
        /\ passes # <<>> => hops # <<>> /\ passes[1].chunks = hops[1].results
        /\ run.system = "epsa" /\ Len(hops) = 2 => hops[2].query = passes[1].query
    BY DEF EvidenceInv, PassesOfHops
  <2>2. Len(passes) # 2
    <3>1. Len(<<>>) = 0
      OBVIOUS
    <3>2. QED
      BY <1>1, <2>1, <3>1
  <2>3. QED
    BY <1>3, <2>1, <2>2 DEF PassesOfHops
<1>5. PassesAreKept' /\ OnlyKnownFailures'
  BY <1>3, KeptStays, FailuresStay
<1>6. (UnitsKnown /\ PathsKnown /\ DecisionKnown /\ AnswerKnown)'
  BY <1>3 DEF UnitsKnown, PathsKnown, DecisionKnown, AnswerKnown
<1>7. QED
  BY <1>4, <1>5, <1>6 DEF EvidenceInv
-----------------------------------------------------------------------------
(* The steps of a pass *)

\* A step within a pass that keeps everything else.
LEMMA StepEvidence ==
  ASSUME EvidenceInv,
         UNCHANGED <<run, hops, control, merged, passes, context, terminal, failure>>
  PROVE  /\ PassesAreKept' /\ PassesOfHops' /\ OnlyKnownFailures'
         /\ A' = A /\ PassInput' = PassInput
BY KeptStays, HopsStay, FailuresStay, SameRun, SameInput

\* Components 01 to 04.
LEMMA AnalyzeEvidence ==
  ASSUME RunInv, EvidenceInv, Analyze
  PROVE  EvidenceInv'
<1>1. /\ work' = [units |-> Scored(Extract(PassInput), A)] /\ phase' = "search"
      /\ UNCHANGED <<run, hops, control, merged, passes, context, terminal, failure>>
  BY DEF Analyze
<1>2. /\ PassesAreKept' /\ PassesOfHops' /\ OnlyKnownFailures'
      /\ A' = A /\ PassInput' = PassInput
  BY <1>1, StepEvidence
<1>3. UnitsKnown'
  BY <1>1, <1>2 DEF UnitsKnown
<1>4. (PathsKnown /\ DecisionKnown /\ AnswerKnown)'
  BY <1>1 DEF PathsKnown, DecisionKnown, AnswerKnown
<1>5. QED
  BY <1>2, <1>3, <1>4 DEF EvidenceInv

\* The units of the pass under way.
LEMMA UnitsOfPass ==
  ASSUME RunInv, EvidenceInv, phase \in {"search", "decide", "prune"}
  PROVE  PassFits(work.units, PassInput, A)
<1>1. PassInput \in Seq(Chunk) /\ Distinct(PassInput) /\ run \in Runs
  BY InputFits DEF Working, RunInv
<1>2. work.units = Scored(Extract(PassInput), A)
  BY DEF EvidenceInv, UnitsKnown
<1>3. QED
  BY <1>1, <1>2, AnalyzedFits

\* The paths of the pass under way, and its graph.
LEMMA PathsOfPass ==
  ASSUME RunInv, EvidenceInv, phase \in {"decide", "prune"}
  PROVE  SearchFits(work.units, PassInput, A, work.graph, work.paths)
<1>1. PassFits(work.units, PassInput, A)
  BY UnitsOfPass
<1>2. work.graph = Graph(work.units, A) /\ work.paths = Search(run.id_order, work.graph, A)
  BY DEF EvidenceInv, PathsKnown
<1>3. QED
  BY <1>1, <1>2 DEF SearchFits

\* Components 05 and 06: neither the graph nor a path is refused.
LEMMA SearchEvidence ==
  ASSUME RunInv, EvidenceInv, SearchPaths
  PROVE  EvidenceInv'
<1>1. PICK graph, paths :
        graph = Graph(work.units, A) /\ paths = Search(run.id_order, graph, A)
  OBVIOUS
<1>2. SearchFits(work.units, PassInput, A, graph, paths)
  <2>1. PassFits(work.units, PassInput, A)
    BY UnitsOfPass DEF SearchPaths
  <2>2. QED
    BY <1>1, <2>1 DEF SearchFits
<1>3. GraphValid(graph) /\ \A i \in DOMAIN paths : PathValid(paths[i])
  BY <1>1, <1>2, GraphFits, PathsFit
<1>4. /\ phase = "search"
      /\ work' = [units |-> work.units, graph |-> graph, paths |-> paths] /\ phase' = "decide"
      /\ UNCHANGED <<run, hops, control, merged, passes, context, terminal, failure>>
  BY <1>1, <1>3 DEF SearchPaths
<1>5. /\ PassesAreKept' /\ PassesOfHops' /\ OnlyKnownFailures'
      /\ A' = A /\ PassInput' = PassInput
  BY <1>4, StepEvidence
<1>6. work'.units = work.units /\ work'.graph = graph /\ work'.paths = paths
  BY <1>4
<1>7. UnitsKnown'
  BY <1>4, <1>5, <1>6 DEF EvidenceInv, UnitsKnown
<1>8. PathsKnown'
  BY <1>1, <1>4, <1>5, <1>6 DEF PathsKnown
<1>9. (DecisionKnown /\ AnswerKnown)'
  BY <1>4 DEF DecisionKnown, AnswerKnown
<1>10. QED
  BY <1>5, <1>7, <1>8, <1>9 DEF EvidenceInv

\* Component 07 refuses only the paths of a yes/no question with fewer than two seeds.
LEMMA DecideEvidence ==
  ASSUME RunInv, EvidenceInv, DecidePass
  PROVE  EvidenceInv'
<1>1. PICK decision : decision = Decide(work.graph, A, work.paths)
  OBVIOUS
<1>2. SearchFits(work.units, PassInput, A, work.graph, work.paths) /\ phase = "decide"
  BY PathsOfPass DEF DecidePass
<1>3. DecisionValid(decision)
  BY <1>1, <1>2, SearchGives, DecisionFits DEF Finds
<1>4. CASE DecisionInputsValid(work.graph, A, work.paths)
  <2>1. /\ work' = [units |-> work.units, graph |-> work.graph, paths |-> work.paths,
                    decision |-> decision]
        /\ phase' = "prune"
        /\ UNCHANGED <<run, hops, control, merged, passes, context, terminal, failure>>
    BY <1>1, <1>3, <1>4 DEF DecidePass
  <2>2. /\ PassesAreKept' /\ PassesOfHops' /\ OnlyKnownFailures'
        /\ A' = A /\ PassInput' = PassInput
    BY <2>1, StepEvidence
  <2>3. /\ work'.units = work.units /\ work'.graph = work.graph /\ work'.paths = work.paths
        /\ work'.decision = decision
    BY <2>1
  <2>4. UnitsKnown'
    BY <1>2, <2>1, <2>2, <2>3 DEF EvidenceInv, UnitsKnown
  <2>5. PathsKnown'
    BY <1>2, <2>1, <2>2, <2>3 DEF EvidenceInv, PathsKnown
  <2>6. DecisionKnown'
    BY <1>1, <1>4, <2>2, <2>3 DEF DecisionKnown
  <2>7. AnswerKnown'
    BY <2>1 DEF AnswerKnown
  <2>8. QED
    BY <2>2, <2>4, <2>5, <2>6, <2>7 DEF EvidenceInv
<1>5. CASE ~DecisionInputsValid(work.graph, A, work.paths)
  <2>1. Fail("decide")
    BY <1>5 DEF DecidePass
  <2>2. A.type = "yes_no" /\ Len(A.seeds) < 2
    BY <1>2, <1>5, InputsFit
  <2>3. Known("decide")
    BY <2>2 DEF Known
  <2>4. QED
    BY <2>1, <2>3, FailEvidence
<1>6. QED
  BY <1>4, <1>5

\* A pass that ends shows and keeps its evidence.
LEMMA PassIsKept ==
  ASSUME NEW units, NEW chunks, NEW a, NEW g, NEW paths, SearchFits(units, chunks, a, g, paths),
         DecisionInputsValid(g, a, paths), NEW d, d = Decide(g, a, paths),
         NEW pass, pass.chunks = chunks, pass.sufficient = d.sufficient, pass.best = d.best,
         pass.selected = d.selected, pass.context = Prune(d, units),
         pass.query = NextQuery(d, a) \/ pass.query = NoQuery
  PROVE  PassKept(pass, a)
<1>1. ContextKept(pass, a)
  BY PrunedKeeps
<1>2. ASSUME d.sufficient
      PROVE  BackedFor(a, pass.selected, pass.best[1].answer) /\ pass.query = NoQuery
  <2>1. BackedFor(a, d.selected, d.best[1].answer)
    BY <1>2, SufficientBacked
  <2>2. NextQuery(d, a) = NoQuery
    BY <1>2 DEF NextQuery
  <2>3. QED
    BY <2>1, <2>2
<1>3. QED
  BY <1>1, <1>2 DEF PassKept

\* The end of a pass: components 08 and 09 refuse nothing.
LEMMA FinishEvidence ==
  ASSUME RunInv, EvidenceInv, FinishPass
  PROVE  EvidenceInv'
<1> DEFINE pruned == Prune(work.decision, work.units)
           pass == [chunks |-> PassInput, sufficient |-> work.decision.sufficient,
                    best |-> work.decision.best, selected |-> work.decision.selected,
                    context |-> pruned,
                    query |-> IF passes = <<>> THEN NextQuery(work.decision, A) ELSE NoQuery]
           fits == /\ passes = <<>> => QueryInputsValid(work.decision, work.graph, A, work.paths)
                   /\ PrunedValid(pruned) /\ PassValid(PassInput, work.units)
<1>1. phase = "prune"
  BY DEF FinishPass
<1>2. /\ SearchFits(work.units, PassInput, A, work.graph, work.paths)
      /\ PassFits(work.units, PassInput, A)
  BY <1>1, PathsOfPass, UnitsOfPass
<1>3. /\ DecisionInputsValid(work.graph, A, work.paths)
      /\ work.decision = Decide(work.graph, A, work.paths)
  BY <1>1 DEF EvidenceInv, DecisionKnown
<1>4. PICK d : d = work.decision
  OBVIOUS
<1>5. /\ pass.chunks = PassInput /\ pass.sufficient = d.sufficient /\ pass.best = d.best
      /\ pass.selected = d.selected /\ pass.context = Prune(d, work.units)
      /\ pass.query = IF passes = <<>> THEN NextQuery(d, A) ELSE NoQuery
  BY <1>4
<1>6. fits
  <2>1. QueryInputsValid(work.decision, work.graph, A, work.paths)
    BY <1>2, <1>3, QueryFits
  <2>2. PassValid(PassInput, work.units)
    BY <1>2, PassIsValid
  <2> HIDE DEF pass
  <2>3. PrunedValid(pass.context)
    BY <1>2, <1>3, <1>4, <1>5, PrunedKeeps
  <2>4. pass.context = pruned
    BY <1>4, <1>5
  <2>5. QED
    BY <2>1, <2>2, <2>3, <2>4
<1>7. /\ passes' = Append(passes, pass) /\ work' = NoWork
      /\ phase' \in {"answer", "retrieve", "merge"}
      /\ UNCHANGED <<run, hops, control, merged, context, terminal, failure>>
  <2>1. /\ passes' = Append(passes, pass) /\ work' = NoWork
        /\ phase' = IF passes # <<>> THEN "answer" ELSE IF WantsHop(pass) THEN "retrieve" ELSE "merge"
        /\ UNCHANGED <<run, hops, control, merged, context, terminal, failure>>
    BY <1>6 DEF FinishPass
  <2> HIDE DEF pass
  <2>2. QED
    BY <2>1
<1> HIDE DEF pass, fits
<1>8. PassKept(pass, A)
  BY <1>2, <1>3, <1>4, <1>5, PassIsKept
<1>9. A' = A /\ OnlyKnownFailures'
  BY <1>7, SameRun, FailuresStay
<1>10. /\ IsListed(passes') /\ Len(passes) \in Nat /\ Len(passes') = Len(passes) + 1
       /\ \A i \in 1..Len(passes) : passes'[i] = passes[i]
       /\ passes'[Len(passes) + 1] = pass
       /\ DOMAIN passes = 1..Len(passes) /\ DOMAIN passes' = 1..Len(passes')
  <2>1. IsListed(passes)
    BY DEF RunInv, PassesListed
  <2>2. PICK t : t = Append(passes, pass)
    OBVIOUS
  <2>3. /\ IsListed(t) /\ Len(passes) \in Nat /\ Len(t) = Len(passes) + 1
        /\ \A i \in 1..Len(passes) : t[i] = passes[i]
        /\ t[Len(passes) + 1] = pass
    BY <2>1, <2>2, AppendListed
  <2>4. \A s : IsListed(s) => DOMAIN s = 1..Len(s)
    BY LenProperties DEF IsListed
  <2>5. QED
    BY <1>7, <2>1, <2>2, <2>3, <2>4
<1>11. PassesAreKept'
  <2>1. ASSUME NEW i \in 1..(Len(passes) + 1)
        PROVE  PassKept(passes'[i], A)
    <3>1. CASE i = Len(passes) + 1
      BY <1>8, <1>10, <3>1
    <3>2. CASE i # Len(passes) + 1
      <4>1. i \in 1..Len(passes)
        BY <1>10, <3>2
      <4>2. PassKept(passes[i], A)
        BY <1>10, <4>1 DEF EvidenceInv, PassesAreKept
      <4>3. QED
        BY <1>10, <4>1, <4>2
    <3>3. QED
      BY <3>1, <3>2
  <2>2. QED
    BY <1>9, <1>10, <2>1 DEF PassesAreKept
<1>12. run.system = "epsa" /\ (FirstPass \/ SecondPass)
  BY <1>1 DEF RunInv, AtWork, Working
<1>13. PassesOfHops'
  <2>1. CASE FirstPass
    <3>1. Len(hops) = 1 /\ passes = <<>> /\ Len(passes) = 0
      BY <2>1 DEF FirstPass
    <3>2. hops # <<>> /\ Len(passes') = 1 /\ passes'[1] = pass
      BY <1>10, <3>1
    <3>3. pass.chunks = hops[1].results
      BY <1>5, <3>1 DEF PassInput
    <3>4. QED
      BY <1>7, <1>12, <3>1, <3>2, <3>3 DEF PassesOfHops
  <2>2. CASE SecondPass
    <3>1. Len(hops) = 2 /\ Len(passes) = 1
      BY <2>2 DEF SecondPass
    <3>2. hops # <<>> /\ passes # <<>> /\ passes'[1] = passes[1] /\ passes'[2] = pass
      <4>1. 1 \in 1..Len(passes) /\ Len(passes) + 1 = 2
        BY <3>1
      <4>2. hops # <<>> /\ passes # <<>>
        BY <3>1
      <4>3. QED
        BY <1>10, <4>1, <4>2
    <3>3. pass.chunks = MergedChunks(merged) /\ pass.query = NoQuery
      BY <1>5, <3>2 DEF PassInput
    <3>4. passes[1].chunks = hops[1].results /\ hops[2].query = passes[1].query
      BY <1>12, <3>1, <3>2 DEF EvidenceInv, PassesOfHops
    <3>5. QED
      BY <1>7, <1>12, <3>2, <3>3, <3>4 DEF PassesOfHops
  <2>3. QED
    BY <1>12, <2>1, <2>2
<1>14. (UnitsKnown /\ PathsKnown /\ DecisionKnown /\ AnswerKnown)'
  BY <1>7 DEF UnitsKnown, PathsKnown, DecisionKnown, AnswerKnown
<1>15. QED
  BY <1>9, <1>11, <1>13, <1>14 DEF EvidenceInv
-----------------------------------------------------------------------------
(* The steps of a run, and the theorems *)

\* The answer is generated from the context of the system.
LEMMA AnswerEvidence ==
  ASSUME RunInv, EvidenceInv, Answer
  PROVE  EvidenceInv'
<1>1. /\ phase' = "trace" /\ UNCHANGED <<run, hops, control, merged, work, passes, failure>>
      /\ run.system = "epsa" => context' = PrunedText /\ terminal' = TerminalState
      /\ run.system # "epsa" => context' = FullText
  BY DEF Answer
<1>2. PassesAreKept' /\ PassesOfHops' /\ OnlyKnownFailures'
  BY <1>1, KeptStays, HopsStay, FailuresStay
<1>3. PrunedText' = PrunedText /\ TerminalState' = TerminalState /\ FullText' = FullText
  BY <1>1 DEF PrunedText, TerminalState, FullText
<1>4. AnswerKnown'
  BY <1>1, <1>3 DEF AnswerKnown
<1>5. (UnitsKnown /\ PathsKnown /\ DecisionKnown)'
  BY <1>1 DEF UnitsKnown, PathsKnown, DecisionKnown
<1>6. QED
  BY <1>2, <1>4, <1>5 DEF EvidenceInv

\* The retrievals of a run are as long as a trace allows.
LEMMA HopsAlwaysFit ==
  ASSUME RunInv, hops # <<>>
  PROVE  HopsFit
<1>1. OneOrTwo(hops)
  BY DEF RunInv, HopsMade
<1>2. \A h \in DOMAIN hops : HopFits(hops[h])
  BY <1>1, HopResults DEF OneOrTwo
<1>3. QED
  BY <1>2, ResultsFit DEF HopsFit

\* The traces of the baselines are never refused.
LEMMA BaselineTraceFits ==
  ASSUME RunInv, EvidenceInv, phase = "trace", run.system # "epsa"
  PROVE  /\ BaselineTraceValid
         /\ run.system = "adaptive" => AdaptiveTraceValid
<1>1. hops # <<>> /\ (Len(hops) = 2 <=> Requested)
  BY DEF RunInv, AtAnswer, Answering
<1>2. context = FullText
  BY DEF EvidenceInv, AnswerKnown
<1>3. context.chunks = MergedChunks(merged)
  BY <1>2 DEF FullText
<1>4. BaselineTraceValid
  BY <1>1, <1>3, HopsAlwaysFit DEF BaselineTraceValid
<1>5. run.system = "adaptive" => (Len(hops) = 2 <=> control.query)
  BY <1>1, RequestedBy
<1>6. QED
  BY <1>4, <1>5 DEF AdaptiveTraceValid

\* Nor is that of EPSA.
LEMMA EPSATraceFits ==
  ASSUME RunInv, EvidenceInv, phase = "trace", run.system = "epsa"
  PROVE  EPSATraceValid
<1>1. /\ hops # <<>> /\ OneOrTwo(hops) /\ (Len(hops) = 2 <=> Requested) /\ Len(passes) = Len(hops)
  BY DEF RunInv, AtAnswer, Answering, HopsMade
<1>2. PICK n \in {1, 2} : n = Len(hops) /\ n = Len(passes)
  BY <1>1 DEF OneOrTwo
<1>3. passes # <<>> /\ 1 \in DOMAIN passes
  <2>1. DOMAIN passes = 1..n
    BY <1>2, LenProperties DEF RunInv, PassesListed, IsListed
  <2>2. 1 \in 1..n /\ n # 0
    OBVIOUS
  <2>3. QED
    BY <1>2, <2>1, <2>2
<1>4. passes[1].sufficient => passes[1].query = NoQuery
  BY <1>3 DEF EvidenceInv, PassesAreKept, PassKept
<1>5. Len(hops) = 2 <=> passes[1].query # NoQuery
  <2>1. Requested <=> WantsHop(passes[1])
    BY <1>3, RequestedBy
  <2>2. QED
    BY <1>1, <1>4, <2>1 DEF WantsHop
<1>6. /\ passes[1].chunks = hops[1].results
      /\ Len(hops) = 2 => hops[2].query = passes[1].query
      /\ Len(passes) = 2 => passes[2].chunks = MergedChunks(merged) /\ passes[2].query = NoQuery
  BY <1>3 DEF EvidenceInv, PassesOfHops
<1>7. context = PrunedText /\ terminal = TerminalState
  BY DEF EvidenceInv, AnswerKnown
<1>8. HopsFit
  BY <1>1, HopsAlwaysFit
<1>9. QED
  BY <1>1, <1>4, <1>5, <1>6, <1>7, <1>8 DEF EPSATraceValid

\* The trace of a run is not refused.
LEMMA TraceEvidence ==
  ASSUME RunInv, EvidenceInv, Trace
  PROVE  EvidenceInv'
<1> DEFINE fits == CASE run.system = "epsa" -> EPSATraceValid
                     [] run.system = "adaptive" -> AdaptiveTraceValid
                     [] OTHER -> BaselineTraceValid
<1>1. phase = "trace" /\ run.system \in {"fixed", "adaptive", "epsa"}
  BY SystemKnown DEF Trace, RunInv
<1>2. fits
  <2>1. CASE run.system = "epsa"
    BY <1>1, <2>1, EPSATraceFits
  <2>2. CASE run.system # "epsa"
    BY <1>1, <2>2, BaselineTraceFits
  <2>3. QED
    BY <2>1, <2>2
<1>3. /\ phase' = "done"
      /\ UNCHANGED <<run, hops, control, merged, work, passes, context, terminal, failure>>
  BY <1>2 DEF Trace
<1>4. PassesAreKept' /\ PassesOfHops' /\ OnlyKnownFailures'
  BY <1>3, KeptStays, HopsStay, FailuresStay
<1>5. (UnitsKnown /\ PathsKnown /\ DecisionKnown /\ AnswerKnown)'
  BY <1>3 DEF UnitsKnown, PathsKnown, DecisionKnown, AnswerKnown
<1>6. QED
  BY <1>4, <1>5 DEF EvidenceInv

\* The start of a run.
LEMMA InitEvidence == Init => EvidenceInv
<1> SUFFICES ASSUME Init
             PROVE  EvidenceInv
  OBVIOUS
<1>1. /\ phase = "retrieve" /\ hops = <<>> /\ passes = <<>> /\ failure = "none"
  BY DEF Init
<1>2. UnitsKnown /\ PathsKnown /\ DecisionKnown /\ AnswerKnown
  BY <1>1 DEF UnitsKnown, PathsKnown, DecisionKnown, AnswerKnown
<1>3. Len(<<>>) = 0 /\ DOMAIN <<>> = {}
  OBVIOUS
<1>4. PassesAreKept
  BY <1>1, <1>3 DEF PassesAreKept
<1>5. PassesOfHops
  BY <1>1, <1>3 DEF PassesOfHops
<1>6. OnlyKnownFailures
  BY <1>1 DEF OnlyKnownFailures
<1>7. QED
  BY <1>2, <1>4, <1>5, <1>6 DEF EvidenceInv

\* Every step keeps the invariant.
LEMMA NextEvidence ==
  ASSUME RunInv, EvidenceInv, [Next]_vars
  PROVE  EvidenceInv'
<1>1. CASE ProviderFails
  <2>1. Known("provider")
    BY DEF Known
  <2>2. QED
    BY <1>1, <2>1, FailEvidence DEF ProviderFails
<1>2. CASE RetrieveHop
  BY <1>2, RetrieveEvidence
<1>3. CASE Control
  BY <1>3, ControlEvidence
<1>4. CASE MergeHops
  BY <1>4, MergeEvidence
<1>5. CASE Analyze
  BY <1>5, AnalyzeEvidence
<1>6. CASE SearchPaths
  BY <1>6, SearchEvidence
<1>7. CASE DecidePass
  BY <1>7, DecideEvidence
<1>8. CASE FinishPass
  BY <1>8, FinishEvidence
<1>9. CASE Answer
  BY <1>9, AnswerEvidence
<1>10. CASE Trace
  BY <1>10, TraceEvidence
<1>11. CASE UNCHANGED vars
  <2>1. /\ PassesAreKept' /\ PassesOfHops' /\ OnlyKnownFailures'
        /\ A' = A /\ PassInput' = PassInput
    BY <1>11, StepEvidence DEF vars
  <2>2. (UnitsKnown /\ PathsKnown /\ DecisionKnown)'
    BY <1>11, <2>1 DEF vars, EvidenceInv, UnitsKnown, PathsKnown, DecisionKnown
  <2>3. AnswerKnown'
    BY <1>11 DEF vars, EvidenceInv, AnswerKnown, FullText, PrunedText, TerminalState
  <2>4. QED
    BY <2>1, <2>2, <2>3 DEF EvidenceInv
<1>12. QED
  BY <1>1, <1>2, <1>3, <1>4, <1>5, <1>6, <1>7, <1>8, <1>9, <1>10, <1>11 DEF Next

\* Whatever is asked, retrieved and stated in the paragraphs, each pass works on the units,
\* graph, paths and decision of its own paragraphs.
THEOREM EvidenceIsOfTheRun == Spec => []EvidenceInv
<1>1. Init => EvidenceInv
  BY InitEvidence
<1>2. RunInv /\ EvidenceInv /\ [Next]_vars => EvidenceInv'
  BY NextEvidence
<1>3. QED
  BY <1>1, <1>2, RunsFollowThePlan, PTL DEF Spec

\* The contracts that the records of the pipelines check never fail, for any paragraphs,
\* scores, questions and answers of the controller: a run fails because a provider or the
\* controller does, or at a yes/no question with fewer than two seeds.
THEOREM OnlyKnownFailuresHappen == Spec => []OnlyKnownFailures
<1>1. EvidenceInv => OnlyKnownFailures
  BY DEF EvidenceInv
<1>2. QED
  BY <1>1, EvidenceIsOfTheRun, PTL

\* EvidencePathSearch: a path only says what the retrieved paragraphs say, and paths come by
\* descending score.
THEOREM PathsAreAlwaysGrounded == Spec => []PathsAreGrounded
<1>1. RunInv /\ EvidenceInv => PathsAreGrounded
  <2>1. SUFFICES ASSUME RunInv, EvidenceInv, phase = "decide"
                 PROVE  /\ \A i, j \in DOMAIN work.paths :
                             i < j => work.paths[i].score >= work.paths[j].score
                        /\ \A p \in ToSet(work.paths) :
                             PathGrounded(p, p.sentences[1], Last(p.sentences), PassInput, A)
    BY DEF PathsAreGrounded, PathGrounded
  <2>2. SearchFits(work.units, PassInput, A, work.graph, work.paths)
    BY <2>1, PathsOfPass
  <2>3. QED
    BY <2>2, PathsGrounded
<1>2. QED
  BY <1>1, RunsFollowThePlan, EvidenceIsOfTheRun, PTL

\* The sufficiency decision: what is called sufficient is shown by the selected sentences,
\* which state the required relations and have the answer at its place.
THEOREM SufficientAlwaysBacked == Spec => []SufficientMeansBacked
<1>1. EvidenceInv => SufficientMeansBacked
  <2>1. SUFFICES ASSUME EvidenceInv, NEW i \in DOMAIN passes, passes[i].sufficient
                 PROVE  Backed(passes[i].selected, passes[i].best[1].answer)
    BY DEF SufficientMeansBacked
  <2>2. BackedFor(A, passes[i].selected, passes[i].best[1].answer)
    BY <2>1 DEF EvidenceInv, PassesAreKept, PassKept
  <2>3. QED
    BY <2>2
    DEF Backed, BackedFor, AnswerBacked, AnswerBackedFor, OneSentenceBacks, TwoSeedsBack, BridgeBacks
<1>2. QED
  BY <1>1, EvidenceIsOfTheRun, PTL

\* The pruner: all selected sentences stay, in the order of the ranking, with direct
\* neighbours for a sufficient bridge as far as there is room.
THEOREM ContextAlwaysKeepsEvidence == Spec => []ContextKeepsEvidence
<1>1. EvidenceInv => ContextKeepsEvidence
  <2>1. SUFFICES ASSUME EvidenceInv
                 PROVE  \A i \in DOMAIN passes : ContextKept(passes[i], A)
    BY DEF ContextKeepsEvidence, ContextKept, Neighbours, ByPlace
  <2>2. QED
    BY <2>1 DEF EvidenceInv, PassesAreKept, PassKept
<1>2. QED
  BY <1>1, EvidenceIsOfTheRun, PTL
=============================================================================
