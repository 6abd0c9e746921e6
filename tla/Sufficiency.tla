------------------------------ MODULE Sufficiency ------------------------------
(***************************************************************************)
(* The sufficiency decision (07): the guards that a path must pass for the *)
(* evidence to suffice, in order, and what the decision says is missing    *)
(* when no path passes them.  The trace and the confidence of a decision   *)
(* are left out: no component acts on them.                                *)
(*                                                                         *)
(* No relation of the rules is a part of another, so that the substring    *)
(* tests on relations are equalities.                                      *)
(***************************************************************************)
EXTENDS PathSearch

CONSTANTS
  GenericBridges,  \* names that _specific_bridge refuses
  VagueAnswers,    \* names that _specific_answer refuses
  SurfaceTypes     \* SurfaceTypes[e]: the answer types that the surface of e fits

Nothing == [says |-> "nothing", name |-> 0]

First(g, p) == UnitOf(g, p.sentences[1])
Final(g, p) == UnitOf(g, Last(p.sentences))
UnitsOf(g, p) == {UnitOf(g, s) : s \in ToSet(p.sentences)}
Required(a) == ToSet(a.required)

SeedConnected(p, a) == a.seeds = <<>> \/ ToSet(p.chain) \cap ToSet(a.seeds) # {}

SpecificBridge(p) == p.bridge \notin GenericBridges

BridgeGrounded(p, g) == p.bridge \in Final(g, p).names \cup Final(g, p).entities

\* _specific_answer, _answer_surface_matches and _graph_path_answer_type_matches.
SpecificAnswer(p) == p.answer # 0 /\ p.answer \notin VagueAnswers

SurfaceMatches(p, expected) ==
  expected \in {"UNKNOWN", "ENTITY", "BOOLEAN"} \/ expected \in SurfaceTypes[p.answer]

EvidenceTypeMatches(p, g, expected) ==
  \/ expected \in {"UNKNOWN", "ENTITY"}
  \/ /\ p.answer_type \in {expected, "UNKNOWN", "ENTITY"}
     /\ \E e \in g.edges : /\ e.kind = "sentence_has_answer_type"
                           /\ e.from[2] \in ToSet(p.sentences) /\ e.to[2] = expected

AnswerFits(p, g, a) ==
  SpecificAnswer(p) /\ SurfaceMatches(p, a.expected) /\ EvidenceTypeMatches(p, g, a.expected)

RelationsFound(p, a) == Cardinality(Required(a) \cap p.relations)

\* Seed, answer and bridge occur in the resolved texts at their ends of the path.
RolesCovered(p, g, a) ==
  /\ ToSet(a.seeds) \cap First(g, p).names # {}
  /\ p.answer \in Final(g, p).names
  /\ p.bridge # 0 =>
       Len(p.sentences) >= 2 /\ p.bridge \in First(g, p).names \cap Final(g, p).names

IndependentCoverage(p, g) ==
  /\ Cardinality(ToSet(p.sentences)) >= 2
  /\ Cardinality({u.title : u \in UnitsOf(g, p)}) >= 2

\* Quoted or digit-bearing names of the question, if it has any.
AnchorsCovered(p, g, a) ==
  \/ a.text.anchors = {}
  \/ \E u \in UnitsOf(g, p) : a.text.anchors \cap (u.names \cup {u.title}) # {}
-----------------------------------------------------------------------------
Guard(holds, says) == [holds |-> holds, missing |-> [says |-> says, name |-> 0]]

\* _bridge: a path of the search names its bridge, which is no seed.
BridgeGuards(p, g, a) ==
  << Guard(SeedConnected(p, a), "seed connection"),
     Guard(Len(p.sentences) >= 2, "second unit"),
     [holds |-> SpecificBridge(p),
      missing |-> [says |-> "generic bridge", name |-> p.bridge]],
     Guard(BridgeGrounded(p, g), "grounded bridge"),
     Guard(AnswerFits(p, g, a), "answer"),
     Guard(RelationsFound(p, a) >= Min({2, Cardinality(Required(a))}), "required relation"),
     Guard(AnchorsCovered(p, g, a), "anchor"),
     Guard(RolesCovered(p, g, a), "roles"),
     Guard(IndependentCoverage(p, g), "coverage") >>

\* Fault: the roles of a factoid path are not checked.
FactoidGuardsWithoutRoles(p, g, a) ==
  << Guard(SeedConnected(p, a), "seed connection"),
     Guard(AnswerFits(p, g, a), "answer"),
     Guard(RelationsFound(p, a) = Cardinality(Required(a)), "required relation"),
     Guard(AnchorsCovered(p, g, a), "anchor"),
     Guard(~(a.expected \in {"ENTITY", "UNKNOWN"} /\ Required(a) = {} /\ Len(p.sentences) < 2),
           "generic coverage"),
     Guard(a.text.multi_fact => IndependentCoverage(p, g), "facts") >>

\* _factoid
FactoidGuards(p, g, a) ==
  << Guard(SeedConnected(p, a), "seed connection"),
     Guard(AnswerFits(p, g, a), "answer"),
     Guard(RolesCovered(p, g, a), "roles"),
     Guard(RelationsFound(p, a) = Cardinality(Required(a)), "required relation"),
     Guard(AnchorsCovered(p, g, a), "anchor"),
     Guard(~(a.expected \in {"ENTITY", "UNKNOWN"} /\ Required(a) = {} /\ Len(p.sentences) < 2),
           "generic coverage"),
     Guard(a.text.multi_fact => IndependentCoverage(p, g), "facts") >>

\* _yes_no
YesNoGuards(p, g, a) ==
  << Guard(SeedConnected(p, a), "seed connection"),
     Guard(RelationsFound(p, a) = Cardinality(Required(a)), "yes/no relation") >>

\* _comparison: values are never compared.
ComparisonGuards == << Guard(FALSE, "comparison") >>

GuardsOf(p, g, a) ==
  CASE a.type = "bridge" -> BridgeGuards(p, g, a)
    [] a.type = "factoid" -> FactoidGuards(p, g, a)
    [] a.type = "yes_no" -> YesNoGuards(p, g, a)
    [] a.type = "comparison" -> ComparisonGuards

FirstFailure(guards) ==
  guards[Min({i \in DOMAIN guards : ~guards[i].holds})].missing

Passes(guards) == \A i \in DOMAIN guards : guards[i].holds
-----------------------------------------------------------------------------
\* _result: the answer of a yes/no question is not decided here.
Decision(a, sufficient, paths, best, selected, missing) ==
  [sufficient |-> sufficient, type |-> a.type, best |-> best, considered |-> ToSet(paths),
   selected |-> selected,
   answer |-> IF a.type = "yes_no" \/ best = <<>> THEN 0 ELSE best[1].answer,
   answer_type |-> IF a.type = "yes_no" THEN "BOOLEAN"
                   ELSE IF best # <<>> THEN best[1].answer_type ELSE a.expected,
   missing |-> missing]

\* The first path that passes decides.  Otherwise the best path is kept, its units or, in a
\* comparison, those of all paths, and what the last path lacks.
Decide(g, a, paths) ==
  LET passing == {i \in DOMAIN paths : Passes(GuardsOf(paths[i], g, a))} IN
  IF paths = <<>> THEN Decision(a, FALSE, <<>>, <<>>, {}, [says |-> "path", name |-> 0])
  ELSE IF passing # {}
  THEN LET p == paths[Min(passing)]
       IN Decision(a, TRUE, paths, <<p>>, ToSet(p.sentences), Nothing)
  ELSE Decision(a, FALSE, paths, <<paths[1]>>,
                IF a.type = "comparison" THEN UNION {ToSet(p.sentences) : p \in ToSet(paths)}
                ELSE ToSet(paths[1].sentences),
                FirstFailure(GuardsOf(Last(paths), g, a)))

\* _validate_inputs and SufficiencyDecision.require_consistent_provenance.
DecisionInputsValid(g, a, paths) ==
  /\ g.type = a.type /\ g.expected = a.expected /\ g.required = a.required
  /\ \A i \in DOMAIN paths : paths[i].kind = a.type

DecisionValid(d) ==
  /\ \A i \in DOMAIN d.best : d.best[i] \in d.considered
  /\ d.sufficient => d.best # <<>> /\ d.missing = Nothing
  /\ d.type = "yes_no" => d.answer = 0
=============================================================================
