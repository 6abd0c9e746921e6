------------------------------ MODULE NextHopQuery ------------------------------
(***************************************************************************)
(* The query of the second hop (09), built from what the decision says is  *)
(* missing, from the best path and from the question.  A query is a record *)
(* of the names and the relation it is about and of its answer type word.  *)
(***************************************************************************)
EXTENDS ContextPruning

CONSTANT
  RelationWord   \* RelationWord[e]: the query term that the generic name e is, or "none"

NoQuery == [about |-> <<>>, relation |-> "none", keyword |-> "none"]

\* _first_relation_from_text: the words between "required relation" and the end of the
\* sentence, else a query term that occurs in the text.
FirstRelation(missing) ==
  IF missing.says = "required relation" THEN "evidence is incomplete"
  ELSE IF missing.says = "generic bridge" THEN RelationWord[missing.name]
  ELSE "none"

\* _choose_missing_relation: from the text, else the first required relation that the path
\* does not show, else the last one.
MissingRelation(missing, required, shown) ==
  LET unseen == {i \in DOMAIN required : required[i] \notin shown} IN
  IF FirstRelation(missing) # "none" THEN FirstRelation(missing)
  ELSE IF unseen # {} THEN required[Min(unseen)]
  ELSE IF required # <<>> THEN Last(required)
  ELSE "none"

\* _choose_target_entity: the bridge, which is no seed, else the last name of the path that
\* is not the answer, else the first seed.
TargetEntity(best, a) ==
  IF best = <<>> THEN FirstOf(1, a.seeds)
  ELSE IF best[1].bridge # 0 THEN <<best[1].bridge>>
  ELSE LET others == SelectSeq(best[1].chain, LAMBDA e : e # best[1].answer)
       IN IF others # <<>> THEN <<Last(others)>> ELSE FirstOf(1, a.seeds)

About(d, a) ==
  CASE a.type = "comparison" -> IF a.targets # <<>> THEN a.targets ELSE FirstOf(2, a.seeds)
    [] a.type = "yes_no" -> a.seeds
    [] OTHER -> TargetEntity(d.best, a)

\* _build_query: the word of the answer type, unless the terms of the relation imply it.
Covers(relation) ==
  IF relation \in {"born", "birthplace", "located", "capital"} THEN "LOCATION"
  ELSE IF relation \in {"released", "published"} THEN "DATE"
  ELSE IF relation = "population" THEN "NUMBER"
  ELSE "none"

Keyword(a, relation) ==
  IF a.expected \in {"BOOLEAN", "UNKNOWN", Covers(relation)} THEN "none" ELSE a.expected

BuildQuery(d, a) ==
  LET shown == IF d.best = <<>> THEN {} ELSE d.best[1].relations
      relation == MissingRelation(d.missing, a.required, shown)
  IN [about |-> About(d, a), relation |-> relation, keyword |-> Keyword(a, relation)]

\* RuleBasedNextHopQueryGeneratorHistoricalAdaptedV1.generate
NextQuery(d, a) == IF d.sufficient THEN NoQuery ELSE BuildQuery(d, a)

\* _validate_inputs of the generators
QueryInputsValid(d, g, a, paths) ==
  /\ g.type = a.type /\ g.expected = a.expected /\ g.required = a.required
  /\ d.type = a.type /\ d.answer_type = a.expected
  /\ \A i \in DOMAIN paths : paths[i].kind = a.type
  /\ \A i, j \in DOMAIN paths : PathNodes(paths[i]) = PathNodes(paths[j]) => i = j
  /\ ToSet(paths) = d.considered
=============================================================================
