------------------------------- MODULE RagSystems -------------------------------
(***************************************************************************)
(* One question answered by one of the three systems: the fixed baseline   *)
(* (one retrieval), the adaptive baseline (a model decides on a second     *)
(* one) and EPSA (the components 01 to 09 decide, and prune the context).  *)
(*                                                                         *)
(* Retrieval, the controller and the answer call a provider and can fail;  *)
(* everything between them is deterministic and checked against the        *)
(* contracts of the records it builds.  A failure ends the run.            *)
(***************************************************************************)
EXTENDS HybridRanking, NextHopQuery

CONSTANTS
  Runs,            \* system, question and order of path IDs of a run
  Lexical, Dense,  \* scores that a query may have in the indexes
  ControlOutputs   \* what the model that controls the adaptive baseline may return

VARIABLES
  run, phase,
  hops,      \* retrievals so far
  control,   \* the decision of the adaptive controller
  merged,    \* the merged hops, with the occurrences of each chunk
  work,      \* units, graph, paths and decision of the pass under way
  passes,    \* finished EPSA passes
  context,   \* what the answer is generated from
  terminal,  \* terminal state of EPSA
  failure

ASSUME SystemsAssumption ==
  /\ \A r \in Runs : r.system \in {"fixed", "adaptive", "epsa"}
  /\ Lexical \subseteq [Chunk -> Nat] /\ Dense \subseteq [Chunk -> Nat]

\* Every chunk has a paragraph; extract_seed_entities drops a name that it has seen.
ASSUME EvidenceAssumption ==
  /\ Chunk \subseteq DOMAIN Paragraph
  /\ \A r \in Runs :
       /\ r.question \in AnyQuestion /\ IsFiniteSet(r.question.text.tokens)
       /\ \A i, j \in DOMAIN r.question.seeds :
            r.question.seeds[i] = r.question.seeds[j] => i = j

vars == <<run, phase, hops, control, merged, work, passes, context, terminal, failure>>

NoControl == [sufficient |-> FALSE, reason |-> "none", missing |-> FALSE, cites |-> <<>>,
              query |-> FALSE]
NoWork == [units |-> <<>>]
NoContext == [kind |-> "none"]
-----------------------------------------------------------------------------
\* AdaptiveControlOutput.require_consistent_decision
ControlValid(o) ==
  /\ \A i, j \in DOMAIN o.cites : i < j => o.cites[i] < o.cites[j]
  /\ IF o.sufficient THEN o.reason = "sufficient" /\ ~o.missing /\ ~o.query
     ELSE /\ o.reason # "sufficient" /\ o.missing
          /\ o.query <=> o.reason # "insufficient_no_grounded_query"

\* AdaptiveRetrievalController.decide: only documents of the first hop are cited.
ControlAccepted(o) ==
  ControlValid(o) /\ \A i \in DOMAIN o.cites : o.cites[i] \in DOMAIN hops[1].results

\* What a pass works on: the first hop, then the merged ranking.
PassInput == IF passes = <<>> THEN hops[1].results ELSE MergedChunks(merged)

A == Analysis(run.question)

\* Fault: an insufficient pass starts a second hop even if it proposes no query.
WantsAnyHop(pass) == ~pass.sufficient

WantsHop(pass) == ~pass.sufficient /\ pass.query # NoQuery

\* _terminal_state
TerminalState ==
  IF passes[1].sufficient THEN "sufficient_hop1"
  ELSE IF Len(passes) = 1 THEN "insufficient_no_query"
  ELSE IF passes[2].sufficient THEN "sufficient_hop2"
  ELSE "insufficient_after_hop2"

\* EPSAPassResult.require_component_provenance_alignment
PassValid(chunks, units) ==
  /\ \A i, j \in DOMAIN chunks : chunks[i] = chunks[j] => i = j
  /\ \A i \in DOMAIN units : units[i].id[1] \in ToSet(chunks)

\* The context of the answer: the whole paragraphs, or the pruned sentences.
FullText == [kind |-> "full_paragraphs", chunks |-> MergedChunks(merged)]
PrunedText == [kind |-> "pruned_sentences", pruned |-> Last(passes).context]

\* FixedBaselineTrace, AdaptiveBaselineTrace and EPSAPipelineTrace.
HopsFit == \A h \in DOMAIN hops : Len(hops[h].results) <= TopK

BaselineTraceValid ==
  HopsFit /\ context.chunks = MergedChunks(merged)

AdaptiveTraceValid == BaselineTraceValid /\ (Len(hops) = 2 <=> control.query)

EPSATraceValid ==
  LET first == passes[1] IN
  /\ HopsFit
  /\ first.chunks = hops[1].results
  /\ first.sufficient => first.query = NoQuery
  /\ Len(hops) = 2 <=> first.query # NoQuery
  /\ Len(passes) = Len(hops)
  /\ Len(hops) = 2 => /\ hops[2].query = first.query
                      /\ passes[2].chunks = MergedChunks(merged)
                      /\ passes[2].query = NoQuery
  /\ context = PrunedText
  /\ terminal = TerminalState
-----------------------------------------------------------------------------
Init ==
  /\ run \in Runs
  /\ phase = "retrieve"
  /\ hops = <<>> /\ control = NoControl /\ merged = <<>>
  /\ work = NoWork /\ passes = <<>>
  /\ context = NoContext /\ terminal = "none" /\ failure = "none"

Fail(reason) ==
  /\ failure' = reason /\ phase' = "failed"
  /\ UNCHANGED <<run, hops, control, merged, work, passes, context, terminal>>

\* A provider (embedding, controller, answer) raises.
ProviderFails ==
  /\ phase \in {"retrieve", "control", "answer"}
  /\ Fail("provider")

\* HybridRetriever.retrieve, for the question or for the query of the second hop.
RetrieveHop ==
  /\ phase = "retrieve"
  /\ \E lexical \in Lexical, dense \in Dense :
       LET query == IF hops = <<>> THEN "question"
                    ELSE IF run.system = "epsa" THEN passes[1].query
                    ELSE "controller query"
       IN hops' = Append(hops, Retrieve(query, lexical, dense))
  /\ phase' = IF hops # <<>> \/ run.system = "fixed" THEN "merge"
              ELSE IF run.system = "adaptive" THEN "control"
              ELSE "analyze"
  /\ UNCHANGED <<run, control, merged, work, passes, context, terminal, failure>>

\* The controller of the adaptive baseline: an unusable answer of the model is an error.
Control ==
  /\ phase = "control"
  /\ \E o \in ControlOutputs :
       IF ControlAccepted(o)
       THEN /\ control' = o
            /\ phase' = IF o.query THEN "retrieve" ELSE "merge"
            /\ UNCHANGED <<run, hops, merged, work, passes, context, terminal, failure>>
       ELSE Fail("controller")

\* merge_retrieval_hops
MergeHops ==
  /\ phase = "merge"
  /\ IF MergeValid(hops, Merge(hops))
     THEN /\ merged' = Merge(hops)
          /\ phase' = IF run.system = "epsa" /\ Len(hops) = 2 THEN "analyze" ELSE "answer"
          /\ UNCHANGED <<run, hops, control, work, passes, context, terminal, failure>>
     ELSE Fail("contract")

\* Components 01 to 04: the question and the scored evidence units.
Analyze ==
  /\ phase = "analyze"
  /\ work' = [units |-> Scored(Extract(PassInput), A)]
  /\ phase' = "search"
  /\ UNCHANGED <<run, hops, control, merged, passes, context, terminal, failure>>

\* Components 05 and 06: the graph and its paths.
SearchPaths ==
  /\ phase = "search"
  /\ LET graph == Graph(work.units, A)
         paths == Search(run.id_order, graph, A)
     IN IF GraphValid(graph) /\ \A i \in DOMAIN paths : PathValid(paths[i])
        THEN /\ work' = [units |-> work.units, graph |-> graph, paths |-> paths]
             /\ phase' = "decide"
             /\ UNCHANGED <<run, hops, control, merged, passes, context, terminal, failure>>
        ELSE Fail("contract")

\* Component 07
DecidePass ==
  /\ phase = "decide"
  /\ LET decision == Decide(work.graph, A, work.paths) IN
     IF DecisionInputsValid(work.graph, A, work.paths) /\ DecisionValid(decision)
     THEN /\ work' = [units |-> work.units, graph |-> work.graph, paths |-> work.paths,
                 decision |-> decision]
          /\ phase' = "prune"
          /\ UNCHANGED <<run, hops, control, merged, passes, context, terminal, failure>>
     ELSE Fail("decide")

\* Components 08 and, in the first pass, 09; the pass ends.
FinishPass ==
  /\ phase = "prune"
  /\ LET pruned == Prune(work.decision, work.units)
         pass == [chunks |-> PassInput, sufficient |-> work.decision.sufficient,
                  best |-> work.decision.best, selected |-> work.decision.selected,
                  context |-> pruned,
                  query |-> IF passes = <<>> THEN NextQuery(work.decision, A) ELSE NoQuery]
     IN IF /\ passes = <<>> => QueryInputsValid(work.decision, work.graph, A, work.paths)
           /\ PrunedValid(pruned) /\ PassValid(PassInput, work.units)
        THEN /\ passes' = Append(passes, pass)
             /\ work' = NoWork
             /\ phase' = IF passes # <<>> THEN "answer"
                         ELSE IF WantsHop(pass) THEN "retrieve"
                         ELSE "merge"
             /\ UNCHANGED <<run, hops, control, merged, context, terminal, failure>>
        ELSE Fail("contract")

\* The context is rendered and the answer generated.
Answer ==
  /\ phase = "answer"
  /\ IF run.system = "epsa"
     THEN context' = PrunedText /\ terminal' = TerminalState
     ELSE /\ context' = FullText
          /\ UNCHANGED terminal
  /\ phase' = "trace"
  /\ UNCHANGED <<run, hops, control, merged, work, passes, failure>>

\* The trace of the run is built and validated.
Trace ==
  /\ phase = "trace"
  /\ IF CASE run.system = "epsa" -> EPSATraceValid
          [] run.system = "adaptive" -> AdaptiveTraceValid
          [] OTHER -> BaselineTraceValid
     THEN /\ phase' = "done"
          /\ UNCHANGED <<run, hops, control, merged, work, passes, context, terminal, failure>>
     ELSE Fail("contract")

Next ==
  \/ ProviderFails \/ RetrieveHop \/ Control \/ MergeHops \/ Analyze \/ SearchPaths
  \/ DecidePass \/ FinishPass \/ Answer \/ Trace

Spec == Init /\ [][Next]_vars
-----------------------------------------------------------------------------
Mentioned(s) == {Paragraph[s[1]].title} \cup Sentences(s[1])[s[2]].names
Resolved(s) == ResolvedNames(s[1], s[2])
Stated(ss) == UNION {Sentences(s[1])[s[2]].relations : s \in ss}
Place(chunks, c) == CHOOSE i \in DOMAIN chunks : chunks[i] = c

\* A run fails because a provider did, because the controller's answer is unusable, or at
\* a yes/no question with fewer than two seeds, whose paths component 07 refuses.  The
\* contracts that the records check never fail.
OnlyKnownFailures ==
  /\ failure \in {"none", "provider", "controller", "decide"}
  /\ failure = "controller" => run.system = "adaptive"
  /\ failure = "decide" => A.type = "yes_no" /\ Len(A.seeds) < 2

\* A chunk that is better than another in every branch that found the other comes before
\* it in the fused ranking, and the ranking is as long as the branches allow.
FusionRespectsBranches ==
  \A h \in DOMAIN hops :
    LET ranks == hops[h].ranks
        results == hops[h].results
        found == DOMAIN ranks.bm25 \cup DOMAIN ranks.dense
        Beats(c, d) == \A b \in FoundBy(ranks, d) : c \in DOMAIN ranks[b] /\ ranks[b][c] < ranks[b][d]
    IN /\ \A j \in DOMAIN results : \A c \in found \ {results[j]} :
            Beats(c, results[j]) => \E i \in 1..(j - 1) : results[i] = c
       /\ Len(results) = Min({TopK, Cardinality(found)})

\* Merging keeps the first hop in front, each chunk at the place of its first appearance,
\* and every hit of every hop exactly once.
MergeKeepsEveryHit ==
  merged # <<>> =>
    /\ FirstOf(Len(hops[1].results), MergedChunks(merged)) = hops[1].results
    /\ ToSet(MergedChunks(merged)) = UNION {ToSet(hops[h].results) : h \in DOMAIN hops}
    /\ \A h \in DOMAIN hops : \A r \in DOMAIN hops[h].results :
         \E i \in DOMAIN merged :
           /\ merged[i].chunk = hops[h].results[r]
           /\ Cardinality({k \in DOMAIN merged[i].occurrences :
                             merged[i].occurrences[k] = [hop |-> h, rank |-> r]}) = 1
    /\ \A i, j \in DOMAIN merged : i < j =>
         LET a == merged[i].occurrences[1]  b == merged[j].occurrences[1]
         IN a.hop < b.hop \/ (a.hop = b.hop /\ a.rank < b.rank)

\* A path only says what the retrieved paragraphs say: its sentences are in them, its seed
\* and its bridge occur in the sentences they connect, and its answer in the last one, where
\* it is no seed; and paths come by descending score.
PathsAreGrounded ==
  phase = "decide" =>
    /\ \A i, j \in DOMAIN work.paths : i < j => work.paths[i].score >= work.paths[j].score
    /\ \A p \in ToSet(work.paths) :
         LET s == p.sentences[1]  t == Last(p.sentences) IN
         /\ \A u \in {s, t} : u[1] \in ToSet(PassInput) /\ u[2] \in DOMAIN Sentences(u[1])
         /\ p.chain[1] \in Mentioned(s) \cup Resolved(s)
         /\ p.relations \subseteq Stated({s, t})
         /\ Last(p.chain) \in Mentioned(t) \ {p.chain[1]}
         /\ p.kind \in {"bridge", "factoid"} => p.answer \notin ToSet(A.seeds)
         /\ p.kind = "bridge" => s # t /\ p.bridge \in Mentioned(s) \cap Mentioned(t)

\* Evidence is called sufficient only if the selected sentences show it: the required
\* relations are stated; an answer of the expected surface is in the resolved text, next to
\* a seed or, over a name that both texts have, in the text of another document; for yes/no
\* one sentence mentions two seeds.
AnswerBacked(s, t, answer) ==
  /\ Resolved(s) \cap ToSet(A.seeds) # {}
  /\ answer \in Resolved(t) \ (ToSet(A.seeds) \cup VagueAnswers)
  /\ A.expected \in {"ENTITY", "UNKNOWN"} \cup SurfaceTypes[answer]

Backed(ss, answer) ==
  CASE A.type = "comparison" -> FALSE
    [] A.type = "yes_no" ->
         /\ ToSet(A.required) \subseteq Stated(ss)
         /\ \E s \in ss : Cardinality(Mentioned(s) \cap ToSet(A.seeds)) >= 2
    [] A.type = "factoid" ->
         /\ ToSet(A.required) \subseteq Stated(ss)
         /\ \E s \in ss : AnswerBacked(s, s, answer)
    [] A.type = "bridge" ->
         /\ Cardinality(ToSet(A.required) \ Stated(ss)) <= Max({2, Len(A.required)}) - 2
         /\ \E s, t \in ss :
              /\ AnswerBacked(s, t, answer)
              /\ Paragraph[s[1]].title # Paragraph[t[1]].title
              /\ (Resolved(s) \cap Resolved(t)) \ (ToSet(A.seeds) \cup GenericBridges \cup {answer}) # {}

SufficientMeansBacked ==
  \A i \in DOMAIN passes :
    passes[i].sufficient => Backed(passes[i].selected, passes[i].best[1].answer)

\* The pruned context has all selected sentences, in the order of the ranking, and beyond
\* them only direct neighbours for a sufficient bridge: all of them if there is room, and
\* never more than MaxUnits.
ContextKeepsEvidence ==
  \A i \in DOMAIN passes :
    LET pass == passes[i]
        kept == ToSet(pass.context.sentences)
        neighbours == {s \in UNION {{<<c, n>> : n \in DOMAIN Sentences(c)} : c \in Chunk} :
                         \E t \in pass.selected : Near(s, t)}
    IN /\ pass.selected \subseteq kept
       /\ kept # pass.selected => pass.sufficient /\ A.type = "bridge" /\ Len(pass.context.sentences) <= MaxUnits
       /\ kept \subseteq neighbours
       /\ pass.sufficient /\ A.type = "bridge" /\ Cardinality(kept) < MaxUnits => kept = neighbours
       /\ \A k, l \in DOMAIN pass.context.sentences : k < l =>
            LET s == pass.context.sentences[k]  t == pass.context.sentences[l] IN
            \/ Place(pass.chunks, s[1]) < Place(pass.chunks, t[1])
            \/ s[1] = t[1] /\ s[2] < t[2]

\* A second hop is made exactly when it was asked for: by the controller, or by a first pass
\* that found the evidence insufficient and had a query.  The context of the answer is that
\* of the last pass, which saw all chunks, and the terminal state says what happened.
Requested ==
  CASE run.system = "fixed" -> FALSE
    [] run.system = "adaptive" -> control.query
    [] run.system = "epsa" -> passes # <<>> /\ ~passes[1].sufficient /\ passes[1].query # NoQuery

SecondHopAsNeeded ==
  /\ hops # <<>> /\ phase = "retrieve" => Requested
  /\ phase \in {"answer", "trace", "done"} => (Len(hops) = 2 <=> Requested)
  /\ phase = "done" /\ run.system = "epsa" =>
       /\ context.pruned = Last(passes).context
       /\ ToSet(Last(passes).chunks) = UNION {ToSet(hops[h].results) : h \in DOMAIN hops}
       /\ terminal \in {"sufficient_hop1", "sufficient_hop2"} <=> Last(passes).sufficient
       /\ terminal \in {"sufficient_hop2", "insufficient_after_hop2"} <=> Len(hops) = 2

\* "Execute Components 01-08 and optionally Component 09 once" (run_pass): a pass over
\* valid input completes.
PassCompletes == failure # "decide"

\* The missing relation of a query is one of the question, or one of the query terms
\* (_first_relation_from_text and its tests).
QueryNamesARelation ==
  \A i \in DOMAIN passes :
    passes[i].query.relation \in {"none", "member"} \cup ToSet(A.required)
=============================================================================
