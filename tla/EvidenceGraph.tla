----------------------------- MODULE EvidenceGraph -----------------------------
(***************************************************************************)
(* The evidence graph (05): typed nodes, and edges that carry the evidence *)
(* unit they stem from.  A node is a pair of its type and its label, so    *)
(* that nodes with one label are one node.  The weights of edges and the   *)
(* descriptions of nodes are left out: no later component reads them.      *)
(***************************************************************************)
EXTENDS EvidenceUnits

Entity(e) == <<"entity", e>>
SentenceNode(u) == <<"sentence", u.id>>

\* The seeds that a sentence anchors: by its names, its title or its resolved text.
MatchedSeeds(u, a) == {e \in ToSet(a.seeds) : e \in u.entities \cup u.names}

Edge(kind, from, to, u) == [kind |-> kind, from |-> from, to |-> to, unit |-> u.id]

\* Chunk, title and the entity the document is about.
DocumentEdges(u) ==
  {Edge("chunk_to_sentence", <<"chunk", u.id[1]>>, SentenceNode(u), u),
   Edge("title_to_sentence", <<"title", u.title>>, SentenceNode(u), u),
   Edge("title_to_entity", <<"title", u.title>>, Entity(u.title), u),
   Edge("sentence_in_document_about_entity", SentenceNode(u), Entity(u.title), u)}

MentionEdges(u) ==
  {Edge("sentence_mentions_entity", SentenceNode(u), Entity(e), u) : e \in u.entities}

RelationEdges(u) ==
  {Edge("sentence_has_relation", SentenceNode(u), <<"relation", r>>, u) : r \in u.relations}

AnswerTypeEdges(u) ==
  {Edge("sentence_has_answer_type", SentenceNode(u), <<"answer_type", t>>, u) : t \in u.types}

CooccurrenceEdges(u) ==
  {Edge("entity_cooccurs_with_entity", Entity(p[1]), Entity(p[2]), u) :
     p \in {p \in u.entities \X u.entities : p[1] < p[2]}}

\* Seeds, and from each of them the other names of the sentence as possible bridges.
SeedEdges(u, a) ==
  {Edge("seed_entity_to_sentence", Entity(e), SentenceNode(u), u) : e \in MatchedSeeds(u, a)}
    \cup {Edge("possible_bridge", Entity(p[1]), Entity(p[2]), u) :
            p \in {p \in MatchedSeeds(u, a) \X u.entities : p[1] # p[2]}}

AnswerEdges(u, a) ==
  IF a.expected \notin u.types THEN {}
  ELSE {Edge("possible_answer_candidate", SentenceNode(u), Entity(e), u) :
          e \in u.entities \ ToSet(a.seeds)}

EdgesOf(u, a) ==
  DocumentEdges(u) \cup MentionEdges(u) \cup RelationEdges(u) \cup AnswerTypeEdges(u)
    \cup CooccurrenceEdges(u) \cup SeedEdges(u, a) \cup AnswerEdges(u, a)

\* EvidenceGraphBuilderV1.build
Graph(units, a) ==
  LET edges == UNION {EdgesOf(units[i], a) : i \in DOMAIN units} IN
  [type |-> a.type, expected |-> a.expected, required |-> a.required, seeds |-> a.seeds,
   edges |-> edges, units |-> ToSet(units),
   nodes |-> {Entity(e) : e \in ToSet(a.seeds)}
               \cup {e.from : e \in edges} \cup {e.to : e \in edges}]

\* EvidenceGraph.validate_graph_identity_and_order
GraphValid(g) ==
  /\ \A e \in g.edges : e.from \in g.nodes /\ e.to \in g.nodes
  /\ \A seed \in ToSet(g.seeds) : Entity(seed) \in g.nodes
  /\ \A u \in g.units : SentenceNode(u) \in g.nodes
=============================================================================
