----------------------------- MODULE ContextPruning -----------------------------
(***************************************************************************)
(* The pruning of the context (08): the evidence units that the decision   *)
(* selected and, for a sufficient bridge, the sentences next to them as    *)
(* long as there is room.                                                  *)
(***************************************************************************)
EXTENDS Sufficiency

CONSTANT MaxUnits   \* room of an expanded context

\* ResearchContextPrunerV1Config fixes it at 6: there is room for more than the two units of
\* a bridge.
ASSUME PruningAssumption == MaxUnits \in Nat /\ MaxUnits > 2

\* neighbor_distance is 1.
Near(s, t) == s[1] = t[1] /\ s[2] <= t[2] + 1 /\ t[2] <= s[2] + 1

\* Fault: the unit that fills the context is followed by one more.
VisitLate(selected, state, u) ==
  IF state.full \/ u.id[1] \notin {s[1] : s \in selected} THEN state
  ELSE [taken |-> IF \E s \in selected : Near(u.id, s) THEN state.taken \cup {u.id}
                  ELSE state.taken,
        full |-> Cardinality(state.taken) >= MaxUnits]

\* One unit of the loop over the evidence, which ends when the context is full.
Visit(selected, state, u) ==
  IF state.full \/ u.id[1] \notin {s[1] : s \in selected} THEN state
  ELSE LET taken == IF \E s \in selected : Near(u.id, s) THEN state.taken \cup {u.id}
                    ELSE state.taken
       IN [taken |-> taken, full |-> Cardinality(taken) >= MaxUnits]

\* _expand_bridge_context_if_needed
Expanded(d, mandatory, units) ==
  IF ~d.sufficient \/ d.type # "bridge" THEN mandatory
  ELSE FoldLeft(LAMBDA state, u : Visit(mandatory, state, u),
                [taken |-> mandatory, full |-> FALSE], units).taken

\* _strategy_for
Strategy(d, selected) ==
  IF selected = {} THEN "empty_evidence"
  ELSE IF d.sufficient /\ d.type = "bridge" /\ Cardinality(selected) > Cardinality(d.selected)
       THEN "sufficient_bridge_neighbor_sentence"
  ELSE IF d.sufficient THEN "sufficient_path_sentence"
  ELSE "partial_evidence_sentence"

\* _unit_sort_key: units of one rank are of one paragraph.
UnitBefore(u, v) == u.rank < v.rank \/ (u.rank = v.rank /\ u.id[2] < v.id[2])

\* _prune: units in the order of their paragraphs, and of their sentences there.
Prune(d, units) ==
  LET mandatory == d.selected \cap {u.id : u \in ToSet(units)}
      selected == Expanded(d, mandatory, units)
      sorted == InOrder({u \in ToSet(units) : u.id \in selected}, UnitBefore)
  IN [sentences |-> [i \in DOMAIN sorted |-> sorted[i].id], strategy |-> Strategy(d, selected),
      chunks |-> {s[1] : s \in selected}, unknown |-> d.selected \ mandatory]

\* PrunedContext.require_consistent_selected_provenance
PrunedValid(context) == context.strategy = "empty_evidence" => context.sentences = <<>>
=============================================================================
