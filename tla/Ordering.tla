------------------------------- MODULE Ordering -------------------------------
(***************************************************************************)
(* Sorting, as the components of the pipelines do it: by a strict total    *)
(* order, and the first elements of the result.                            *)
(***************************************************************************)
EXTENDS Naturals, Sequences, FiniteSets, SequencesExt, FiniteSetsExt

\* The elements of S in the strict total order Before.
InOrder(S, Before(_, _)) ==
  LET placed == {<<Cardinality({y \in S : Before(y, x)}), x>> : x \in S}
  IN [i \in 1..Cardinality(S) |-> (CHOOSE p \in placed : p[1] = i - 1)[2]]

\* Tuples of naturals of one length in lexicographic order.
LexBefore(a, b) ==
  \E i \in DOMAIN a : a[i] < b[i] /\ \A j \in 1..(i - 1) : a[j] = b[j]

FirstOf(k, seq) == SubSeq(seq, 1, Min({k, Len(seq)}))
=============================================================================
