------------------------------- MODULE CacheMap -------------------------------
(***************************************************************************)
(* What the query embedding cache promises: a map from query texts to      *)
(* vectors in which a text is bound once and for ever, and for each        *)
(* dataset version at most one frozen collection, which lists for every    *)
(* question the vector its text is bound to.                               *)
(***************************************************************************)
EXTENDS Sequences

CONSTANTS Texts, Vectors, Datasets, Text, None

VARIABLES map, frozen

vars == <<map, frozen>>

Init ==
  /\ map = [t \in Texts |-> None]
  /\ frozen = [v \in {d.version : d \in Datasets} |-> None]

Bind(t, v) ==
  /\ map[t] = None
  /\ map' = [map EXCEPT ![t] = v]
  /\ UNCHANGED frozen

Freeze(d) ==
  /\ frozen[d.version] = None
  /\ \A i \in DOMAIN d.questions : map[Text[d.questions[i]]] # None
  /\ frozen' = [frozen EXCEPT ![d.version] =
       [dataset |-> d,
        vectors |-> [i \in DOMAIN d.questions |-> map[Text[d.questions[i]]]]]]
  /\ UNCHANGED map

Next ==
  \/ \E t \in Texts, v \in Vectors : Bind(t, v)
  \/ \E d \in Datasets : Freeze(d)

Spec == Init /\ [][Next]_vars
=============================================================================
