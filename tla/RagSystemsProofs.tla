--------------------------- MODULE RagSystemsProofs ---------------------------
(***************************************************************************)
(* Proofs about the three systems, for all chunks, scores, weights,        *)
(* questions and answers of the providers: the fusion respects its         *)
(* branches, the merge keeps every hit, and a second retrieval is made     *)
(* exactly when it was asked for.                                          *)
(*                                                                         *)
(* The ranking and the merge are folds.  What a fold computes for every    *)
(* input is proved by least counterexample (LeastNat): a fold exists as a  *)
(* function on the subsets of its domain (FoldExists), and the least       *)
(* subset or prefix for which a claim failed would contradict the step     *)
(* before it.                                                              *)
(***************************************************************************)
EXTENDS RagSystems, TLAPS, WellFoundedInduction, FiniteSetTheorems, SequenceTheorems

\* A nonempty set of naturals has a least element.
LEMMA LeastNat ==
  ASSUME NEW T \in SUBSET Nat, T # {}
  PROVE  \E n \in T : \A m \in T : n <= m
<1>1. PICK R : /\ IsWellFoundedOn(R, Nat)
                /\ \A x, y \in Nat : x < y => <<x, y>> \in R
  <2>1. IsWellFoundedOn(OpToRel(<, Nat), Nat)
    BY NatLessThanWellFounded
  <2>2. \A x, y \in Nat : x < y => <<x, y>> \in OpToRel(<, Nat)
    BY Zenon DEF OpToRel
  <2>3. QED
    BY <2>1, <2>2, Zenon
<1>2. \E x \in T : \A y \in T : ~(<<y, x>> \in R)
  <2>1. IsWellFoundedOn(R, Nat) /\ T \subseteq Nat /\ T # {}
    BY <1>1
  <2>2. QED
    BY <2>1, WFMin, Zenon
<1>3. QED
  <2>1. PICK n \in T : \A y \in T : ~(<<y, n>> \in R)
    BY <1>2
  <2>2. n \in Nat /\ T \subseteq Nat
    OBVIOUS
  <2>3. ASSUME NEW m \in T
        PROVE  n <= m
    <3>1. m \in Nat /\ ~(m < n)
      BY <1>1, <2>1, <2>2
    <3>2. QED
      BY <2>2, <3>1
  <2>4. QED
    BY <2>3

\* A strict total order on S, as a set of pairs.
Orders(R, S) ==
  /\ \A x \in S : <<x, x>> \notin R
  /\ \A x, y, z \in S : <<x, y>> \in R /\ <<y, z>> \in R => <<x, z>> \in R
  /\ \A x, y \in S : x = y \/ <<x, y>> \in R \/ <<y, x>> \in R

Under(R, S, x) == {y \in S : <<y, x>> \in R}

\* The elements under one of an order: how many there are says where it stands.
LEMMA UnderCounts ==
  ASSUME NEW S, IsFiniteSet(S), NEW R, Orders(R, S), NEW x \in S
  PROVE  /\ IsFiniteSet(Under(R, S, x))
         /\ Cardinality(Under(R, S, x)) \in 0..(Cardinality(S) - 1)
         /\ \A z \in S : <<x, z>> \in R => Cardinality(Under(R, S, x)) < Cardinality(Under(R, S, z))
<1>1. \A z \in S : /\ IsFiniteSet(Under(R, S, z)) /\ Cardinality(Under(R, S, z)) \in Nat
                   /\ Cardinality(Under(R, S, z)) < Cardinality(S)
  <2>1. TAKE z \in S
  <2>2. Under(R, S, z) \in SUBSET S /\ z \notin Under(R, S, z)
    BY DEF Under, Orders
  <2>3. Under(R, S, z) # S
    BY <2>2
  <2>4. /\ IsFiniteSet(Under(R, S, z)) /\ Cardinality(Under(R, S, z)) <= Cardinality(S)
        /\ (Cardinality(S) = Cardinality(Under(R, S, z)) => S = Under(R, S, z))
    BY <2>2, FS_Subset
  <2>5. Cardinality(Under(R, S, z)) \in Nat /\ Cardinality(S) \in Nat
    BY <2>4, FS_CardinalityType
  <2>6. QED
    BY <2>3, <2>4, <2>5
<1>2. ASSUME NEW z \in S, <<x, z>> \in R
      PROVE  Cardinality(Under(R, S, x)) < Cardinality(Under(R, S, z))
  <2>1. Under(R, S, x) \in SUBSET Under(R, S, z) /\ x \in Under(R, S, z) /\ x \notin Under(R, S, x)
    BY <1>2 DEF Under, Orders
  <2>2. /\ Cardinality(Under(R, S, x)) <= Cardinality(Under(R, S, z))
        /\ (Cardinality(Under(R, S, z)) = Cardinality(Under(R, S, x)) => Under(R, S, z) = Under(R, S, x))
    BY <1>1, <2>1, FS_Subset
  <2>3. QED
    BY <1>1, <2>1, <2>2
<1>3. Cardinality(S) \in Nat
  BY FS_CardinalityType
<1>4. QED
  BY <1>1, <1>2, <1>3

\* What InOrder makes of a set and an order.
Listing(seq, placed, S, R) ==
  /\ placed = {<<Cardinality(Under(R, S, x)), x>> : x \in S}
  /\ seq = [i \in 1..Cardinality(S) |-> (CHOOSE p \in placed : p[1] = i - 1)[2]]

\* It lists all elements, each once, in the order.
LEMMA Listed ==
  ASSUME NEW S, IsFiniteSet(S), NEW R, Orders(R, S),
         NEW placed, NEW seq, Listing(seq, placed, S, R)
  PROVE  /\ seq \in Seq(S) /\ Len(seq) = Cardinality(S) /\ Cardinality(S) \in Nat
         /\ \A i, j \in 1..Cardinality(S) : i < j <=> <<seq[i], seq[j]>> \in R
         /\ \A x \in S : \E i \in 1..Cardinality(S) : seq[i] = x
<1> USE DEF Listing
<1>1. PICK n \in Nat : n = Cardinality(S)
  BY FS_CardinalityType
<1>2. PICK r \in [S -> 0..(n - 1)] :
        /\ \A x \in S : r[x] = Cardinality(Under(R, S, x))
        /\ \A x, z \in S : <<x, z>> \in R => r[x] < r[z]
  <2> DEFINE f == [x \in S |-> Cardinality(Under(R, S, x))]
  <2>1. f \in [S -> 0..(n - 1)] /\ \A x, z \in S : <<x, z>> \in R => f[x] < f[z]
    BY <1>1, UnderCounts
  <2>2. QED
    BY <2>1
<1>3. \A x, z \in S : r[x] = r[z] => x = z
  <2>1. \A x \in S : r[x] \in Int
    BY <1>1, <1>2
  <2>2. TAKE x, z \in S
  <2>3. \/ x = z \/ <<x, z>> \in R \/ <<z, x>> \in R
    BY DEF Orders
  <2>4. QED
    BY <1>2, <2>1, <2>3
<1>4. \A i \in 1..n : \E x \in S : r[x] = i - 1
  <2>1. r \in Injection(S, 0..(n - 1))
    BY <1>2, <1>3 DEF Injection, IsInjective
  <2>2. IsFiniteSet(0..(n - 1)) /\ Cardinality(0..(n - 1)) = n
    <3>1. 0 \in Int /\ n - 1 \in Int
      BY <1>1
    <3>2. /\ IsFiniteSet(0..(n - 1))
          /\ Cardinality(0..(n - 1)) = IF 0 > n - 1 THEN 0 ELSE (n - 1) - 0 + 1
      BY <3>1, FS_Interval
    <3>3. QED
      BY <1>1, <3>2
  <2>3. r \in Surjection(S, 0..(n - 1))
    BY <1>1, <2>1, <2>2, FS_Injection
  <2>4. \A k \in 0..(n - 1) : \E x \in S : r[x] = k
    BY <2>3 DEF Surjection
  <2>5. QED
    BY <1>1, <2>4
<1>5. \A i \in 1..n : seq[i] \in S /\ r[seq[i]] = i - 1
  <2>1. TAKE i \in 1..n
  <2> DEFINE p == CHOOSE p \in placed : p[1] = i - 1
  <2>2. PICK x \in S : r[x] = i - 1
    BY <1>4
  <2>3. <<Cardinality(Under(R, S, x)), x>> \in placed
    OBVIOUS
  <2>4. \E q \in placed : q[1] = i - 1
    BY <1>2, <2>2, <2>3
  <2>5. p \in placed /\ p[1] = i - 1
    BY <2>4
  <2>6. seq[i] = p[2]
    BY <1>1
  <2> HIDE DEF p
  <2>7. QED
    BY <1>2, <2>5, <2>6
<1>6. seq \in Seq(S) /\ Len(seq) = n
  <2>1. seq \in [1..n -> S]
    BY <1>1, <1>5
  <2>2. QED
    BY <1>1, <2>1
<1>7. \A i, j \in 1..n : i < j <=> <<seq[i], seq[j]>> \in R
  <2>1. TAKE i, j \in 1..n
  <2>2. seq[i] \in S /\ seq[j] \in S /\ r[seq[i]] = i - 1 /\ r[seq[j]] = j - 1
    BY <1>5
  <2>3. \/ seq[i] = seq[j] \/ <<seq[i], seq[j]>> \in R \/ <<seq[j], seq[i]>> \in R
    BY <2>2 DEF Orders
  <2>4. CASE seq[i] = seq[j]
    <3>1. i = j
      BY <1>1, <2>2, <2>4
    <3>2. <<seq[i], seq[i]>> \notin R
      BY <2>2 DEF Orders
    <3>3. QED
      BY <1>1, <2>4, <3>1, <3>2
  <2>5. <<seq[i], seq[j]>> \in R => i < j
    BY <1>1, <1>2, <2>2
  <2>6. <<seq[j], seq[i]>> \in R => j < i
    BY <1>1, <1>2, <2>2
  <2>7. QED
    BY <2>3, <2>4, <2>5, <2>6
<1>8. \A x \in S : \E i \in 1..n : seq[i] = x
  <2>1. TAKE x \in S
  <2>2. PICK k \in 0..(n - 1) : k = r[x]
    BY <1>2
  <2>3. k + 1 \in 1..n /\ (k + 1) - 1 = k
    BY <2>2
  <2>4. r[seq[k + 1]] = k /\ seq[k + 1] \in S
    BY <1>5, <2>3
  <2>5. QED
    BY <1>3, <2>2, <2>3, <2>4
<1>9. QED
  BY <1>1, <1>6, <1>7, <1>8

\* Removing one element makes a finite set smaller.
LEMMA OneLess ==
  ASSUME NEW S, IsFiniteSet(S), NEW s \in SUBSET S, NEW x \in s
  PROVE  /\ s \ {x} \in SUBSET S /\ Cardinality(s) \in Nat /\ Cardinality(s \ {x}) \in Nat
         /\ Cardinality(s \ {x}) = Cardinality(s) - 1 /\ Cardinality(s) # 0
<1>1. IsFiniteSet(s)
  BY FS_Subset
<1>2. Cardinality(s) \in Nat
  BY <1>1, FS_CardinalityType
<1>3. IsFiniteSet(s \ {x}) /\ Cardinality(s \ {x}) = Cardinality(s) - 1
  BY <1>1, FS_RemoveElement
<1>4. Cardinality(s \ {x}) \in Nat
  BY <1>3, FS_CardinalityType
<1>5. QED
  BY <1>2, <1>3, <1>4

\* What a fold takes next from the rest of its set.
Picks(pick, S) == \A s \in SUBSET S : s # {} => pick[s] \in s
Rest(pick, s) == s \ {pick[s]}


\* A fold over S with values in D, and a function with the equations of that fold.
Foldable(S, D, base, step, pick) ==
  IsFiniteSet(S) /\ base \in D /\ step \in [S \X D -> D] /\ Picks(pick, S)
IsFold(f, S, D, base, step, pick) ==
  /\ f[{}] = base
  /\ \A s \in SUBSET S : s # {} /\ f[Rest(pick, s)] \in D
       => f[s] = step[<<pick[s], f[Rest(pick, s)]>>]

\* There is such a function: recursion on the subsets of a finite set.
LEMMA FoldExists ==
  ASSUME NEW S, NEW D, NEW base, NEW step, NEW pick, Foldable(S, D, base, step, pick)
  PROVE  \E f \in [SUBSET S -> D] : IsFold(f, S, D, base, step, pick)
<1> USE DEF Foldable
<1> DEFINE level(k) == {s \in SUBSET S : Cardinality(s) <= k}
           folds(f, k) == /\ f[{}] = base
                          /\ \A s \in level(k) : s # {} => f[s] = step[<<pick[s], f[Rest(pick, s)]>>]
           bad == {k \in Nat : ~\E f \in [level(k) -> D] : folds(f, k)}
<1>1. \A s \in SUBSET S : /\ Cardinality(s) \in Nat /\ (Cardinality(s) = 0 <=> s = {})
                          /\ Cardinality(s) <= Cardinality(S)
  <2>1. TAKE s \in SUBSET S
  <2>2. IsFiniteSet(s) /\ Cardinality(s) <= Cardinality(S)
    BY FS_Subset
  <2>3. QED
    BY <2>2, FS_CardinalityType, FS_EmptySet
<1>2. \A s \in SUBSET S : s # {} =>
        /\ pick[s] \in s /\ pick[s] \in S /\ Rest(pick, s) \in SUBSET S
        /\ Cardinality(Rest(pick, s)) = Cardinality(s) - 1
  <2>1. TAKE s \in SUBSET S
  <2>2. HAVE s # {}
  <2>3. pick[s] \in s
    BY <2>2 DEF Picks
  <2>4. QED
    BY <2>3, OneLess DEF Rest
<1>3. 0 \notin bad
  <2>1. \A s \in level(0) : s = {}
    BY <1>1
  <2>2. [s \in level(0) |-> base] \in [level(0) -> D] /\ {} \in level(0)
    BY <1>1
  <2>3. folds([s \in level(0) |-> base], 0)
    BY <2>1, <2>2
  <2>4. QED
    BY <2>2, <2>3
<1>4. ASSUME NEW k \in Nat, k \notin bad
      PROVE  k + 1 \notin bad
  <2>1. PICK f \in [level(k) -> D] : folds(f, k)
    BY <1>4
  <2> DEFINE g == [s \in level(k + 1) |->
                     IF Cardinality(s) <= k THEN f[s] ELSE step[<<pick[s], f[Rest(pick, s)]>>]]
  <2>2. \A s \in level(k + 1) : s # {} => Rest(pick, s) \in level(k)
    BY <1>1, <1>2
  <2>3. \A s \in level(k + 1) : Cardinality(s) <= k => s \in level(k)
    OBVIOUS
  <2>4. \A s \in level(k) : s \in level(k + 1) /\ g[s] = f[s]
    BY <1>1
  <2>5. {} \in level(k)
    BY <1>1
  <2>6. \A s \in level(k + 1) : s # {} => step[<<pick[s], f[Rest(pick, s)]>>] \in D
    BY <1>2, <2>2
  <2>7. \A s \in level(k + 1) : ~(Cardinality(s) <= k) => s # {}
    BY <1>1
  <2>8. g \in [level(k + 1) -> D]
    BY <2>3, <2>6, <2>7
  <2>9. ASSUME NEW s \in level(k + 1), s # {}
        PROVE  g[s] = step[<<pick[s], g[Rest(pick, s)]>>]
    <3>1. g[Rest(pick, s)] = f[Rest(pick, s)]
      BY <2>2, <2>4, <2>9
    <3>2. g[s] = step[<<pick[s], f[Rest(pick, s)]>>]
      BY <2>1, <2>3, <2>9
    <3>3. QED
      BY <3>1, <3>2
  <2>10. g[{}] = base
    BY <2>1, <2>4, <2>5
  <2> HIDE DEF g, level
  <2>11. QED
    BY <2>8, <2>9, <2>10
<1>5. bad = {}
  <2>1. SUFFICES ASSUME bad # {}
                 PROVE  FALSE
    OBVIOUS
  <2>2. bad \in SUBSET Nat
    OBVIOUS
  <2>3. PICK n \in bad : \A m \in bad : n <= m
    <3> HIDE DEF bad
    <3>1. QED
      BY <2>1, <2>2, LeastNat
  <2> HIDE DEF bad
  <2>4. n \in Nat /\ n # 0
    BY <1>3, <2>2, <2>3
  <2>5. n - 1 \in Nat /\ n - 1 \notin bad /\ (n - 1) + 1 = n
    BY <2>2, <2>3, <2>4
  <2>6. QED
    BY <1>4, <2>3, <2>5
<1>6. Cardinality(S) \in Nat
  BY <1>1
<1>7. PICK f \in [level(Cardinality(S)) -> D] : folds(f, Cardinality(S))
  BY <1>5, <1>6
<1>8. level(Cardinality(S)) = SUBSET S
  BY <1>1
<1>9. QED
  BY <1>7, <1>8 DEF IsFold

\* Any function with the equations of a fold has the values of the fold.
LEMMA FoldTyped ==
  ASSUME NEW S, NEW D, NEW base, NEW step, NEW pick, Foldable(S, D, base, step, pick),
         NEW h, IsFold(h, S, D, base, step, pick)
  PROVE  \A s \in SUBSET S :
           h[s] \in D /\ (s # {} => h[s] = step[<<pick[s], h[Rest(pick, s)]>>])
<1> USE DEF Foldable
<1> DEFINE bad == {k \in Nat : \E s \in SUBSET S : Cardinality(s) = k /\ h[s] \notin D}
<1>1. ASSUME NEW t \in SUBSET S, h[t] \notin D
      PROVE  FALSE
  <2>1. Cardinality(t) \in Nat
    BY FS_Subset, FS_CardinalityType
  <2>2. bad # {} /\ bad \in SUBSET Nat
    BY <1>1, <2>1
  <2>3. PICK n \in bad : \A m \in bad : n <= m
    <3> HIDE DEF bad
    <3>1. QED
      BY <2>2, LeastNat
  <2>4. PICK s \in SUBSET S : Cardinality(s) = n /\ h[s] \notin D
    BY <2>3
  <2>5. s # {} /\ pick[s] \in s
    BY <2>4 DEF Picks, IsFold
  <2>6. /\ Rest(pick, s) \in SUBSET S /\ Cardinality(Rest(pick, s)) \in Nat
        /\ Cardinality(Rest(pick, s)) = n - 1 /\ n \in Nat
    BY <2>4, <2>5, OneLess DEF Rest
  <2>7. h[Rest(pick, s)] \in D
    <3>1. n - 1 \notin bad
      <4> HIDE DEF bad
      <4>1. QED
        BY <2>3, <2>6
    <3>2. QED
      BY <2>6, <3>1
  <2>8. h[s] = step[<<pick[s], h[Rest(pick, s)]>>] /\ pick[s] \in S
    BY <2>5, <2>7 DEF IsFold
  <2>9. QED
    BY <2>4, <2>7, <2>8
<1>2. ASSUME NEW s \in SUBSET S, s # {}
      PROVE  h[s] = step[<<pick[s], h[Rest(pick, s)]>>]
  <2>1. Rest(pick, s) \in SUBSET S
    BY DEF Rest
  <2>2. QED
    BY <1>1, <1>2, <2>1 DEF IsFold
<1>3. QED
  BY <1>1, <1>2

\* The least of two naturals.
LEMMA LeastOfTwo ==
  ASSUME NEW a \in Nat, NEW b \in Nat
  PROVE  Min({a, b}) = IF a <= b THEN a ELSE b
<1>1. \A x \in {a, b} : (\A y \in {a, b} : x <= y) => x = IF a <= b THEN a ELSE b
  OBVIOUS
<1>2. \E x \in {a, b} : \A y \in {a, b} : x <= y
  OBVIOUS
<1>3. QED
  BY <1>1, <1>2 DEF Min

\* The first k elements of a sequence.
LEMMA Firsts ==
  ASSUME NEW X, NEW s \in Seq(X), NEW k \in Nat
  PROVE  /\ FirstOf(k, s) \in Seq(X) /\ Len(s) \in Nat
         /\ Len(FirstOf(k, s)) = IF k <= Len(s) THEN k ELSE Len(s)
         /\ \A i \in 1..Len(s) : i <= k => FirstOf(k, s)[i] = s[i]
         /\ DOMAIN FirstOf(k, s) = 1..Len(FirstOf(k, s))
<1>1. PICK m \in Nat : m = (IF k <= Len(s) THEN k ELSE Len(s)) /\ m <= Len(s) /\ m <= k
  BY LenProperties
<1>2. FirstOf(k, s) = SubSeq(s, 1, m)
  BY <1>1, LeastOfTwo, LenProperties DEF FirstOf
<1>3. /\ SubSeq(s, 1, m) \in Seq(X) /\ Len(SubSeq(s, 1, m)) = m
      /\ \A i \in 1..m : SubSeq(s, 1, m)[i] = s[i]
  BY <1>1, LenProperties
<1>4. QED
  BY <1>1, <1>2, <1>3, LenProperties
-----------------------------------------------------------------------------
\* There are finitely many chunks.
LEMMA ChunksFinite == IsFiniteSet(Chunk) /\ Chunk \subseteq Nat
BY RankingAssumption, FS_Interval DEF Chunk

\* The hits of a branch: chunks of cs, at most CandidateK.
LEMMA BestHits ==
  ASSUME NEW cs \in SUBSET Chunk, NEW score \in [Chunk -> Nat]
  PROVE  Best(cs, score) \in Seq(cs) /\ Len(Best(cs, score)) <= CandidateK
<1> DEFINE before(y, x) == score[y] > score[x] \/ (score[y] = score[x] /\ y < x)
           R == {p \in cs \X cs : before(p[1], p[2])}
           places == {<<Cardinality({y \in cs : before(y, x)}), x>> : x \in cs}
<1>1. IsFiniteSet(cs)
  BY ChunksFinite, FS_Subset
<1>2. /\ \A x \in cs : x \in Nat /\ score[x] \in Nat
      /\ \A x, y \in cs : <<x, y>> \in R <=> before(x, y)
  BY ChunksFinite
<1>3. Orders(R, cs)
  <2> HIDE DEF R, places
  <2>1. \A x \in cs : <<x, x>> \notin R
    BY <1>2
  <2>2. ASSUME NEW x \in cs, NEW y \in cs, NEW z \in cs, <<x, y>> \in R, <<y, z>> \in R
        PROVE  <<x, z>> \in R
    <3>1. before(x, y) /\ before(y, z)
      BY <1>2, <2>2
    <3>2. before(x, z)
      BY <1>2, <3>1
    <3>3. QED
      BY <1>2, <3>2
  <2>3. \A x, y \in cs : x = y \/ <<x, y>> \in R \/ <<y, x>> \in R
    <3>1. \A x, y \in cs : x = y \/ before(x, y) \/ before(y, x)
      BY <1>2
    <3> HIDE DEF before
    <3>2. QED
      BY <1>2, <3>1
  <2>4. QED
    BY <2>1, <2>2, <2>3 DEF Orders
<1>4. places = {<<Cardinality(Under(R, cs, x)), x>> : x \in cs}
  <2>1. \A x \in cs : {y \in cs : before(y, x)} = Under(R, cs, x)
    BY <1>2 DEF Under
  <2> HIDE DEF R
  <2>2. QED
    BY <2>1
<1>5. Best(cs, score) =
        FirstOf(CandidateK, [i \in 1..Cardinality(cs) |-> (CHOOSE p \in places : p[1] = i - 1)[2]])
  BY DEF Best, InOrder
<1> HIDE DEF R, places
<1>6. PICK seq : Best(cs, score) = FirstOf(CandidateK, seq) /\ Listing(seq, places, cs, R)
  BY <1>4, <1>5 DEF Listing
<1>7. seq \in Seq(cs)
  BY <1>1, <1>3, <1>6, Listed
<1>8. CandidateK \in Nat
  BY RankingAssumption
<1>9. QED
  BY <1>6, <1>7, <1>8, Firsts

\* What the fusion takes: the ranks of chunks in the branches.
Ranked == {r : r \in UNION {[cs -> 1..CandidateK] : cs \in SUBSET Chunk}}
RankRecords == [bm25 : Ranked, dense : Ranked]

\* The ranks of a branch are those of its hits.
LEMMA RanksFit ==
  ASSUME NEW cs \in SUBSET Chunk, NEW hits \in Seq(cs), Len(hits) <= CandidateK
  PROVE  RanksIn(hits) \in Ranked
<1>1. Len(hits) \in Nat /\ DOMAIN hits = 1..Len(hits) /\ CandidateK \in Nat
  BY LenProperties, RankingAssumption
<1>2. ToSet(hits) \in SUBSET Chunk
  BY <1>1 DEF ToSet
<1>3. \A c \in ToSet(hits) : (CHOOSE r \in DOMAIN hits : hits[r] = c) \in 1..CandidateK
  <2>1. TAKE c \in ToSet(hits)
  <2>2. \E r \in DOMAIN hits : hits[r] = c
    BY DEF ToSet
  <2>3. (CHOOSE r \in DOMAIN hits : hits[r] = c) \in DOMAIN hits
    BY <2>2
  <2>4. QED
    BY <1>1, <2>3
<1>4. RanksIn(hits) \in [ToSet(hits) -> 1..CandidateK]
  BY <1>3 DEF RanksIn
<1>5. QED
  BY <1>2, <1>4 DEF Ranked

\* The common denominator is a natural number.
LEMMA DenominatorNat == Denominator \in Nat
<1> DEFINE S == {RankConstant + r : r \in 1..CandidateK}
           pick == [s \in SUBSET S |-> CHOOSE x \in s : TRUE]
           step == [p \in S \X Nat |-> p[1] * p[2]]
           product(f) == f = [s \in SUBSET S |-> IF s = {} THEN 1
                                ELSE (CHOOSE x \in s : TRUE) * f[s \ {CHOOSE x \in s : TRUE}]]
           f == CHOOSE g : product(g)
<1>1. IsFiniteSet(S) /\ S \subseteq Nat
  <2>1. RankConstant \in Nat /\ CandidateK \in Nat
    BY RankingAssumption
  <2>2. S \in SUBSET Nat /\ \A s \in S : s <= RankConstant + CandidateK
    BY <2>1
  <2>3. RankConstant + CandidateK \in Nat
    BY <2>1
  <2> HIDE DEF S
  <2>4. QED
    BY <2>2, <2>3, FS_BoundedSetOfNaturals
<1>2. Denominator = f[S]
  BY DEF Denominator, ProductSet, FoldSet, MapThenFoldSet
<1> HIDE DEF S
<1>3. step \in [S \X Nat -> Nat] /\ \A x \in S, y \in Nat : step[<<x, y>>] = x * y
  <2>1. \A p \in S \X Nat : p[1] \in Nat /\ p[2] \in Nat
    BY <1>1
  <2>2. \A p \in S \X Nat : p[1] * p[2] \in Nat
    BY <2>1
  <2>3. QED
    BY <2>2
<1> HIDE DEF step
<1>4. Picks(pick, S)
  BY DEF Picks
<1>5. \A s \in SUBSET S : pick[s] = CHOOSE x \in s : TRUE
  OBVIOUS
<1> HIDE DEF pick
<1>6. PICK g \in [SUBSET S -> Nat] :
        IsFold(g, S, Nat, 1, step, pick)
  <2>1. Foldable(S, Nat, 1, step, pick)
    BY <1>1, <1>3, <1>4 DEF Foldable
  <2>2. QED
    BY <2>1, FoldExists
<1>7. product(g)
  <2>1. ASSUME NEW s \in SUBSET S, s # {}
        PROVE  g[s] = (CHOOSE x \in s : TRUE) * g[s \ {CHOOSE x \in s : TRUE}]
    <3>1. pick[s] \in S /\ Rest(pick, s) \in SUBSET S
      BY <1>4, <2>1 DEF Picks, Rest
    <3>2. g[Rest(pick, s)] \in Nat
      BY <3>1
    <3>3. g[s] = step[<<pick[s], g[Rest(pick, s)]>>]
      BY <1>6, <2>1, <3>2 DEF IsFold
    <3>4. step[<<pick[s], g[Rest(pick, s)]>>] = pick[s] * g[Rest(pick, s)]
      BY <1>1, <1>3, <3>1, <3>2
    <3>5. QED
      BY <1>5, <3>3, <3>4 DEF Rest
  <2>2. QED
    BY <1>6, <2>1 DEF IsFold
<1>8. product(f)
  <2> HIDE DEF product
  <2>1. QED
    BY <1>7
<1> HIDE DEF f
<1>9. \A s \in SUBSET S : f[s] \in Nat
  <2>1. f[{}] = 1
    BY <1>8
  <2>2. ASSUME NEW s \in SUBSET S, s # {}, f[Rest(pick, s)] \in Nat
        PROVE  f[s] = step[<<pick[s], f[Rest(pick, s)]>>]
    <3>1. pick[s] \in S
      BY <1>4, <2>2 DEF Picks
    <3>2. f[s] = pick[s] * f[Rest(pick, s)]
      BY <1>5, <1>8, <2>2 DEF Rest
    <3>3. QED
      BY <1>3, <2>2, <3>1, <3>2
  <2>3. IsFold(f, S, Nat, 1, step, pick)
    BY <2>1, <2>2 DEF IsFold
  <2>4. Foldable(S, Nat, 1, step, pick)
    BY <1>1, <1>3, <1>4 DEF Foldable
  <2>5. QED
    BY <2>3, <2>4, FoldTyped
<1>10. QED
  BY <1>2, <1>9

\* A greater divisor gives no greater quotient.
LEMMA DivFalls ==
  ASSUME NEW n \in Nat, NEW a \in Nat \ {0}, NEW b \in Nat \ {0}, a <= b
  PROVE  n \div a \in Nat /\ n \div b \in Nat /\ n \div a >= n \div b
<1>1. PICK q \in Nat, p \in Nat : q = n \div a /\ p = n \div b
  OBVIOUS
<1>2. b * p <= n
  BY <1>1
<1>3. n < a * (q + 1)
  BY <1>1
<1>4. a * (q + 1) <= b * p \/ ~(q + 1 <= p)
  BY <1>1
<1>5. QED
  BY <1>1, <1>2, <1>3, <1>4

\* What a branch adds to the score of a chunk falls with its rank there.
LEMMA ShareFalls ==
  ASSUME NEW b \in Branches, NEW r \in 1..CandidateK, NEW q \in 1..CandidateK, r <= q
  PROVE  Share(b, r) \in Nat /\ Share(b, q) \in Nat /\ Share(b, r) >= Share(b, q)
<1>1. PICK w \in Nat : w = Weight[b]
  BY RankingAssumption
<1>2. /\ RankConstant + r \in Nat \ {0} /\ RankConstant + q \in Nat \ {0}
      /\ RankConstant + r <= RankConstant + q
  BY RankingAssumption
<1>3. PICK x \in Nat, y \in Nat :
        x = Denominator \div (RankConstant + r) /\ y = Denominator \div (RankConstant + q) /\ x >= y
  BY <1>2, DenominatorNat, DivFalls
<1>4. Share(b, r) = w * x /\ Share(b, q) = w * y
  BY <1>1, <1>3 DEF Share
<1>5. w * x \in Nat /\ w * y \in Nat /\ w * x >= w * y
  BY <1>1, <1>3
<1>6. QED
  BY <1>4, <1>5

\* The part of a branch in the score of a chunk.
Part(ranks, c, b) == IF c \in DOMAIN ranks[b] THEN Share(b, ranks[b][c]) ELSE 0

\* What a branch adds to a score.
LEMMA PartsFit ==
  ASSUME NEW ranks \in RankRecords, NEW c, NEW b \in Branches
  PROVE  /\ Part(ranks, c, b) \in Nat
         /\ c \in DOMAIN ranks[b] => c \in Chunk /\ ranks[b][c] \in 1..CandidateK
<1>1. PICK cs \in SUBSET Chunk : ranks[b] \in [cs -> 1..CandidateK]
  BY DEF RankRecords, Ranked, Branches
<1>2. ASSUME c \in DOMAIN ranks[b]
      PROVE  c \in Chunk /\ ranks[b][c] \in 1..CandidateK
  BY <1>1, <1>2
<1>3. ASSUME c \in DOMAIN ranks[b]
      PROVE  Share(b, ranks[b][c]) \in Nat
  <2>1. PICK r \in 1..CandidateK : r = ranks[b][c]
    BY <1>2, <1>3
  <2>2. r <= r
    BY <2>1
  <2>3. QED
    BY <2>1, <2>2, ShareFalls
<1>4. QED
  BY <1>2, <1>3 DEF Part

\* The fused score is the sum over both branches.
LEMMA ScoreIsSum ==
  ASSUME NEW ranks \in RankRecords, NEW c
  PROVE  FusedScore(ranks, c) = Part(ranks, c, "bm25") + Part(ranks, c, "dense")
<1> DEFINE S == FoundBy(ranks, c)
           sums(f) == f = [s \in SUBSET S |-> IF s = {} THEN 0
                             ELSE Share(CHOOSE x \in s : TRUE, ranks[CHOOSE x \in s : TRUE][c])
                                    + f[s \ {CHOOSE x \in s : TRUE}]]
           f == CHOOSE g : sums(g)
           total(s) == (IF "bm25" \in s THEN Part(ranks, c, "bm25") ELSE 0)
                         + (IF "dense" \in s THEN Part(ranks, c, "dense") ELSE 0)
           g == [s \in SUBSET S |-> total(s)]
<1>1. FusedScore(ranks, c) = f[S]
  BY DEF FusedScore, MapThenSumSet, MapThenFoldSet
<1>2. /\ S \subseteq {"bm25", "dense"}
      /\ \A b \in S : Part(ranks, c, b) = Share(b, ranks[b][c]) /\ Part(ranks, c, b) \in Nat
  BY PartsFit DEF FoundBy, Branches, Part
<1>3. ASSUME NEW s \in SUBSET S, NEW b \in s
      PROVE  total(s) = Part(ranks, c, b) + total(s \ {b})
  BY <1>2
<1>4. total({}) = 0
  OBVIOUS
<1>5. \A s \in SUBSET S : g[s] = total(s)
  OBVIOUS
<1> HIDE DEF total
<1>6. ASSUME NEW s \in SUBSET S, s # {}
      PROVE  total(s) = Share(CHOOSE x \in s : TRUE, ranks[CHOOSE x \in s : TRUE][c])
                          + g[s \ {CHOOSE x \in s : TRUE}]
  <2>1. PICK b \in s : b = CHOOSE x \in s : TRUE
    BY <1>6
  <2>2. total(s) = Share(b, ranks[b][c]) + g[s \ {b}]
    BY <1>2, <1>3, <1>5, <2>1
  <2>3. QED
    BY <2>1, <2>2
<1>7. sums(g)
  BY <1>4, <1>6
<1>8. sums(f)
  <2> HIDE DEF sums
  <2>1. QED
    BY <1>7
<1> HIDE DEF f, g
<1>9. \A s \in SUBSET S : s # {} =>
        \E b \in s : f[s] = Part(ranks, c, b) + f[s \ {b}]
  <2>1. TAKE s \in SUBSET S
  <2>2. HAVE s # {}
  <2>3. PICK b \in s : b = CHOOSE x \in s : TRUE
    BY <2>2
  <2>4. f[s] = Share(b, ranks[b][c]) + f[s \ {b}]
    BY <1>8, <2>2, <2>3
  <2>5. QED
    BY <1>2, <2>3, <2>4
<1>10. f[{}] = 0
  BY <1>8
<1> HIDE DEF sums
<1>11. \A b \in S : f[{b}] = total({b})
  <2>1. TAKE b \in S
  <2>2. f[{b}] = Part(ranks, c, b) + f[{b} \ {b}] /\ total({b}) = Part(ranks, c, b) + total({b} \ {b})
    BY <1>3, <1>9
  <2>3. {b} \ {b} = {}
    OBVIOUS
  <2>4. QED
    BY <1>4, <1>10, <2>2, <2>3
<1>12. f[S] = total(S)
  <2>1. CASE S = {}
    BY <1>4, <1>10, <2>1
  <2>2. CASE S # {}
    <3>1. PICK b \in S : f[S] = Part(ranks, c, b) + f[S \ {b}]
      BY <1>9, <2>2
    <3>2. total(S) = Part(ranks, c, b) + total(S \ {b})
      BY <1>3
    <3>3. S \ {b} = {} \/ \E a \in S : S \ {b} = {a}
      BY <1>2
    <3>4. QED
      BY <1>4, <1>10, <1>11, <3>1, <3>2, <3>3
  <2>3. QED
    BY <2>1, <2>2
<1>13. total(S) = Part(ranks, c, "bm25") + Part(ranks, c, "dense")
  <2>1. \A b \in {"bm25", "dense"} : b \notin S => Part(ranks, c, b) = 0
    BY DEF FoundBy, Branches, Part
  <2>2. QED
    BY <1>2, <2>1, PartsFit DEF total, Branches
<1>14. QED
  BY <1>1, <1>12, <1>13

Found(ranks) == DOMAIN ranks.bm25 \cup DOMAIN ranks.dense

\* A chunk that was found has a score and a best rank, which a branch gave it.
LEMMA FoundScored ==
  ASSUME NEW ranks \in RankRecords, NEW c \in Found(ranks)
  PROVE  /\ FusedScore(ranks, c) \in Nat /\ c \in Nat
         /\ BestRank(ranks, c) \in Nat
         /\ \E b \in FoundBy(ranks, c) : BestRank(ranks, c) = ranks[b][c]
         /\ \A b \in FoundBy(ranks, c) : BestRank(ranks, c) <= ranks[b][c]
<1> DEFINE M == {ranks[b][c] : b \in FoundBy(ranks, c)}
<1>1. FusedScore(ranks, c) \in Nat
  BY ScoreIsSum, PartsFit DEF Branches
<1>2. FoundBy(ranks, c) # {} /\ FoundBy(ranks, c) \subseteq Branches
  BY DEF Found, FoundBy, Branches
<1>3. M # {} /\ M \in SUBSET Nat
  BY <1>2, PartsFit, RankingAssumption DEF FoundBy
<1>4. BestRank(ranks, c) = Min(M)
  BY DEF BestRank
<1>5. c \in Chunk
  BY <1>2, PartsFit DEF FoundBy
<1>6. Min(M) \in M /\ \A m \in M : Min(M) <= m
  <2> HIDE DEF M
  <2>1. \E n \in M : \A m \in M : n <= m
    BY <1>3, LeastNat
  <2>2. QED
    BY <2>1 DEF Min
<1>7. QED
  BY <1>1, <1>3, <1>4, <1>5, <1>6, ChunksFinite

FusedOrder(ranks) ==
  {p \in Found(ranks) \X Found(ranks) : FusedBefore(ranks, p[1], p[2])}

\* The fusion orders the chunks it found.
LEMMA FusionOrders ==
  ASSUME NEW ranks \in RankRecords
  PROVE  /\ Orders(FusedOrder(ranks), Found(ranks)) /\ IsFiniteSet(Found(ranks))
         /\ Found(ranks) \subseteq Chunk
<1> DEFINE F == Found(ranks)
           R == FusedOrder(ranks)
           sc(x) == FusedScore(ranks, x)
           br(x) == BestRank(ranks, x)
           before(x, y) == \/ sc(x) > sc(y)
                           \/ sc(x) = sc(y) /\ br(x) < br(y)
                           \/ sc(x) = sc(y) /\ br(x) = br(y) /\ x < y
<1>1. \A x, y \in F : <<x, y>> \in R <=> before(x, y)
  BY DEF FusedOrder, FusedBefore
<1>2. \A x \in F : sc(x) \in Nat /\ br(x) \in Nat /\ x \in Nat
  BY FoundScored
<1> HIDE DEF F, R, sc, br
<1>3. \A x \in F : <<x, x>> \notin R
  BY <1>1, <1>2
<1>4. ASSUME NEW x \in F, NEW y \in F, NEW z \in F, <<x, y>> \in R, <<y, z>> \in R
      PROVE  <<x, z>> \in R
  <2>1. before(x, y) /\ before(y, z)
    BY <1>1, <1>4
  <2>2. before(x, z)
    BY <1>2, <2>1
  <2>3. QED
    BY <1>1, <2>2
<1>5. \A x, y \in F : x = y \/ <<x, y>> \in R \/ <<y, x>> \in R
  <2>1. \A x, y \in F : x = y \/ before(x, y) \/ before(y, x)
    BY <1>2
  <2> HIDE DEF before
  <2>2. QED
    BY <1>1, <2>1
<1>6. Orders(R, F)
  BY <1>3, <1>4, <1>5 DEF Orders
<1>7. Found(ranks) \subseteq Chunk
  <2>1. \A b \in Branches : DOMAIN ranks[b] \subseteq Chunk
    BY PartsFit
  <2>2. QED
    BY <2>1 DEF Found, Branches
<1>8. IsFiniteSet(Found(ranks))
  BY <1>7, ChunksFinite, FS_Subset
<1>9. QED
  BY <1>6, <1>7, <1>8 DEF F, R

\* The results of a retrieval: the first TopK of the chunks found, in order.
LEMMA FusedResults ==
  ASSUME NEW ranks \in RankRecords
  PROVE  /\ Fused(ranks) \in Seq(Found(ranks))
         /\ Len(Fused(ranks)) = Min({TopK, Cardinality(Found(ranks))})
         /\ Len(Fused(ranks)) <= TopK
         /\ \A i, j \in DOMAIN Fused(ranks) : Fused(ranks)[i] = Fused(ranks)[j] => i = j
         /\ \A j \in DOMAIN Fused(ranks) : \A c \in Found(ranks) :
              FusedBefore(ranks, c, Fused(ranks)[j]) => \E i \in 1..(j - 1) : Fused(ranks)[i] = c
<1> DEFINE F == Found(ranks)
           R == FusedOrder(ranks)
           places == {<<Cardinality({y \in F : FusedBefore(ranks, y, x)}), x>> : x \in F}
<1>1. places = {<<Cardinality(Under(R, F, x)), x>> : x \in F}
  <2>1. \A x \in F : {y \in F : FusedBefore(ranks, y, x)} = Under(R, F, x)
    BY DEF Under, FusedOrder
  <2>2. QED
    BY <2>1
<1>2. Fused(ranks) =
        FirstOf(TopK, [i \in 1..Cardinality(F) |-> (CHOOSE p \in places : p[1] = i - 1)[2]])
  BY DEF Fused, InOrder, Found
<1>3. Orders(R, F) /\ IsFiniteSet(F)
  BY FusionOrders
<1>4. \A x, y \in F : <<x, y>> \in R <=> FusedBefore(ranks, x, y)
  BY DEF FusedOrder
<1> HIDE DEF F, R, places
<1>5. PICK seq : Fused(ranks) = FirstOf(TopK, seq) /\ Listing(seq, places, F, R)
  BY <1>1, <1>2 DEF Listing
<1>6. /\ seq \in Seq(F) /\ Len(seq) = Cardinality(F) /\ Cardinality(F) \in Nat
      /\ \A i, j \in 1..Cardinality(F) : i < j <=> <<seq[i], seq[j]>> \in R
      /\ \A x \in F : \E i \in 1..Cardinality(F) : seq[i] = x
  BY <1>3, <1>5, Listed
<1>7. PICK n \in Nat, t \in Nat, m \in Nat :
        /\ n = Cardinality(F) /\ t = TopK /\ m = (IF t <= n THEN t ELSE n)
        /\ m = Min({TopK, Cardinality(F)})
  BY <1>6, LeastOfTwo, RankingAssumption
<1>8. /\ FirstOf(t, seq) \in Seq(F) /\ Len(FirstOf(t, seq)) = m
      /\ \A i \in 1..n : i <= t => FirstOf(t, seq)[i] = seq[i]
      /\ DOMAIN FirstOf(t, seq) = 1..Len(FirstOf(t, seq))
  BY <1>6, <1>7, Firsts
<1>9. PICK s \in Seq(F) : /\ s = Fused(ranks) /\ Len(s) = m /\ DOMAIN s = 1..m
                          /\ \A i \in 1..m : i \in 1..n /\ s[i] = seq[i]
  <2>1. Fused(ranks) = FirstOf(t, seq)
    BY <1>5, <1>7
  <2>2. \A i \in 1..m : i \in 1..n /\ i <= t
    BY <1>7
  <2>3. QED
    BY <1>8, <2>1, <2>2
<1>10. \A i \in 1..n : seq[i] \in F
  BY <1>6, <1>7
<1>11. \A i, j \in 1..m : s[i] = s[j] => i = j
  <2>1. TAKE i, j \in 1..m
  <2>2. HAVE s[i] = s[j]
  <2>3. ~(<<seq[i], seq[j]>> \in R) /\ ~(<<seq[j], seq[i]>> \in R)
    BY <1>3, <1>9, <1>10, <2>2 DEF Orders
  <2>4. QED
    BY <1>6, <1>7, <1>9, <2>3
<1>12. ASSUME NEW j \in 1..m, NEW c \in F, FusedBefore(ranks, c, s[j])
       PROVE  \E i \in 1..(j - 1) : s[i] = c
  <2>1. PICK i \in 1..n : seq[i] = c
    BY <1>6, <1>7
  <2>2. <<seq[i], seq[j]>> \in R
    BY <1>4, <1>9, <1>10, <1>12, <2>1
  <2>3. i < j
    BY <1>6, <1>7, <1>9, <2>2
  <2>4. i \in 1..(j - 1) /\ i \in 1..m
    BY <1>7, <2>3
  <2>5. QED
    BY <1>9, <2>1, <2>4
<1>13. m = Min({TopK, Cardinality(F)}) /\ m <= TopK
  BY <1>7
<1>14. QED
  BY <1>9, <1>11, <1>12, <1>13 DEF F

\* Better in every branch that found the other chunk is before it in the fusion.
LEMMA BetterComesFirst ==
  ASSUME NEW ranks \in RankRecords, NEW c \in Found(ranks), NEW d \in Found(ranks),
         \A b \in FoundBy(ranks, d) : c \in DOMAIN ranks[b] /\ ranks[b][c] < ranks[b][d]
  PROVE  FusedBefore(ranks, c, d)
<1>1. \A b \in Branches : /\ Part(ranks, c, b) \in Nat /\ Part(ranks, d, b) \in Nat
                          /\ Part(ranks, c, b) >= Part(ranks, d, b)
  <2>1. TAKE b \in Branches
  <2>2. Part(ranks, c, b) \in Nat /\ Part(ranks, d, b) \in Nat
    BY PartsFit
  <2>3. CASE d \notin DOMAIN ranks[b]
    BY <2>2, <2>3 DEF Part
  <2>4. CASE d \in DOMAIN ranks[b]
    <3>1. c \in DOMAIN ranks[b] /\ ranks[b][c] < ranks[b][d]
      BY <2>4 DEF FoundBy
    <3>2. PICK r \in 1..CandidateK, q \in 1..CandidateK : r = ranks[b][c] /\ q = ranks[b][d]
      BY <2>4, <3>1, PartsFit
    <3>3. r <= q
      BY <3>1, <3>2, RankingAssumption
    <3>4. Share(b, r) >= Share(b, q)
      BY <3>3, ShareFalls
    <3>5. QED
      BY <2>2, <2>4, <3>1, <3>2, <3>4 DEF Part
  <2>5. QED
    BY <2>3, <2>4
<1>2. FusedScore(ranks, c) >= FusedScore(ranks, d)
  BY <1>1, ScoreIsSum DEF Branches
<1>3. BestRank(ranks, c) < BestRank(ranks, d)
  <2>1. PICK b \in FoundBy(ranks, d) : BestRank(ranks, d) = ranks[b][d]
    BY FoundScored
  <2>2. b \in FoundBy(ranks, c) /\ ranks[b][c] < ranks[b][d]
    BY <2>1 DEF FoundBy
  <2>3. BestRank(ranks, c) <= ranks[b][c]
    BY <2>2, FoundScored
  <2>4. ranks[b][c] \in Nat /\ ranks[b][d] \in Nat
    BY <2>2, PartsFit, RankingAssumption DEF FoundBy
  <2>5. QED
    BY <2>1, <2>2, <2>3, <2>4, FoundScored
<1>4. QED
  BY <1>2, <1>3, FoundScored DEF FusedBefore
-----------------------------------------------------------------------------
\* A retrieval: what the branches found, and the fusion of their ranks.
HopFits(h) == h.ranks \in RankRecords /\ h.results = Fused(h.ranks)

\* A retrieval of any scores is the fusion of ranks that its branches may have.
LEMMA RetrievalFits ==
  ASSUME NEW query, NEW lexical \in [Chunk -> Nat], NEW dense \in [Chunk -> Nat]
  PROVE  HopFits(Retrieve(query, lexical, dense))
<1>1. RanksIn(LexicalHits(lexical)) \in Ranked
  <2>1. {c \in Chunk : lexical[c] > 0} \in SUBSET Chunk
    OBVIOUS
  <2>2. QED
    BY <2>1, BestHits, RanksFit DEF LexicalHits
<1>2. RanksIn(DenseHits(dense)) \in Ranked
  BY BestHits, RanksFit DEF DenseHits
<1>3. [bm25 |-> RanksIn(LexicalHits(lexical)), dense |-> RanksIn(DenseHits(dense))] \in RankRecords
  BY <1>1, <1>2 DEF RankRecords
<1>4. QED
  BY <1>3 DEF HopFits, Retrieve

\* What FusionRespectsBranches says of one retrieval.
RespectsBranches(hop) ==
  LET ranks == hop.ranks
      results == hop.results
      found == DOMAIN ranks.bm25 \cup DOMAIN ranks.dense
      Beats(c, d) == \A b \in FoundBy(ranks, d) : c \in DOMAIN ranks[b] /\ ranks[b][c] < ranks[b][d]
  IN /\ \A j \in DOMAIN results : \A c \in found \ {results[j]} :
          Beats(c, results[j]) => \E i \in 1..(j - 1) : results[i] = c
     /\ Len(results) = Min({TopK, Cardinality(found)})

\* Each retrieval respects its branches.
LEMMA HopRespects ==
  ASSUME NEW hop, HopFits(hop)
  PROVE  RespectsBranches(hop)
<1>1. PICK ranks \in RankRecords : ranks = hop.ranks /\ hop.results = Fused(ranks)
  BY DEF HopFits
<1>2. ASSUME NEW j \in DOMAIN Fused(ranks), NEW c \in Found(ranks),
             \A b \in FoundBy(ranks, Fused(ranks)[j]) :
               c \in DOMAIN ranks[b] /\ ranks[b][c] < ranks[b][Fused(ranks)[j]]
      PROVE  \E i \in 1..(j - 1) : Fused(ranks)[i] = c
  <2>1. PICK d \in Found(ranks) : d = Fused(ranks)[j]
    <3>1. Fused(ranks) \in Seq(Found(ranks))
      BY FusedResults
    <3>2. QED
      BY <3>1
  <2>2. FusedBefore(ranks, c, d)
    BY <1>2, <2>1, BetterComesFirst
  <2>3. QED
    BY <2>1, <2>2, FusedResults
<1>3. Len(Fused(ranks)) = Min({TopK, Cardinality(Found(ranks))})
  BY FusedResults
<1>4. QED
  BY <1>1, <1>2, <1>3 DEF RespectsBranches, Found

\* The results of a retrieval are distinct chunks, at most TopK.
LEMMA ResultsFit ==
  ASSUME NEW hop, HopFits(hop)
  PROVE  /\ hop.results \in Seq(Chunk) /\ Len(hop.results) <= TopK
         /\ \A i, j \in DOMAIN hop.results : hop.results[i] = hop.results[j] => i = j
<1>1. PICK ranks \in RankRecords : ranks = hop.ranks /\ hop.results = Fused(ranks)
  BY DEF HopFits
<1>2. Fused(ranks) \in Seq(Found(ranks)) /\ Found(ranks) \subseteq Chunk
  BY FusedResults, FusionOrders
<1>3. Fused(ranks) \in Seq(Chunk)
  BY <1>2
<1>4. QED
  BY <1>1, <1>3, FusedResults

Places == [hop : Nat, rank : Nat]
Hits == [chunk : Chunk, hop : Nat, rank : Nat]
MergedEntries == [chunk : Chunk, first : Nat, occurrences : Seq(Places)]

Earlier(a, b) == a.hop < b.hop \/ (a.hop = b.hop /\ a.rank < b.rank)

\* The hits of the hops one after the other, as the merge meets them.
InTurn(hits) ==
  /\ hits \in Seq(Hits)
  /\ \A k, l \in 1..Len(hits) : k < l => Earlier(Occurrence(hits[k]), Occurrence(hits[l]))

\* What merging the first n hits gives.  The chunks of the first `front` hits differ.
MergedChunkOnce(m) == \A i, j \in DOMAIN m : m[i].chunk = m[j].chunk => i = j

OccurrencesInTurn(m) ==
  \A i \in DOMAIN m :
    /\ m[i].occurrences # <<>> /\ m[i].first = m[i].occurrences[1].hop
    /\ \A o, p \in DOMAIN m[i].occurrences :
         o < p => Earlier(m[i].occurrences[o], m[i].occurrences[p])

OccurrencesAreHits(m, hits, n) ==
  \A i \in DOMAIN m : \A o \in DOMAIN m[i].occurrences : \E k \in 1..n :
    hits[k].chunk = m[i].chunk /\ m[i].occurrences[o] = Occurrence(hits[k])

HitsOccur(m, hits, n) ==
  \A k \in 1..n : \E i \in DOMAIN m :
    /\ m[i].chunk = hits[k].chunk
    /\ \E o \in DOMAIN m[i].occurrences : m[i].occurrences[o] = Occurrence(hits[k])

FirstSeenFirst(m) ==
  \A i, j \in DOMAIN m : i < j => Earlier(m[i].occurrences[1], m[j].occurrences[1])

FrontKept(m, hits, front, n) ==
  /\ \A i \in 1..n : i <= front => i \in DOMAIN m /\ m[i].chunk = hits[i].chunk
  /\ n <= front => Len(m) = n

Merges(m, hits, front, n) ==
  /\ m \in Seq(MergedEntries) /\ Len(m) <= n
  /\ MergedChunkOnce(m)
  /\ OccurrencesInTurn(m)
  /\ OccurrencesAreHits(m, hits, n)
  /\ HitsOccur(m, hits, n)
  /\ FirstSeenFirst(m)
  /\ FrontKept(m, hits, front, n)

\* The occurrence of a hit is its place.
LEMMA OccurrencePlace ==
  ASSUME NEW hit \in Hits
  PROVE  Occurrence(hit) \in Places /\ hit.chunk \in Chunk /\ hit.hop \in Nat
         /\ Occurrence(hit).hop = hit.hop /\ Occurrence(hit).rank = hit.rank
BY DEF Hits, Occurrence, Places

\* A hit of a new chunk is the first occurrence of its chunk.
LEMMA NewChunk ==
  ASSUME NEW m \in Seq(MergedEntries), NEW hit \in Hits,
         ~\E i \in DOMAIN m : m[i].chunk = hit.chunk
  PROVE  /\ AddHit(m, hit) \in Seq(MergedEntries)
         /\ Len(AddHit(m, hit)) = Len(m) + 1 /\ Len(m) \in Nat
         /\ DOMAIN m = 1..Len(m) /\ DOMAIN AddHit(m, hit) = 1..(Len(m) + 1)
         /\ \A i \in 1..Len(m) : AddHit(m, hit)[i] = m[i]
         /\ AddHit(m, hit)[Len(m) + 1].chunk = hit.chunk
         /\ AddHit(m, hit)[Len(m) + 1].first = hit.hop
         /\ AddHit(m, hit)[Len(m) + 1].occurrences = <<Occurrence(hit)>>
<1> DEFINE e == [chunk |-> hit.chunk, first |-> hit.hop, occurrences |-> <<Occurrence(hit)>>]
<1>1. e \in MergedEntries
  <2>1. <<Occurrence(hit)>> \in Seq(Places)
    BY OccurrencePlace
  <2>2. QED
    BY <2>1, OccurrencePlace DEF MergedEntries
<1>2. AddHit(m, hit) = Append(m, e)
  BY DEF AddHit
<1>3. e.chunk = hit.chunk /\ e.first = hit.hop /\ e.occurrences = <<Occurrence(hit)>>
  OBVIOUS
<1> HIDE DEF e
<1>4. QED
  BY <1>1, <1>2, <1>3, AppendProperties, LenProperties

\* A hit of a known chunk is added to the occurrences of the chunk.
LEMMA KnownChunk ==
  ASSUME NEW m \in Seq(MergedEntries), NEW hit \in Hits, NEW known \in DOMAIN m,
         m[known].chunk = hit.chunk, MergedChunkOnce(m)
  PROVE  /\ AddHit(m, hit) \in Seq(MergedEntries)
         /\ Len(AddHit(m, hit)) = Len(m) /\ Len(m) \in Nat
         /\ DOMAIN m = 1..Len(m) /\ DOMAIN AddHit(m, hit) = 1..Len(m)
         /\ \A i \in 1..Len(m) :
              /\ AddHit(m, hit)[i].chunk = m[i].chunk /\ AddHit(m, hit)[i].first = m[i].first
              /\ i # known => AddHit(m, hit)[i] = m[i]
         /\ AddHit(m, hit)[known].occurrences = Append(m[known].occurrences, Occurrence(hit))
<1> DEFINE new == [i \in DOMAIN m |->
                     IF m[i].chunk # hit.chunk THEN m[i]
                     ELSE [m[i] EXCEPT !.occurrences = Append(@, Occurrence(hit))]]
<1>1. AddHit(m, hit) = new
  BY DEF AddHit
<1>2. PICK n \in Nat : n = Len(m) /\ DOMAIN m = 1..n
  BY LenProperties
<1>3. \A i \in 1..n : m[i].chunk # hit.chunk <=> i # known
  BY <1>2 DEF MergedChunkOnce
<1>4. \A i \in 1..n : i # known => new[i] = m[i]
  BY <1>2, <1>3
<1>5. PICK e \in MergedEntries : e = m[known]
  BY <1>2
<1>6. Append(e.occurrences, Occurrence(hit)) \in Seq(Places)
  BY <1>5, OccurrencePlace DEF MergedEntries
<1>7. /\ new[known] = [e EXCEPT !.occurrences = Append(@, Occurrence(hit))]
      /\ new[known] \in MergedEntries /\ new[known].chunk = e.chunk /\ new[known].first = e.first
      /\ new[known].occurrences = Append(e.occurrences, Occurrence(hit))
  <2>1. new[known] = [e EXCEPT !.occurrences = Append(@, Occurrence(hit))]
    BY <1>2, <1>3, <1>5
  <2> HIDE DEF new
  <2>2. QED
    BY <1>5, <1>6, <2>1 DEF MergedEntries
<1>8. DOMAIN new = 1..n
  BY <1>2
<1>9. \A i \in 1..n : m[i] \in MergedEntries
  BY <1>2
<1>10. new \in [1..n -> MergedEntries]
  <2>1. \A i \in 1..n : new[i] \in MergedEntries
    BY <1>4, <1>7, <1>9
  <2>2. new = [i \in 1..n |-> new[i]]
    BY <1>2
  <2> HIDE DEF new
  <2>3. QED
    BY <2>1, <2>2
<1> HIDE DEF new
<1>11. new \in Seq(MergedEntries) /\ Len(new) = n
  BY <1>10
<1>12. QED
  BY <1>1, <1>2, <1>4, <1>5, <1>7, <1>8, <1>11

\* The hits of the front have different chunks.
FrontDiffers(hits, front) ==
  front \in 0..Len(hits) /\ \A k, l \in 1..front : hits[k].chunk = hits[l].chunk => k = l

\* A new chunk comes last, and its occurrence is the latest of all.
LEMMA MergeNew ==
  ASSUME NEW hits, InTurn(hits), NEW front, FrontDiffers(hits, front),
         NEW n \in 1..Len(hits), NEW m, Merges(m, hits, front, n - 1),
         ~\E i \in DOMAIN m : m[i].chunk = hits[n].chunk
  PROVE  Merges(AddHit(m, hits[n]), hits, front, n)
<1>1. PICK hit \in Hits : hit = hits[n] /\ n \in Nat /\ Len(hits) \in Nat
  BY LenProperties DEF InTurn
<1>2. PICK z \in Nat : z = Len(m) /\ DOMAIN m = 1..z /\ z <= n - 1 /\ m \in Seq(MergedEntries)
  BY LenProperties DEF Merges
<1>3. PICK new \in Seq(MergedEntries) :
        /\ new = AddHit(m, hit) /\ Len(new) = z + 1 /\ DOMAIN new = 1..(z + 1)
        /\ \A i \in 1..z : new[i] = m[i]
        /\ new[z + 1].chunk = hit.chunk /\ new[z + 1].first = hit.hop
        /\ new[z + 1].occurrences = <<Occurrence(hit)>>
  BY <1>1, <1>2, NewChunk
<1>4. \A i \in 1..(z + 1) : i \in 1..z \/ i = z + 1
  OBVIOUS
<1>5. \A i \in 1..z : m[i].chunk # hit.chunk
  BY <1>1, <1>2
<1>6. MergedChunkOnce(new)
  BY <1>2, <1>3, <1>4, <1>5 DEF Merges, MergedChunkOnce
<1>7. OccurrencesInTurn(new)
  <2>1. \A i \in 1..z : /\ new[i].occurrences # <<>> /\ new[i].first = new[i].occurrences[1].hop
                        /\ \A o, p \in DOMAIN new[i].occurrences :
                             o < p => Earlier(new[i].occurrences[o], new[i].occurrences[p])
    BY <1>2, <1>3 DEF Merges, OccurrencesInTurn
  <2>2. /\ new[z + 1].occurrences # <<>>
        /\ new[z + 1].first = new[z + 1].occurrences[1].hop
        /\ DOMAIN new[z + 1].occurrences = {1}
    BY <1>3, OccurrencePlace
  <2>3. \A o, p \in DOMAIN new[z + 1].occurrences : ~(o < p)
    BY <2>2
  <2>4. QED
    BY <1>3, <1>4, <2>1, <2>2, <2>3 DEF OccurrencesInTurn
<1>8. OccurrencesAreHits(new, hits, n)
  <2>1. ASSUME NEW i \in 1..(z + 1), NEW o \in DOMAIN new[i].occurrences
        PROVE  \E k \in 1..n : hits[k].chunk = new[i].chunk /\ new[i].occurrences[o] = Occurrence(hits[k])
    <3>1. CASE i \in 1..z
      <4>1. PICK k \in 1..(n - 1) :
              hits[k].chunk = m[i].chunk /\ m[i].occurrences[o] = Occurrence(hits[k])
        BY <1>2, <1>3, <2>1, <3>1 DEF Merges, OccurrencesAreHits
      <4>2. QED
        BY <1>1, <1>3, <3>1, <4>1
    <3>2. CASE i = z + 1
      <4>1. o = 1
        BY <1>3, <2>1, <3>2
      <4>2. QED
        BY <1>1, <1>3, <3>2, <4>1
    <3>3. QED
      BY <1>4, <3>1, <3>2
  <2>2. QED
    BY <1>3, <2>1 DEF OccurrencesAreHits
<1>9. HitsOccur(new, hits, n)
  <2>1. ASSUME NEW k \in 1..n
        PROVE  \E i \in 1..(z + 1) :
                 /\ new[i].chunk = hits[k].chunk
                 /\ \E o \in DOMAIN new[i].occurrences : new[i].occurrences[o] = Occurrence(hits[k])
    <3>1. CASE k = n
      <4>1. /\ z + 1 \in 1..(z + 1) /\ new[z + 1].chunk = hits[n].chunk
            /\ 1 \in DOMAIN new[z + 1].occurrences
            /\ new[z + 1].occurrences[1] = Occurrence(hits[n])
        BY <1>1, <1>3
      <4>2. QED
        BY <3>1, <4>1
    <3>2. CASE k \in 1..(n - 1)
      <4>1. PICK i \in 1..z :
              /\ m[i].chunk = hits[k].chunk
              /\ \E o \in DOMAIN m[i].occurrences : m[i].occurrences[o] = Occurrence(hits[k])
        BY <1>2, <3>2 DEF Merges, HitsOccur
      <4>2. new[i] = m[i] /\ i \in 1..(z + 1)
        BY <1>3, <4>1
      <4>3. QED
        BY <4>1, <4>2
    <3>3. QED
      BY <1>1, <3>1, <3>2
  <2>2. QED
    BY <1>3, <2>1 DEF HitsOccur
<1>10. FirstSeenFirst(new)
  <2>1. ASSUME NEW i \in 1..z
        PROVE  Earlier(m[i].occurrences[1], Occurrence(hit))
    <3>1. PICK e \in MergedEntries : e = m[i]
      BY <1>2
    <3>2. e.occurrences # <<>> /\ e.occurrences \in Seq(Places)
      BY <1>2, <3>1 DEF Merges, OccurrencesInTurn, MergedEntries
    <3>3. 1 \in DOMAIN e.occurrences
      BY <3>2, LenProperties, EmptySeq
    <3>4. PICK k \in 1..(n - 1) : e.occurrences[1] = Occurrence(hits[k])
      BY <1>2, <3>1, <3>3 DEF Merges, OccurrencesAreHits
    <3>5. k < n /\ k \in 1..Len(hits)
      BY <1>1, <3>4
    <3>6. QED
      BY <1>1, <3>1, <3>4, <3>5 DEF InTurn
  <2>2. ASSUME NEW i \in 1..(z + 1), NEW j \in 1..(z + 1), i < j
        PROVE  Earlier(new[i].occurrences[1], new[j].occurrences[1])
    <3>1. i \in 1..z
      BY <2>2
    <3>2. CASE j \in 1..z
      BY <1>2, <1>3, <2>2, <3>1, <3>2 DEF Merges, FirstSeenFirst
    <3>3. CASE j = z + 1
      <4>1. new[j].occurrences[1] = Occurrence(hit) /\ new[i] = m[i]
        BY <1>3, <3>1, <3>3
      <4>2. QED
        BY <2>1, <3>1, <4>1
    <3>4. QED
      BY <1>4, <3>2, <3>3
  <2>3. QED
    BY <1>3, <2>2 DEF FirstSeenFirst
<1>11. FrontKept(new, hits, front, n)
  <2>1. ASSUME n <= front
        PROVE  z = n - 1
    BY <1>1, <1>2, <2>1 DEF Merges, FrontKept, FrontDiffers
  <2>2. ASSUME NEW i \in 1..n, i <= front
        PROVE  i \in 1..(z + 1) /\ new[i].chunk = hits[i].chunk
    <3>1. CASE i \in 1..(n - 1)
      <4>1. i \in 1..z /\ m[i].chunk = hits[i].chunk
        BY <1>2, <2>2, <3>1 DEF Merges, FrontKept
      <4>2. QED
        BY <1>3, <4>1
    <3>2. CASE i = n
      BY <1>1, <1>3, <2>1, <2>2, <3>2
    <3>3. QED
      BY <1>1, <3>1, <3>2
  <2>3. QED
    BY <1>1, <1>3, <2>1, <2>2 DEF FrontKept
<1>12. QED
  BY <1>1, <1>2, <1>3, <1>6, <1>7, <1>8, <1>9, <1>10, <1>11 DEF Merges

\* A known chunk keeps its place, and its new occurrence is the latest.
LEMMA MergeKnown ==
  ASSUME NEW hits, InTurn(hits), NEW front, FrontDiffers(hits, front),
         NEW n \in 1..Len(hits), NEW m, Merges(m, hits, front, n - 1),
         NEW known \in DOMAIN m, m[known].chunk = hits[n].chunk
  PROVE  Merges(AddHit(m, hits[n]), hits, front, n)
<1>1. PICK hit \in Hits : hit = hits[n] /\ n \in Nat /\ Len(hits) \in Nat
  BY LenProperties DEF InTurn
<1>2. PICK z \in Nat : z = Len(m) /\ DOMAIN m = 1..z /\ z <= n - 1 /\ m \in Seq(MergedEntries)
  BY LenProperties DEF Merges
<1>3. PICK new \in Seq(MergedEntries) :
        /\ new = AddHit(m, hit) /\ Len(new) = z /\ DOMAIN new = 1..z
        /\ \A i \in 1..z : /\ new[i].chunk = m[i].chunk /\ new[i].first = m[i].first
                           /\ i # known => new[i] = m[i]
        /\ new[known].occurrences = Append(m[known].occurrences, Occurrence(hit))
  <2>1. MergedChunkOnce(m)
    BY DEF Merges
  <2>2. QED
    BY <1>1, <1>2, <2>1, KnownChunk
<1>4. PICK occ \in Seq(Places), c \in Nat :
        /\ occ = m[known].occurrences /\ c = Len(occ) /\ DOMAIN occ = 1..c /\ c >= 1
  <2>1. PICK e \in MergedEntries : e = m[known]
    BY <1>2
  <2>2. e.occurrences \in Seq(Places) /\ e.occurrences # <<>>
    BY <1>2, <2>1 DEF Merges, OccurrencesInTurn, MergedEntries
  <2>3. QED
    BY <2>1, <2>2, LenProperties, EmptySeq
<1>5. PICK more \in Seq(Places) :
        /\ more = new[known].occurrences /\ DOMAIN more = 1..(c + 1)
        /\ \A o \in 1..c : more[o] = occ[o]
        /\ more[c + 1] = Occurrence(hit)
  <2>1. Append(occ, Occurrence(hit)) \in Seq(Places)
    BY OccurrencePlace
  <2>2. PICK more \in Seq(Places) : more = Append(occ, Occurrence(hit))
    BY <2>1
  <2>3. /\ Len(more) = c + 1 /\ DOMAIN more = 1..(c + 1)
        /\ \A o \in 1..c : more[o] = occ[o]
        /\ more[c + 1] = Occurrence(hit)
    BY <1>4, <2>2, OccurrencePlace, AppendProperties, LenProperties
  <2>4. more = new[known].occurrences
    BY <1>3, <1>4, <2>2
  <2>5. QED
    BY <2>3, <2>4
<1>6. \A o \in 1..(c + 1) : o \in 1..c \/ o = c + 1
  OBVIOUS
<1>7. \A o \in 1..c : \E k \in 1..(n - 1) :
        hits[k].chunk = m[known].chunk /\ occ[o] = Occurrence(hits[k])
  BY <1>4 DEF Merges, OccurrencesAreHits
<1>8. \A o \in 1..c : Earlier(occ[o], Occurrence(hit))
  <2>1. TAKE o \in 1..c
  <2>2. PICK k \in 1..(n - 1) : occ[o] = Occurrence(hits[k])
    BY <1>7
  <2>3. k \in 1..Len(hits) /\ k < n
    BY <1>1, <2>2
  <2>4. QED
    BY <1>1, <2>2, <2>3 DEF InTurn
<1>9. MergedChunkOnce(new)
  BY <1>2, <1>3 DEF Merges, MergedChunkOnce
<1>10. \A i \in 1..z : new[i].occurrences[1] = m[i].occurrences[1]
  BY <1>3, <1>4, <1>5
<1>11. OccurrencesInTurn(new)
  <2>1. ASSUME NEW i \in 1..z
        PROVE  /\ new[i].occurrences # <<>> /\ new[i].first = new[i].occurrences[1].hop
               /\ \A o, p \in DOMAIN new[i].occurrences :
                    o < p => Earlier(new[i].occurrences[o], new[i].occurrences[p])
    <3>1. /\ m[i].occurrences # <<>> /\ m[i].first = m[i].occurrences[1].hop
          /\ \A o, p \in DOMAIN m[i].occurrences :
               o < p => Earlier(m[i].occurrences[o], m[i].occurrences[p])
      BY <1>2 DEF Merges, OccurrencesInTurn
    <3>2. CASE i # known
      BY <1>3, <3>1, <3>2
    <3>3. CASE i = known
      <4>1. new[i].first = new[i].occurrences[1].hop
        BY <1>3, <1>10, <3>1
      <4>2. more # <<>>
        BY <1>4, <1>5
      <4>3. ASSUME NEW o \in 1..(c + 1), NEW p \in 1..(c + 1), o < p
            PROVE  Earlier(more[o], more[p])
        <5>1. o \in 1..c
          BY <4>3
        <5>2. CASE p \in 1..c
          BY <1>4, <1>5, <3>1, <3>3, <4>3, <5>1, <5>2
        <5>3. CASE p = c + 1
          BY <1>5, <1>8, <5>1, <5>3
        <5>4. QED
          BY <1>6, <5>2, <5>3
      <4>4. QED
        BY <1>5, <3>3, <4>1, <4>2, <4>3
    <3>4. QED
      BY <3>2, <3>3
  <2>2. QED
    BY <1>3, <2>1 DEF OccurrencesInTurn
<1>12. OccurrencesAreHits(new, hits, n)
  <2>1. ASSUME NEW i \in 1..z, NEW o \in DOMAIN new[i].occurrences
        PROVE  \E k \in 1..n : hits[k].chunk = new[i].chunk /\ new[i].occurrences[o] = Occurrence(hits[k])
    <3>1. CASE i # known
      <4>1. new[i] = m[i] /\ i \in DOMAIN m /\ o \in DOMAIN m[i].occurrences
        BY <1>2, <1>3, <2>1, <3>1
      <4>2. OccurrencesAreHits(m, hits, n - 1)
        BY DEF Merges
      <4>3. PICK k \in 1..(n - 1) :
              hits[k].chunk = m[i].chunk /\ m[i].occurrences[o] = Occurrence(hits[k])
        BY <4>1, <4>2 DEF OccurrencesAreHits
      <4>4. k \in 1..n
        BY <1>1
      <4>5. QED
        BY <4>1, <4>3, <4>4
    <3>2. CASE i = known /\ o \in 1..c
      <4>1. PICK k \in 1..(n - 1) : hits[k].chunk = m[known].chunk /\ occ[o] = Occurrence(hits[k])
        BY <1>7, <3>2
      <4>2. k \in 1..n
        BY <1>1
      <4>3. new[i].chunk = m[known].chunk
        BY <1>2, <1>3, <3>2
      <4>4. new[i].occurrences = more /\ more[o] = occ[o]
        BY <1>5, <3>2
      <4>5. QED
        BY <4>1, <4>2, <4>3, <4>4
    <3>3. CASE i = known /\ o = c + 1
      <4>1. new[i].occurrences = more /\ more[o] = Occurrence(hit) /\ n \in 1..n
        BY <1>1, <1>5, <3>3
      <4>2. hits[n].chunk = new[i].chunk
        BY <1>2, <1>3, <3>3
      <4>3. QED
        BY <1>1, <4>1, <4>2
    <3>4. QED
      BY <1>5, <1>6, <2>1, <3>1, <3>2, <3>3
  <2>2. QED
    BY <1>3, <2>1 DEF OccurrencesAreHits
<1>13. HitsOccur(new, hits, n)
  <2>1. ASSUME NEW k \in 1..n
        PROVE  \E i \in 1..z :
                 /\ new[i].chunk = hits[k].chunk
                 /\ \E o \in DOMAIN new[i].occurrences : new[i].occurrences[o] = Occurrence(hits[k])
    <3>1. CASE k = n
      <4>1. /\ known \in 1..z /\ new[known].chunk = hits[n].chunk
            /\ c + 1 \in DOMAIN new[known].occurrences
            /\ new[known].occurrences[c + 1] = Occurrence(hits[n])
        BY <1>1, <1>2, <1>3, <1>4, <1>5
      <4>2. QED
        BY <3>1, <4>1
    <3>2. CASE k \in 1..(n - 1)
      <4>1. PICK i \in 1..z :
              /\ m[i].chunk = hits[k].chunk
              /\ \E o \in DOMAIN m[i].occurrences : m[i].occurrences[o] = Occurrence(hits[k])
        BY <1>2, <3>2 DEF Merges, HitsOccur
      <4>2. PICK o \in DOMAIN m[i].occurrences : m[i].occurrences[o] = Occurrence(hits[k])
        BY <4>1
      <4>3. o \in DOMAIN new[i].occurrences /\ new[i].occurrences[o] = m[i].occurrences[o]
        <5>1. CASE i # known
          BY <1>3, <4>1, <4>2, <5>1
        <5>2. CASE i = known
          <6>1. o \in 1..c
            BY <1>4, <4>2, <5>2
          <6>2. QED
            BY <1>4, <1>5, <5>2, <6>1
        <5>3. QED
          BY <5>1, <5>2
      <4>4. QED
        BY <1>3, <4>1, <4>2, <4>3
    <3>3. QED
      BY <1>1, <3>1, <3>2
  <2>2. DOMAIN new = 1..z
    BY <1>3
  <2>3. QED
    BY <2>1, <2>2 DEF HitsOccur
<1>14. FirstSeenFirst(new)
  <2>1. DOMAIN new = 1..z /\ DOMAIN m = 1..z
    BY <1>2, <1>3
  <2>2. FirstSeenFirst(m)
    BY DEF Merges
  <2>3. QED
    BY <1>10, <2>1, <2>2 DEF FirstSeenFirst
<1>15. FrontKept(new, hits, front, n)
  <2>1. ASSUME n <= front
        PROVE  FALSE
    <3>1. n - 1 <= front /\ z = n - 1
      BY <1>1, <1>2, <2>1 DEF Merges, FrontKept, FrontDiffers
    <3>2. known \in 1..(n - 1) /\ m[known].chunk = hits[known].chunk
      BY <1>1, <1>2, <3>1 DEF Merges, FrontKept, FrontDiffers
    <3>3. n \in 1..front /\ known \in 1..front /\ hits[known].chunk = hits[n].chunk
      BY <1>1, <2>1, <3>2 DEF FrontDiffers
    <3>4. known = n
      BY <3>3 DEF FrontDiffers
    <3>5. QED
      BY <1>1, <3>2, <3>4
  <2>2. ASSUME NEW i \in 1..n, i <= front
        PROVE  i \in 1..z /\ new[i].chunk = hits[i].chunk
    <3>1. i \in 1..(n - 1)
      BY <1>1, <2>1, <2>2
    <3>2. QED
      BY <1>2, <1>3, <2>2, <3>1 DEF Merges, FrontKept
  <2>3. QED
    BY <1>1, <1>3, <2>1, <2>2 DEF FrontKept
<1>16. QED
  BY <1>1, <1>2, <1>3, <1>9, <1>11, <1>12, <1>13, <1>14, <1>15 DEF Merges

\* Adding a hit gives merged entries.
LEMMA AddHitFits ==
  ASSUME NEW m \in Seq(MergedEntries), NEW hit \in Hits
  PROVE  AddHit(m, hit) \in Seq(MergedEntries)
<1>1. CASE ~\E i \in DOMAIN m : m[i].chunk = hit.chunk
  BY <1>1, NewChunk
<1>2. CASE \E i \in DOMAIN m : m[i].chunk = hit.chunk
  <2> DEFINE new == [i \in DOMAIN m |->
                       IF m[i].chunk # hit.chunk THEN m[i]
                       ELSE [m[i] EXCEPT !.occurrences = Append(@, Occurrence(hit))]]
  <2>1. AddHit(m, hit) = new
    BY <1>2 DEF AddHit
  <2>2. PICK n \in Nat : DOMAIN m = 1..n
    BY LenProperties
  <2>3. ASSUME NEW e \in MergedEntries
        PROVE  [e EXCEPT !.occurrences = Append(@, Occurrence(hit))] \in MergedEntries
    <3>1. Append(e.occurrences, Occurrence(hit)) \in Seq(Places)
      BY OccurrencePlace DEF MergedEntries
    <3>2. QED
      BY <3>1 DEF MergedEntries
  <2>4. \A i \in 1..n : m[i] \in MergedEntries
    BY <2>2
  <2>5. new \in [1..n -> MergedEntries]
    BY <2>2, <2>3, <2>4
  <2> HIDE DEF new
  <2>6. QED
    BY <2>1, <2>2, <2>5
<1>3. QED
  BY <1>1, <1>2

\* The greatest of a set of places.
LEMMA Greatest ==
  ASSUME NEW n \in Nat, NEW s \in SUBSET (1..n), s # {}
  PROVE  Max(s) \in s /\ \A x \in s : x <= Max(s)
<1> DEFINE T == {n - x : x \in s}
<1>1. T \in SUBSET Nat /\ T # {}
  <2>1. \A x \in s : n - x \in Nat
    OBVIOUS
  <2>2. QED
    BY <2>1
<1>2. PICK t \in T : \A u \in T : t <= u
  <2> HIDE DEF T
  <2>1. QED
    BY <1>1, LeastNat
<1>3. PICK x \in s : t = n - x
  BY <1>2
<1>4. \A y \in s : x >= y
  <2>1. TAKE y \in s
  <2>2. n - y \in T
    OBVIOUS
  <2>3. QED
    BY <1>2, <1>3, <2>2
<1>5. Max(s) \in s /\ \A y \in s : Max(s) >= y
  BY <1>4 DEF Max
<1>6. QED
  BY <1>5

\* The loop of the merge: the entries after each hit.
LEMMA MergeLoop ==
  ASSUME NEW hits, InTurn(hits)
  PROVE  \E m \in [0..Len(hits) -> Seq(MergedEntries)] :
           /\ m[0] = <<>>
           /\ \A n \in 1..Len(hits) : m[n] = AddHit(m[n - 1], hits[n])
           /\ FoldLeft(AddHit, <<>>, hits) = m[Len(hits)]
<1>1. PICK N \in Nat : N = Len(hits) /\ DOMAIN hits = 1..N /\ hits \in Seq(Hits)
  BY LenProperties DEF InTurn
<1> DEFINE S == 1..N
           D == Seq(MergedEntries)
           pick == [s \in SUBSET S |-> Max(s)]
           step == [p \in S \X D |-> AddHit(p[2], hits[p[1]])]
           loop(f) == f = [s \in SUBSET S |-> IF s = {} THEN <<>>
                              ELSE AddHit(f[s \ {Max(s)}], hits[Max(s)])]
           f == CHOOSE g : loop(g)
<1>2. FoldLeft(AddHit, <<>>, hits) = f[S]
  BY <1>1 DEF FoldLeft, MapThenFoldSet
<1>3. \A s \in SUBSET S : s # {} => Max(s) \in s /\ \A x \in s : x <= Max(s)
  BY <1>1, Greatest
<1>4. \A s \in SUBSET S : pick[s] = Max(s)
  OBVIOUS
<1>5. step \in [S \X D -> D] /\ \A x \in S, y \in D : step[<<x, y>>] = AddHit(y, hits[x])
  <2>1. \A p \in S \X D : p[2] \in D /\ hits[p[1]] \in Hits
    BY <1>1
  <2>2. \A p \in S \X D : AddHit(p[2], hits[p[1]]) \in D
    BY <2>1, AddHitFits
  <2>3. QED
    BY <2>2
<1> HIDE DEF pick, step
<1>6. Foldable(S, D, <<>>, step, pick)
  <2>1. IsFiniteSet(S)
    BY <1>1, FS_Interval
  <2>2. Picks(pick, S)
    BY <1>3, <1>4 DEF Picks
  <2>3. <<>> \in D
    OBVIOUS
  <2>4. QED
    BY <1>5, <2>1, <2>2, <2>3 DEF Foldable
<1> HIDE DEF D
<1>7. PICK g \in [SUBSET S -> D] : IsFold(g, S, D, <<>>, step, pick)
  BY <1>6, FoldExists
<1>8. loop(g)
  <2>1. ASSUME NEW s \in SUBSET S, s # {}
        PROVE  g[s] = AddHit(g[s \ {Max(s)}], hits[Max(s)])
    <3>1. Max(s) \in S /\ Rest(pick, s) = s \ {Max(s)} /\ Rest(pick, s) \in SUBSET S
      BY <1>3, <1>4, <2>1 DEF Rest
    <3>2. g[Rest(pick, s)] \in D
      BY <3>1
    <3>3. g[s] = step[<<pick[s], g[Rest(pick, s)]>>]
      BY <1>7, <2>1, <3>2 DEF IsFold
    <3>4. step[<<Max(s), g[Rest(pick, s)]>>] = AddHit(g[Rest(pick, s)], hits[Max(s)])
      BY <1>5, <3>1, <3>2
    <3>5. QED
      BY <1>4, <3>1, <3>3, <3>4
  <2>2. QED
    BY <1>7, <2>1 DEF IsFold
<1>9. loop(f)
  <2> HIDE DEF loop
  <2>1. QED
    BY <1>8
<1> HIDE DEF f
<1>10. f[{}] = <<>> /\ \A s \in SUBSET S : s # {} => f[s] = AddHit(f[s \ {Max(s)}], hits[Max(s)])
  BY <1>9
<1>11. \A s \in SUBSET S : f[s] \in D
  <2>1. ASSUME NEW s \in SUBSET S, s # {}, f[Rest(pick, s)] \in D
        PROVE  f[s] = step[<<pick[s], f[Rest(pick, s)]>>]
    <3>1. Max(s) \in S /\ Rest(pick, s) = s \ {Max(s)}
      BY <1>3, <1>4, <2>1 DEF Rest
    <3>2. f[s] = AddHit(f[Rest(pick, s)], hits[Max(s)])
      BY <1>10, <2>1, <3>1
    <3>3. QED
      BY <1>4, <1>5, <2>1, <3>1, <3>2
  <2>2. IsFold(f, S, D, <<>>, step, pick)
    BY <1>10, <2>1 DEF IsFold
  <2>3. QED
    BY <1>6, <2>2, FoldTyped
<1> DEFINE m == [n \in 0..N |-> f[1..n]]
<1>12. \A n \in 0..N : 1..n \in SUBSET S
  BY <1>1
<1>13. m \in [0..N -> D]
  BY <1>11, <1>12
<1>14. m[0] = <<>>
  <2>1. 1..0 = {} /\ 0 \in 0..N
    BY <1>1
  <2>2. QED
    BY <1>10, <2>1
<1>15. ASSUME NEW n \in 1..N
       PROVE  m[n] = AddHit(m[n - 1], hits[n])
  <2>1. n \in 0..N /\ n - 1 \in 0..N /\ n \in 1..n
    BY <1>1
  <2> HIDE DEF S
  <2>2. 1..n \in SUBSET S /\ 1..n # {}
    BY <1>12, <2>1
  <2>3. Max(1..n) \in 1..n /\ n <= Max(1..n)
    BY <1>3, <2>1, <2>2
  <2>4. Max(1..n) = n
    BY <2>1, <2>3
  <2>5. (1..n) \ {n} = 1..(n - 1)
    BY <2>1
  <2>6. f[1..n] = AddHit(f[1..(n - 1)], hits[n])
    BY <1>10, <2>2, <2>4, <2>5
  <2>7. m[n] = f[1..n] /\ m[n - 1] = f[1..(n - 1)]
    BY <2>1
  <2>8. QED
    BY <2>6, <2>7
<1>16. m[N] = f[S]
  BY <1>1
<1> HIDE DEF m
<1>17. QED
  BY <1>1, <1>2, <1>13, <1>14, <1>15, <1>16 DEF D

\* What the merge of all hits gives.
LEMMA MergeResult ==
  ASSUME NEW hits, InTurn(hits), NEW front, FrontDiffers(hits, front)
  PROVE  Merges(FoldLeft(AddHit, <<>>, hits), hits, front, Len(hits))
<1>1. PICK N \in Nat : N = Len(hits)
  BY LenProperties DEF InTurn
<1>2. PICK m \in [0..N -> Seq(MergedEntries)] :
        /\ m[0] = <<>>
        /\ \A n \in 1..N : m[n] = AddHit(m[n - 1], hits[n])
        /\ FoldLeft(AddHit, <<>>, hits) = m[N]
  BY <1>1, MergeLoop
<1> DEFINE bad == {n \in 0..N : ~Merges(m[n], hits, front, n)}
<1>3. Merges(m[0], hits, front, 0)
  <2>1. m[0] = <<>> /\ DOMAIN <<>> = {} /\ Len(<<>>) = 0 /\ <<>> \in Seq(MergedEntries)
    BY <1>2
  <2>2. 1..0 = {}
    OBVIOUS
  <2>3. QED
    BY <2>1, <2>2 DEF Merges, MergedChunkOnce, OccurrencesInTurn, OccurrencesAreHits, HitsOccur,
                      FirstSeenFirst, FrontKept
<1>4. ASSUME NEW n \in 1..N, Merges(m[n - 1], hits, front, n - 1)
      PROVE  Merges(m[n], hits, front, n)
  <2>1. n \in 1..Len(hits) /\ m[n] = AddHit(m[n - 1], hits[n])
    BY <1>1, <1>2
  <2>2. CASE \E i \in DOMAIN m[n - 1] : m[n - 1][i].chunk = hits[n].chunk
    BY <1>4, <2>1, <2>2, MergeKnown
  <2>3. CASE ~\E i \in DOMAIN m[n - 1] : m[n - 1][i].chunk = hits[n].chunk
    BY <1>4, <2>1, <2>3, MergeNew
  <2>4. QED
    BY <2>2, <2>3
<1>5. ASSUME bad # {}
      PROVE  FALSE
  <2>1. bad \in SUBSET Nat
    OBVIOUS
  <2>2. PICK n \in bad : \A k \in bad : n <= k
    <3> HIDE DEF bad
    <3>1. QED
      BY <1>5, <2>1, LeastNat
  <2>3. n \in 0..N /\ ~Merges(m[n], hits, front, n) /\ n # 0
    BY <1>3, <2>2
  <2>4. n \in 1..N /\ n - 1 \in 0..N /\ n - 1 \notin bad
    <3>1. ~(n <= n - 1)
      BY <2>3
    <3> HIDE DEF bad
    <3>2. QED
      BY <2>2, <2>3, <3>1
  <2>5. QED
    BY <1>4, <2>3, <2>4
<1>6. N \in 0..N
  BY <1>1
<1>7. QED
  BY <1>1, <1>2, <1>5, <1>6

Short(s) == Len(s) \in {1, 2}
FlatIsWhole(s) ==
  /\ Len(s) = 1 => FlattenSeq(s) = s[1]
  /\ Len(s) = 2 => FlattenSeq(s) = s[1] \o s[2]

\* The flattening of one or two sequences.
LEMMA FlatOneOrTwo ==
  ASSUME NEW s, Short(s)
  PROVE  FlatIsWhole(s)
<1>1. PICK n \in {1, 2} : n = Len(s)
  BY DEF Short
<1> DEFINE flat(f) == f = [i \in 1..n |-> IF i = 1 THEN s[i] ELSE f[i - 1] \o s[i]]
           f == CHOOSE g : flat(g)
           g == [i \in 1..n |-> IF i = 1 THEN s[1] ELSE s[1] \o s[2]]
<1>2. FlattenSeq(s) = f[n]
  BY <1>1 DEF FlattenSeq
<1>3. flat(g)
  <2>1. \A i \in 1..n : i = 1 \/ (i = 2 /\ 1 \in 1..n /\ i - 1 = 1)
    BY <1>1
  <2>2. \A i \in 1..n : g[i] = IF i = 1 THEN s[1] ELSE s[1] \o s[2]
    OBVIOUS
  <2>3. \A i \in 1..n : g[i] = IF i = 1 THEN s[i] ELSE g[i - 1] \o s[i]
    <3> HIDE DEF g
    <3>1. QED
      BY <2>1, <2>2
  <2>4. g = [i \in 1..n |-> g[i]]
    OBVIOUS
  <2> HIDE DEF g
  <2>5. QED
    BY <2>3, <2>4
<1>4. flat(f)
  <2> HIDE DEF flat, g
  <2>1. QED
    BY <1>3
<1> HIDE DEF f, g
<1>5. \A i \in 1..n : f[i] = IF i = 1 THEN s[i] ELSE f[i - 1] \o s[i]
  BY <1>4
<1>6. f[1] = s[1]
  <2>1. 1 \in 1..n
    BY <1>1
  <2>2. QED
    BY <1>5, <2>1
<1>7. n = 2 => f[2] = s[1] \o s[2]
  <2>1. SUFFICES ASSUME n = 2
                 PROVE  f[2] = s[1] \o s[2]
    OBVIOUS
  <2>2. 2 \in 1..n /\ 2 - 1 = 1 /\ ~(2 = 1)
    BY <2>1
  <2>3. f[2] = f[2 - 1] \o s[2]
    BY <1>5, <2>2
  <2>4. QED
    BY <1>6, <2>2, <2>3
<1>8. QED
  BY <1>1, <1>2, <1>6, <1>7 DEF FlatIsWhole

HitAt(x, h, r) == [chunk |-> x[r], hop |-> h, rank |-> r]
HitSeq(x, h) == [r \in DOMAIN x |-> HitAt(x, h, r)]

\* A hit is of the chunk and at the place that it is made from.
LEMMA HitParts ==
  ASSUME NEW x, NEW h, NEW r
  PROVE  /\ HitAt(x, h, r).chunk = x[r]
         /\ Occurrence(HitAt(x, h, r)).hop = h /\ Occurrence(HitAt(x, h, r)).rank = r
         /\ Occurrence(HitAt(x, h, r)) = [hop |-> h, rank |-> r]
BY DEF HitAt, Occurrence

\* The hits of one retrieval.
LEMMA HitSeqFits ==
  ASSUME NEW x \in Seq(Chunk), NEW h \in Nat
  PROVE  /\ HitSeq(x, h) \in Seq(Hits) /\ Len(HitSeq(x, h)) = Len(x) /\ Len(x) \in Nat
         /\ \A r \in 1..Len(x) : HitSeq(x, h)[r] = HitAt(x, h, r)
<1>1. PICK n \in Nat : n = Len(x) /\ DOMAIN x = 1..n
  BY LenProperties
<1>2. \A r \in 1..n : HitAt(x, h, r) \in Hits
  BY <1>1 DEF Hits, HitAt
<1>3. HitSeq(x, h) = [r \in 1..n |-> HitAt(x, h, r)]
  BY <1>1 DEF HitSeq
<1>4. QED
  BY <1>1, <1>2, <1>3

TwoHopHits(hits, x, y, a, b) ==
  hits = HitSeq(x, 1) \o HitSeq(y, 2) /\ a = Len(x) /\ b = Len(y)

TwoHopsListed(hits, x, y, a, b) ==
  /\ a \in Nat /\ b \in Nat /\ hits \in Seq(Hits) /\ Len(hits) = a + b
  /\ \A k \in 1..a : hits[k] = HitAt(x, 1, k)
  /\ \A k \in 1..b : hits[a + k] = HitAt(y, 2, k)
  /\ \A k \in 1..(a + b) : k \in 1..a \/ \E r \in 1..b : k = a + r

\* The hits of two retrievals, the second of which may have none.
LEMMA TwoHops ==
  ASSUME NEW x \in Seq(Chunk), NEW y \in Seq(Chunk), NEW hits, NEW a, NEW b,
         TwoHopHits(hits, x, y, a, b)
  PROVE  TwoHopsListed(hits, x, y, a, b)
<1> DEFINE s == HitSeq(x, 1)
           t == HitSeq(y, 2)
<1>1. /\ s \in Seq(Hits) /\ t \in Seq(Hits)
      /\ Len(s) = a /\ Len(t) = b /\ a \in Nat /\ b \in Nat
      /\ \A k \in 1..a : s[k] = HitAt(x, 1, k)
      /\ \A k \in 1..b : t[k] = HitAt(y, 2, k)
  <2>1. 1 \in Nat /\ 2 \in Nat
    OBVIOUS
  <2>2. /\ s \in Seq(Hits) /\ Len(s) = Len(x) /\ Len(x) \in Nat
        /\ \A k \in 1..Len(x) : s[k] = HitAt(x, 1, k)
    BY HitSeqFits
  <2>3. /\ t \in Seq(Hits) /\ Len(t) = Len(y) /\ Len(y) \in Nat
        /\ \A k \in 1..Len(y) : t[k] = HitAt(y, 2, k)
    BY HitSeqFits
  <2>4. QED
    BY <2>2, <2>3 DEF TwoHopHits
<1>7. hits = s \o t
  BY DEF TwoHopHits
<1> HIDE DEF s, t
<1>2. /\ hits \in Seq(Hits) /\ Len(hits) = a + b
      /\ \A k \in 1..(a + b) : hits[k] = IF k <= a THEN s[k] ELSE t[k - a]
  <2>1. s \in Seq(Hits) /\ t \in Seq(Hits) /\ Len(s) = a /\ Len(t) = b
    BY <1>1
  <2>2. /\ s \o t \in Seq(Hits)
        /\ Len(s \o t) = Len(s) + Len(t)
        /\ \A i \in 1..Len(s) + Len(t) :
             (s \o t)[i] = IF i <= Len(s) THEN s[i] ELSE t[i - Len(s)]
    BY <2>1, ConcatProperties, Zenon
  <2>3. QED
    BY <1>7, <2>1, <2>2
<1>3. \A k \in 1..b : a + k \in 1..(a + b) /\ ~(a + k <= a) /\ (a + k) - a = k
  BY <1>1
<1>4. \A k \in 1..a : k \in 1..(a + b) /\ k <= a
  BY <1>1
<1>5. \A k \in 1..(a + b) : k \in 1..a \/ (k - a \in 1..b /\ k = a + (k - a))
  BY <1>1
<1>6. QED
  BY <1>1, <1>2, <1>3, <1>4, <1>5 DEF TwoHopsListed

\* They come in turn.
LEMMA TwoHopsInTurn ==
  ASSUME NEW x \in Seq(Chunk), NEW y \in Seq(Chunk), NEW hits,
         hits = HitSeq(x, 1) \o HitSeq(y, 2),
         \A i, j \in DOMAIN x : x[i] = x[j] => i = j
  PROVE  InTurn(hits) /\ FrontDiffers(hits, Len(x))
<1>1. PICK a, b : TwoHopHits(hits, x, y, a, b) /\ a = Len(x) /\ b = Len(y)
  BY DEF TwoHopHits
<1>10. TwoHopsListed(hits, x, y, a, b)
  BY <1>1, TwoHops
<1>2. /\ a \in Nat /\ b \in Nat /\ hits \in Seq(Hits) /\ Len(hits) = a + b
      /\ \A k \in 1..a : hits[k] = HitAt(x, 1, k)
      /\ \A k \in 1..b : hits[a + k] = HitAt(y, 2, k)
      /\ \A k \in 1..(a + b) : k \in 1..a \/ \E r \in 1..b : k = a + r
  BY <1>10 DEF TwoHopsListed
<1>3. \A k \in 1..a : Occurrence(hits[k]).hop = 1 /\ Occurrence(hits[k]).rank = k
  BY <1>2, HitParts
<1>4. \A k \in 1..b : Occurrence(hits[a + k]).hop = 2 /\ Occurrence(hits[a + k]).rank = k
  BY <1>2, HitParts
<1>5. ASSUME NEW k \in 1..(a + b), NEW l \in 1..(a + b), k < l
      PROVE  Earlier(Occurrence(hits[k]), Occurrence(hits[l]))
  <2>1. CASE k \in 1..a /\ l \in 1..a
    BY <1>3, <1>5, <2>1 DEF Earlier
  <2>2. ASSUME k \in 1..a, NEW r \in 1..b, l = a + r
        PROVE  Earlier(Occurrence(hits[k]), Occurrence(hits[l]))
    <3>1. Occurrence(hits[k]).hop = 1 /\ Occurrence(hits[l]).hop = 2
      BY <1>3, <1>4, <2>2
    <3>2. 1 < 2
      OBVIOUS
    <3>3. QED
      BY <3>1, <3>2, Zenon DEF Earlier
  <2>3. ASSUME NEW q \in 1..b, k = a + q, NEW r \in 1..b, l = a + r
        PROVE  Earlier(Occurrence(hits[k]), Occurrence(hits[l]))
    <3>1. q < r
      BY <1>2, <1>5, <2>3
    <3>2. QED
      BY <1>4, <2>3, <3>1 DEF Earlier
  <2>4. ASSUME l \in 1..a, NEW r \in 1..b, k = a + r
        PROVE  FALSE
    BY <1>2, <1>5, <2>4
  <2>5. QED
    BY <1>2, <2>1, <2>2, <2>3, <2>4
<1>6. InTurn(hits)
  BY <1>2, <1>5 DEF InTurn
<1>7. \A k, l \in 1..a : hits[k].chunk = hits[l].chunk => k = l
  <2>1. DOMAIN x = 1..a
    BY <1>1, LenProperties
  <2>2. \A k \in 1..a : hits[k].chunk = x[k]
    BY <1>2, HitParts
  <2>3. QED
    BY <2>1, <2>2
<1>8. a \in 0..Len(hits)
  BY <1>2
<1>9. QED
  BY <1>1, <1>6, <1>7, <1>8 DEF FrontDiffers

\* A run makes one or two retrievals; what follows is about such sequences of them.
OneOrTwo(hs) ==
  /\ hs \in Seq(ToSet(hs)) /\ Len(hs) \in {1, 2}
  /\ \A h \in 1..Len(hs) : HopFits(hs[h])

SecondResults(hs) == IF Len(hs) = 2 THEN hs[2].results ELSE <<>>

\* The results of the retrievals of a run.
LEMMA HopResults ==
  ASSUME NEW hs, OneOrTwo(hs)
  PROVE  /\ DOMAIN hs = 1..Len(hs) /\ 1 \in 1..Len(hs)
         /\ \A h \in 1..Len(hs) : hs[h].results \in Seq(Chunk)
         /\ SecondResults(hs) \in Seq(Chunk)
         /\ \A i, j \in DOMAIN hs[1].results : hs[1].results[i] = hs[1].results[j] => i = j
<1>1. PICK n \in {1, 2} : n = Len(hs)
  BY DEF OneOrTwo
<1>2. DOMAIN hs = 1..n /\ 1 \in 1..n /\ (n = 2 => 2 \in 1..n)
  <2>1. hs \in Seq(ToSet(hs))
    BY DEF OneOrTwo
  <2>2. DOMAIN hs = 1..n
    BY <1>1, <2>1, LenProperties
  <2>3. QED
    BY <1>1, <2>2
<1>3. \A h \in 1..n : HopFits(hs[h])
  BY <1>1 DEF OneOrTwo
<1>4. \A h \in 1..n : hs[h].results \in Seq(Chunk)
  BY <1>3, ResultsFit
<1>5. SecondResults(hs) \in Seq(Chunk)
  <2>1. <<>> \in Seq(Chunk)
    OBVIOUS
  <2>2. QED
    BY <1>1, <1>2, <1>4, <2>1 DEF SecondResults
<1>6. \A i, j \in DOMAIN hs[1].results : hs[1].results[i] = hs[1].results[j] => i = j
  BY <1>2, <1>3, ResultsFit
<1>7. QED
  BY <1>1, <1>2, <1>4, <1>5, <1>6

\* The hits of the hops are those of the first, then those of the second if there is one.
LEMMA HitsOfHops ==
  ASSUME NEW hs, OneOrTwo(hs)
  PROVE  HitsOf(hs) = HitSeq(hs[1].results, 1) \o HitSeq(SecondResults(hs), 2)
<1> DEFINE flat == [h \in DOMAIN hs |-> HitSeq(hs[h].results, h)]
<1>1. PICK n \in {1, 2} : n = Len(hs)
  BY DEF OneOrTwo
<1>2. DOMAIN hs = 1..n /\ 1 \in 1..n /\ (n = 2 => 2 \in 1..n)
  BY <1>1, HopResults
<1>3. HitsOf(hs) = FlattenSeq(flat)
  BY DEF HitsOf, HitSeq, HitAt
<1>4. /\ Len(flat) = n /\ flat[1] = HitSeq(hs[1].results, 1)
      /\ n = 2 => flat[2] = HitSeq(hs[2].results, 2)
  <2>1. flat \in [1..n -> {HitSeq(hs[h].results, h) : h \in DOMAIN hs}]
    BY <1>2
  <2>2. Len(flat) = n
    BY <1>1, <2>1
  <2>3. QED
    BY <1>2, <2>2
<1> HIDE DEF flat
<1>5. FlatIsWhole(flat)
  <2>1. Short(flat)
    BY <1>4 DEF Short
  <2>2. QED
    BY <2>1, FlatOneOrTwo
<1>6. CASE n = 2
  <2>1. FlattenSeq(flat) = flat[1] \o flat[2]
    <3>1. Len(flat) = 2
      BY <1>4, <1>6
    <3>2. QED
      BY <1>5, <3>1, Zenon DEF FlatIsWhole
  <2>2. SecondResults(hs) = hs[2].results
    BY <1>1, <1>6 DEF SecondResults
  <2>3. QED
    BY <1>3, <1>4, <1>6, <2>1, <2>2, Zenon
<1>7. CASE n = 1
  <2>1. SecondResults(hs) = <<>>
    BY <1>1, <1>7 DEF SecondResults
  <2>2. HitSeq(<<>>, 2) = <<>>
    BY DEF HitSeq
  <2>3. HitSeq(hs[1].results, 1) \in Seq(Hits)
    BY <1>1, <1>2, HopResults, HitSeqFits
  <2>4. HitSeq(hs[1].results, 1) \o <<>> = HitSeq(hs[1].results, 1)
    BY <2>3, ConcatEmptySeq
  <2>5. FlattenSeq(flat) = flat[1]
    <3>1. Len(flat) = 1
      BY <1>4, <1>7
    <3>2. QED
      BY <1>5, <3>1, Zenon DEF FlatIsWhole
  <2>6. QED
    BY <1>3, <1>4, <2>1, <2>2, <2>4, <2>5, Zenon
<1>8. QED
  BY <1>1, <1>6, <1>7

\* Each hit is one of a hop, and each result of a hop is a hit.
HitsAreResults(hits, hs) ==
  /\ \A k \in 1..Len(hits) : \E h \in 1..Len(hs) : \E r \in 1..Len(hs[h].results) :
       hits[k] = HitAt(hs[h].results, h, r)
  /\ \A h \in 1..Len(hs) : \A r \in 1..Len(hs[h].results) : \E k \in 1..Len(hits) :
       hits[k] = HitAt(hs[h].results, h, r)

\* The hits of the retrievals come in turn, those of the first in front.
LEMMA HopsInTurn ==
  ASSUME NEW hs, OneOrTwo(hs)
  PROVE  /\ InTurn(HitsOf(hs)) /\ FrontDiffers(HitsOf(hs), Len(hs[1].results))
         /\ \A r \in 1..Len(hs[1].results) : HitsOf(hs)[r].chunk = hs[1].results[r]
         /\ HitsAreResults(HitsOf(hs), hs)
<1>1. PICK x \in Seq(Chunk), y \in Seq(Chunk) : x = hs[1].results /\ y = SecondResults(hs)
  BY HopResults
<1>2. PICK hits : hits = HitsOf(hs) /\ hits = HitSeq(x, 1) \o HitSeq(y, 2)
  BY <1>1, HitsOfHops
<1>3. PICK a, b : TwoHopHits(hits, x, y, a, b) /\ a = Len(x) /\ b = Len(y)
  BY <1>2 DEF TwoHopHits
<1>4. TwoHopsListed(hits, x, y, a, b)
  BY <1>3, TwoHops
<1>5. InTurn(hits) /\ FrontDiffers(hits, Len(x))
  <2>1. \A i, j \in DOMAIN x : x[i] = x[j] => i = j
    BY <1>1, HopResults
  <2>2. QED
    BY <1>2, <2>1, TwoHopsInTurn
<1>6. \A r \in 1..a : hits[r].chunk = x[r]
  BY <1>4, HitParts DEF TwoHopsListed
<1>7. PICK n \in {1, 2} : n = Len(hs)
  BY DEF OneOrTwo
<1>8. n = 2 => y = hs[2].results
  BY <1>1, <1>7 DEF SecondResults
<1>9. n = 1 => b = 0
  BY <1>1, <1>3, <1>7 DEF SecondResults
<1>10. /\ a \in Nat /\ b \in Nat /\ Len(hits) = a + b
       /\ \A k \in 1..a : hits[k] = HitAt(x, 1, k)
       /\ \A k \in 1..b : hits[a + k] = HitAt(y, 2, k)
       /\ \A k \in 1..(a + b) : k \in 1..a \/ \E r \in 1..b : k = a + r
  BY <1>4 DEF TwoHopsListed
<1>11. ASSUME NEW k \in 1..(a + b)
       PROVE  \E h \in 1..n : \E r \in 1..Len(hs[h].results) : hits[k] = HitAt(hs[h].results, h, r)
  <2>1. CASE k \in 1..a
    <3>1. hits[k] = HitAt(hs[1].results, 1, k) /\ k \in 1..Len(hs[1].results) /\ 1 \in 1..n
      BY <1>1, <1>3, <1>10, <2>1
    <3>2. QED
      BY <3>1
  <2>2. ASSUME NEW r \in 1..b, k = a + r
        PROVE  \E h \in 1..n : \E q \in 1..Len(hs[h].results) : hits[k] = HitAt(hs[h].results, h, q)
    <3>1. n = 2
      BY <1>7, <1>9, <1>10, <2>2
    <3>2. hits[k] = HitAt(hs[2].results, 2, r) /\ r \in 1..Len(hs[2].results) /\ 2 \in 1..n
      BY <1>3, <1>8, <1>10, <2>2, <3>1
    <3>3. QED
      BY <3>2
  <2>3. QED
    BY <1>10, <2>1, <2>2
<1>12. ASSUME NEW h \in 1..n, NEW r \in 1..Len(hs[h].results)
       PROVE  \E k \in 1..(a + b) : hits[k] = HitAt(hs[h].results, h, r)
  <2>1. CASE h = 1
    <3>1. r \in 1..a
      BY <1>1, <1>3, <2>1
    <3>2. hits[r] = HitAt(hs[h].results, h, r) /\ r \in 1..(a + b)
      BY <1>1, <1>10, <2>1, <3>1
    <3>3. QED
      BY <3>2
  <2>2. CASE h = 2
    <3>1. n = 2
      BY <1>7, <2>2
    <3>2. r \in 1..b
      BY <1>3, <1>8, <2>2, <3>1
    <3>3. hits[a + r] = HitAt(hs[h].results, h, r) /\ a + r \in 1..(a + b)
      BY <1>8, <1>10, <2>2, <3>1, <3>2
    <3>4. QED
      BY <3>3
  <2>3. QED
    BY <1>7, <2>1, <2>2
<1>13. HitsAreResults(hits, hs)
  BY <1>7, <1>10, <1>11, <1>12 DEF HitsAreResults
<1>14. QED
  BY <1>1, <1>2, <1>3, <1>5, <1>6, <1>13

\* What MergeKeepsEveryHit says of the merge m of the retrievals hs.
FirstHopInFront(m, hs) == FirstOf(Len(hs[1].results), MergedChunks(m)) = hs[1].results
ChunksOfHops(m, hs) == ToSet(MergedChunks(m)) = UNION {ToSet(hs[h].results) : h \in DOMAIN hs}
OccursOnce(m, hs, h, r) ==
  \E i \in DOMAIN m :
    /\ m[i].chunk = hs[h].results[r]
    /\ Cardinality({k \in DOMAIN m[i].occurrences :
                      m[i].occurrences[k] = [hop |-> h, rank |-> r]}) = 1
EachHitOnce(m, hs) ==
  \A h \in DOMAIN hs : \A r \in DOMAIN hs[h].results : OccursOnce(m, hs, h, r)
InOrderOfAppearance(m) ==
  \A i, j \in DOMAIN m : i < j =>
    LET a == m[i].occurrences[1]  b == m[j].occurrences[1]
    IN a.hop < b.hop \/ (a.hop = b.hop /\ a.rank < b.rank)

KeepsEveryHit(m, hs) ==
  /\ FirstHopInFront(m, hs) /\ ChunksOfHops(m, hs)
  /\ EachHitOnce(m, hs) /\ InOrderOfAppearance(m)

\* The merge of the hits of one or two retrievals.
LEMMA MergeOfHops ==
  ASSUME NEW hs, OneOrTwo(hs)
  PROVE  Merges(Merge(hs), HitsOf(hs), Len(hs[1].results), Len(HitsOf(hs)))
BY HopsInTurn, MergeResult DEF Merge

\* The merged entries have the chunks of the hits.
LEMMA MergedHaveHits ==
  ASSUME NEW hs, OneOrTwo(hs), NEW m, NEW hits, NEW front, NEW n,
         hits = HitsOf(hs), n = Len(hits), Merges(m, hits, front, n)
  PROVE  ChunksOfHops(m, hs)
<1>1. HitsAreResults(hits, hs)
  BY HopsInTurn
<1>2. /\ OccurrencesInTurn(m) /\ OccurrencesAreHits(m, hits, n) /\ HitsOccur(m, hits, n)
      /\ m \in Seq(MergedEntries)
  BY DEF Merges
<1>3. ToSet(MergedChunks(m)) = {m[i].chunk : i \in DOMAIN m}
  BY DEF ToSet, MergedChunks
<1>4. \A h \in DOMAIN hs : DOMAIN hs[h].results = 1..Len(hs[h].results)
  BY HopResults, LenProperties
<1>5. DOMAIN hs = 1..Len(hs)
  BY HopResults
<1>6. ASSUME NEW i \in DOMAIN m
      PROVE  \E h \in DOMAIN hs : m[i].chunk \in ToSet(hs[h].results)
  <2>1. PICK e \in MergedEntries : e = m[i]
    BY <1>2
  <2>2. 1 \in DOMAIN e.occurrences
    <3>1. e.occurrences # <<>> /\ e.occurrences \in Seq(Places)
      BY <1>2, <2>1 DEF OccurrencesInTurn, MergedEntries
    <3>2. QED
      BY <3>1, LenProperties, EmptySeq
  <2>3. PICK k \in 1..n : hits[k].chunk = m[i].chunk
    BY <1>2, <2>1, <2>2 DEF OccurrencesAreHits
  <2>4. PICK h \in 1..Len(hs) : \E r \in 1..Len(hs[h].results) :
          hits[k] = HitAt(hs[h].results, h, r)
    BY <1>1 DEF HitsAreResults
  <2>5. PICK r \in DOMAIN hs[h].results : m[i].chunk = hs[h].results[r]
    BY <1>4, <1>5, <2>3, <2>4, HitParts
  <2>6. QED
    BY <1>5, <2>5 DEF ToSet
<1>7. ASSUME NEW h \in DOMAIN hs, NEW r \in DOMAIN hs[h].results
      PROVE  \E i \in DOMAIN m : m[i].chunk = hs[h].results[r]
  <2>1. PICK k \in 1..n : hits[k] = HitAt(hs[h].results, h, r)
    BY <1>1, <1>4, <1>5 DEF HitsAreResults
  <2>2. hits[k].chunk = hs[h].results[r]
    BY <2>1, HitParts
  <2>3. QED
    BY <1>2, <2>2 DEF HitsOccur
<1>8. UNION {ToSet(hs[h].results) : h \in DOMAIN hs}
        = UNION {{hs[h].results[r] : r \in DOMAIN hs[h].results} : h \in DOMAIN hs}
  BY DEF ToSet
<1>9. QED
  <2>1. \A c : c \in {m[i].chunk : i \in DOMAIN m}
               => c \in UNION {ToSet(hs[h].results) : h \in DOMAIN hs}
    BY <1>6
  <2>2. \A c : c \in UNION {ToSet(hs[h].results) : h \in DOMAIN hs}
               => c \in {m[i].chunk : i \in DOMAIN m}
    BY <1>7 DEF ToSet
  <2>3. QED
    BY <1>3, <2>1, <2>2 DEF ChunksOfHops

\* Each hit is an occurrence of its chunk, once.
LEMMA HitOccursOnce ==
  ASSUME NEW hs, OneOrTwo(hs), NEW m, NEW hits, NEW front, NEW n,
         hits = HitsOf(hs), n = Len(hits), Merges(m, hits, front, n),
         NEW h \in DOMAIN hs, NEW r \in DOMAIN hs[h].results
  PROVE  OccursOnce(m, hs, h, r)
<1>1. PICK k \in 1..n : hits[k] = HitAt(hs[h].results, h, r)
  <2>1. HitsAreResults(hits, hs)
    BY HopsInTurn
  <2>2. DOMAIN hs[h].results = 1..Len(hs[h].results) /\ DOMAIN hs = 1..Len(hs)
    BY HopResults, LenProperties
  <2>3. QED
    BY <2>1, <2>2 DEF HitsAreResults
<1> DEFINE place == [hop |-> h, rank |-> r]
<1>2. hits[k].chunk = hs[h].results[r] /\ Occurrence(hits[k]) = place
  BY <1>1, HitParts
<1> HIDE DEF place
<1>3. PICK i \in DOMAIN m :
        /\ m[i].chunk = hs[h].results[r]
        /\ \E o \in DOMAIN m[i].occurrences : m[i].occurrences[o] = place
  BY <1>2 DEF Merges, HitsOccur
<1>4. PICK o \in DOMAIN m[i].occurrences : m[i].occurrences[o] = place
  BY <1>3
<1>5. PICK e \in MergedEntries : e = m[i]
  BY DEF Merges
<1>6. ASSUME NEW p \in DOMAIN e.occurrences, e.occurrences[p] = place
      PROVE  p = o
  <2>1. \A q, s \in DOMAIN e.occurrences : q < s => Earlier(e.occurrences[q], e.occurrences[s])
    BY <1>5 DEF Merges, OccurrencesInTurn
  <2>2. ~Earlier(place, place)
    <3>1. h \in Nat /\ r \in Nat
      BY HopResults, LenProperties DEF OneOrTwo
    <3>2. place.hop = h /\ place.rank = r
      BY DEF place
    <3>3. QED
      BY <3>1, <3>2 DEF Earlier
  <2>3. p \in Nat /\ o \in Nat
    BY <1>4, <1>5 DEF MergedEntries
  <2>4. ~(p < o) /\ ~(o < p)
    BY <1>4, <1>5, <1>6, <2>1, <2>2
  <2>5. QED
    BY <2>3, <2>4
<1>7. {p \in DOMAIN m[i].occurrences : m[i].occurrences[p] = place} = {o}
  BY <1>4, <1>5, <1>6
<1>8. Cardinality({p \in DOMAIN m[i].occurrences : m[i].occurrences[p] = place}) = 1
  <2>1. Cardinality({o}) = 1
    BY FS_Singleton
  <2>2. QED
    BY <1>7, <2>1
<1>9. QED
  BY <1>3, <1>8 DEF OccursOnce, place

\* The merged ranking starts with the results of the first retrieval.
LEMMA FirstHopFirst ==
  ASSUME NEW hs, OneOrTwo(hs), NEW m, NEW hits, NEW front, NEW n,
         hits = HitsOf(hs), n = Len(hits), front = Len(hs[1].results),
         Merges(m, hits, front, n)
  PROVE  FirstHopInFront(m, hs)
<1>1. PICK x \in Seq(Chunk) : x = hs[1].results
  BY HopResults
<1>2. front \in Nat /\ front = Len(x) /\ DOMAIN x = 1..front
  BY <1>1, LenProperties
<1>3. /\ InTurn(hits) /\ FrontDiffers(hits, front)
      /\ \A r \in 1..front : hits[r].chunk = x[r]
  BY <1>1, HopsInTurn
<1>4. n \in Nat /\ front <= n
  <2>1. n \in Nat
    BY <1>3, LenProperties DEF InTurn
  <2>2. QED
    BY <1>2, <1>3, <2>1 DEF FrontDiffers
<1>5. PICK c : c = MergedChunks(m)
  OBVIOUS
<1>6. PICK l \in Nat : l = Len(m) /\ DOMAIN m = 1..l /\ \A i \in 1..l : m[i] \in MergedEntries
  BY LenProperties DEF Merges
<1>7. c \in Seq(Chunk) /\ Len(c) = l /\ \A i \in 1..l : c[i] = m[i].chunk
  <2>1. \A i \in 1..l : m[i].chunk \in Chunk
    BY <1>6 DEF MergedEntries
  <2>2. c = [i \in 1..l |-> m[i].chunk]
    BY <1>5, <1>6 DEF MergedChunks
  <2>3. QED
    BY <2>1, <2>2
<1>8. \A i \in 1..front : i \in 1..l /\ m[i].chunk = x[i]
  <2>1. \A i \in 1..n : i <= front => i \in DOMAIN m /\ m[i].chunk = hits[i].chunk
    BY DEF Merges, FrontKept
  <2>2. \A i \in 1..front : i \in 1..n /\ i <= front
    BY <1>2, <1>4
  <2>3. QED
    BY <1>3, <1>6, <2>1, <2>2
<1>9. front <= l
  <2>1. front = 0 \/ front \in 1..front
    BY <1>2
  <2>2. QED
    BY <1>6, <1>8, <2>1
<1>10. PICK f \in Seq(Chunk) :
         /\ f = FirstOf(front, c) /\ Len(f) = front /\ DOMAIN f = 1..front
         /\ \A i \in 1..l : i <= front => f[i] = c[i]
  BY <1>2, <1>7, <1>9, Firsts
<1>11. \A i \in 1..front : f[i] = x[i]
  BY <1>2, <1>6, <1>7, <1>8, <1>10
<1>12. f = x
  BY <1>2, <1>10, <1>11, SeqEqual
<1>13. QED
  BY <1>1, <1>5, <1>10, <1>12 DEF FirstHopInFront

\* The merge of one or two retrievals keeps every hit.
LEMMA MergeKeeps ==
  ASSUME NEW hs, OneOrTwo(hs)
  PROVE  KeepsEveryHit(Merge(hs), hs)
<1>1. PICK m, hits, front, n :
        /\ m = Merge(hs) /\ hits = HitsOf(hs) /\ front = Len(hs[1].results) /\ n = Len(hits)
        /\ Merges(m, hits, front, n)
  BY MergeOfHops
<1>2. FirstHopInFront(m, hs)
  BY <1>1, FirstHopFirst
<1>3. ChunksOfHops(m, hs)
  BY <1>1, MergedHaveHits
<1>4. EachHitOnce(m, hs)
  BY <1>1, HitOccursOnce DEF EachHitOnce
<1>5. InOrderOfAppearance(m)
  BY <1>1 DEF Merges, FirstSeenFirst, Earlier, InOrderOfAppearance
<1>6. QED
  BY <1>1, <1>2, <1>3, <1>4, <1>5 DEF KeepsEveryHit

\* The merge is what its records demand.
LEMMA MergeIsValid ==
  ASSUME NEW hs, OneOrTwo(hs)
  PROVE  MergeValid(hs, Merge(hs))
<1>1. PICK m, hits, front, n :
        /\ m = Merge(hs) /\ hits = HitsOf(hs) /\ front = Len(hs[1].results) /\ n = Len(hits)
        /\ Merges(m, hits, front, n)
  BY MergeOfHops
<1>2. \A i \in DOMAIN m :
        \A k, l \in DOMAIN m[i].occurrences :
          k < l => m[i].occurrences[k].hop <= m[i].occurrences[l].hop
  <2>8. TAKE i \in DOMAIN m
  <2>1. PICK e \in MergedEntries : e = m[i]
    BY <1>1 DEF Merges
  <2>2. PICK o \in Seq(Places) : o = m[i].occurrences
    BY <2>1 DEF MergedEntries
  <2>3. \A k, l \in DOMAIN o : k < l => Earlier(o[k], o[l])
    BY <1>1, <2>2 DEF Merges, OccurrencesInTurn
  <2>4. \A k \in DOMAIN o : o[k] \in Places
    BY <2>2
  <2>5. \A a, b \in Places : Earlier(a, b) => a.hop <= b.hop
    BY DEF Earlier, Places
  <2>6. \A k, l \in DOMAIN o : k < l => o[k].hop <= o[l].hop
    BY <2>3, <2>4, <2>5
  <2>7. QED
    BY <2>2, <2>6
<1>3. QED
  BY <1>1, <1>2 DEF MergeValid, Merges, MergedChunkOnce, OccurrencesInTurn

\* A sequence that is one of its own elements, so that no set of them has to be named.
IsListed(s) == s \in Seq(ToSet(s))

\* An element more.
LEMMA AppendListed ==
  ASSUME NEW s, IsListed(s), NEW e
  PROVE  /\ IsListed(Append(s, e)) /\ Len(s) \in Nat /\ Len(Append(s, e)) = Len(s) + 1
         /\ \A i \in 1..Len(s) : Append(s, e)[i] = s[i]
         /\ Append(s, e)[Len(s) + 1] = e
<1> DEFINE X == ToSet(s) \cup {e}
           t == Append(s, e)
<1>1. s \in Seq(X) /\ e \in X
  <2>1. ToSet(s) \subseteq X
    OBVIOUS
  <2>2. QED
    BY <2>1 DEF IsListed
<1> HIDE DEF X
<1>2. /\ t \in Seq(X) /\ Len(s) \in Nat /\ Len(t) = Len(s) + 1
      /\ \A i \in 1..Len(s) : t[i] = s[i]
      /\ t[Len(s) + 1] = e
  BY <1>1, AppendProperties, LenProperties
<1> HIDE DEF t
<1>3. IsListed(t)
  <2>1. PICK n \in Nat : n = Len(t) /\ DOMAIN t = 1..n /\ t \in [1..n -> X]
    BY <1>2, LenProperties
  <2>2. \A i \in 1..n : t[i] \in ToSet(t)
    BY <2>1 DEF ToSet
  <2>3. t \in [1..n -> ToSet(t)]
    BY <2>1, <2>2
  <2>4. QED
    BY <2>3 DEF IsListed
<1>4. QED
  BY <1>2, <1>3 DEF t

\* A retrieval more.
LEMMA OneMoreHop ==
  ASSUME NEW hs, hs = <<>> \/ (OneOrTwo(hs) /\ Len(hs) = 1), NEW h, HopFits(h)
  PROVE  /\ OneOrTwo(Append(hs, h)) /\ Append(hs, h) # <<>>
         /\ Len(Append(hs, h)) = IF hs = <<>> THEN 1 ELSE 2
<1>1. IsListed(hs) /\ Len(hs) = IF hs = <<>> THEN 0 ELSE 1
  <2>1. CASE hs = <<>>
    BY <2>1 DEF IsListed
  <2>2. CASE hs # <<>>
    BY <2>2 DEF IsListed, OneOrTwo
  <2>3. QED
    BY <2>1, <2>2
<1>2. PICK t : t = Append(hs, h)
  OBVIOUS
<1>3. /\ IsListed(t) /\ Len(t) = Len(hs) + 1 /\ t[Len(hs) + 1] = h
      /\ \A i \in 1..Len(hs) : t[i] = hs[i]
  BY <1>1, <1>2, AppendListed
<1>4. Len(t) = IF hs = <<>> THEN 1 ELSE 2
  BY <1>1, <1>3
<1>5. \A i \in 1..Len(t) : HopFits(t[i])
  <2>1. CASE hs = <<>>
    <3>1. Len(t) = 1 /\ t[1] = h
      BY <1>1, <1>3, <2>1
    <3>2. QED
      BY <3>1
  <2>2. CASE hs # <<>>
    <3>1. Len(t) = 2 /\ t[2] = h /\ t[1] = hs[1]
      BY <1>1, <1>3, <2>2
    <3>2. HopFits(hs[1])
      BY <2>2 DEF OneOrTwo
    <3>3. \A i \in 1..2 : i = 1 \/ i = 2
      OBVIOUS
    <3>4. QED
      BY <3>1, <3>2, <3>3
  <2>3. QED
    BY <2>1, <2>2
<1>6. t # <<>>
  <2>1. Len(t) # 0
    BY <1>4
  <2>2. QED
    BY <2>1
<1>7. QED
  BY <1>2, <1>3, <1>4, <1>5, <1>6 DEF IsListed, OneOrTwo
-----------------------------------------------------------------------------
Working == {"analyze", "search", "decide", "prune"}
Answering == {"answer", "trace", "done"}
Phases == {"retrieve", "control", "merge", "failed"} \cup Working \cup Answering

HopsMade == hops = <<>> \/ OneOrTwo(hops)
MergeMade == merged = <<>> \/ (hops # <<>> /\ merged = Merge(hops))
PassesListed == IsListed(passes)

\* How far a run is, which the retrievals, passes and merge of each phase say.
AtRetrieve ==
  phase = "retrieve" =>
    /\ merged = <<>>
    /\ hops # <<>> => Len(hops) = 1 /\ Requested
    /\ run.system = "epsa" => Len(passes) = Len(hops)

AtControl ==
  phase = "control" => run.system = "adaptive" /\ Len(hops) = 1 /\ merged = <<>>

AtMerge ==
  phase = "merge" =>
    /\ merged = <<>> /\ hops # <<>> /\ (Len(hops) = 2 <=> Requested)
    /\ run.system = "epsa" => Len(passes) = 1

FirstPass == Len(hops) = 1 /\ passes = <<>> /\ merged = <<>>
SecondPass == Len(hops) = 2 /\ Len(passes) = 1 /\ Requested /\ merged = Merge(hops)

AtWork == phase \in Working => run.system = "epsa" /\ (FirstPass \/ SecondPass)

AtAnswer ==
  phase \in Answering =>
    /\ hops # <<>> /\ merged = Merge(hops)
    /\ Len(hops) = 2 <=> Requested
    /\ run.system = "epsa" => Len(passes) = Len(hops)

AtEnd == phase = "done" /\ run.system = "epsa" => EPSATraceValid

RunInv ==
  /\ run \in Runs /\ phase \in Phases
  /\ HopsMade /\ MergeMade /\ PassesListed
  /\ AtRetrieve /\ AtControl /\ AtMerge /\ AtWork /\ AtAnswer /\ AtEnd

\* A run is of one of the three systems.
LEMMA SystemKnown ==
  ASSUME run \in Runs
  PROVE  run.system \in {"fixed", "adaptive", "epsa"}
BY SystemsAssumption

\* What the second retrieval waits for, in each system.
LEMMA RequestedBy ==
  /\ run.system = "fixed" => ~Requested
  /\ run.system = "adaptive" => (Requested <=> control.query)
  /\ run.system = "epsa" => (Requested <=> (passes # <<>> /\ WantsHop(passes[1])))
<1>1. ASSUME run.system = "fixed"
      PROVE  ~Requested
  BY <1>1 DEF Requested
<1>2. ASSUME run.system = "adaptive"
      PROVE  Requested <=> control.query
  BY <1>2 DEF Requested
<1>3. ASSUME run.system = "epsa"
      PROVE  Requested <=> (passes # <<>> /\ WantsHop(passes[1]))
  BY <1>3 DEF Requested, WantsHop
<1>4. QED
  BY <1>1, <1>2, <1>3

\* It stays what it was while the run, the control and the passes do.
LEMMA RequestedStays ==
  ASSUME UNCHANGED <<run, control, passes>>
  PROVE  Requested' <=> Requested
BY DEF Requested

\* The start of a run.
LEMMA InitRunInv == Init => RunInv
<1> SUFFICES ASSUME Init
             PROVE  RunInv
  OBVIOUS
<1>1. IsListed(<<>>) /\ Len(<<>>) = 0
  BY DEF IsListed
<1>2. HopsMade /\ MergeMade /\ PassesListed
  BY <1>1 DEF Init, HopsMade, MergeMade, PassesListed
<1>3. AtRetrieve
  BY <1>1 DEF Init, AtRetrieve
<1>4. QED
  BY <1>2, <1>3
  DEF Init, RunInv, Phases, Working, Answering, AtControl, AtMerge, AtWork, AtAnswer, AtEnd

\* A failure changes nothing but the phase.
LEMMA FailRunInv ==
  ASSUME RunInv, NEW reason, Fail(reason)
  PROVE  RunInv'
<1>1. phase' = "failed" /\ UNCHANGED <<run, hops, control, merged, work, passes, context, terminal>>
  BY DEF Fail
<1>2. run' \in Runs /\ phase' \in Phases
  BY <1>1 DEF RunInv, Phases
<1>3. HopsMade' /\ MergeMade' /\ PassesListed'
  BY <1>1 DEF RunInv, HopsMade, MergeMade, PassesListed
<1>4. (AtRetrieve /\ AtControl /\ AtMerge /\ AtWork /\ AtAnswer /\ AtEnd)'
  BY <1>1 DEF AtRetrieve, AtControl, AtMerge, AtWork, AtAnswer, AtEnd, Working, Answering
<1>5. QED
  BY <1>2, <1>3, <1>4 DEF RunInv

\* A retrieval: the first leads on by the system, the second to the merge.
LEMMA RetrieveRunInv ==
  ASSUME RunInv, RetrieveHop
  PROVE  RunInv'
<1>0. PICK lexical \in Lexical, dense \in Dense :
         \E query : hops' = Append(hops, Retrieve(query, lexical, dense))
  BY DEF RetrieveHop
<1>1. PICK query : hops' = Append(hops, Retrieve(query, lexical, dense))
  BY <1>0
<1>2. HopFits(Retrieve(query, lexical, dense))
  BY SystemsAssumption, RetrievalFits
<1>3. /\ phase = "retrieve" /\ UNCHANGED <<run, control, merged, work, passes, context, terminal, failure>>
      /\ phase' = IF hops # <<>> \/ run.system = "fixed" THEN "merge"
                  ELSE IF run.system = "adaptive" THEN "control"
                  ELSE "analyze"
  BY DEF RetrieveHop
<1>4. /\ merged = <<>> /\ (hops # <<>> => Len(hops) = 1 /\ Requested)
      /\ run.system = "epsa" => Len(passes) = Len(hops)
      /\ run \in Runs /\ HopsMade /\ PassesListed
  BY <1>3 DEF RunInv, AtRetrieve
<1>5. OneOrTwo(hops') /\ hops' # <<>> /\ Len(hops') = IF hops = <<>> THEN 1 ELSE 2
  <2>1. hops = <<>> \/ (OneOrTwo(hops) /\ Len(hops) = 1)
    BY <1>4 DEF HopsMade
  <2>2. QED
    BY <1>1, <1>2, <2>1, OneMoreHop
<1>6. run.system \in {"fixed", "adaptive", "epsa"}
  BY <1>4, SystemKnown
<1>7. run' \in Runs /\ HopsMade' /\ MergeMade' /\ PassesListed'
  BY <1>3, <1>4, <1>5 DEF HopsMade, MergeMade, PassesListed
<1>8. phase' \in {"merge", "control", "analyze"}
  BY <1>3
<1>9. (AtRetrieve /\ AtAnswer /\ AtEnd)' /\ phase' \in Phases
  BY <1>8 DEF AtRetrieve, AtAnswer, AtEnd, Answering, Working, Phases
<1>10. AtControl'
  BY <1>3, <1>4, <1>5, <1>6 DEF AtControl
<1>11. AtMerge'
  <2>1. SUFFICES ASSUME phase' = "merge"
                 PROVE  /\ merged' = <<>> /\ hops' # <<>> /\ (Len(hops') = 2 <=> Requested')
                        /\ run'.system = "epsa" => Len(passes') = 1
    BY DEF AtMerge
  <2>2. Requested' <=> Requested
    BY <1>3, RequestedStays
  <2>3. CASE hops = <<>>
    <3>1. run.system = "fixed" /\ ~Requested
      BY <1>3, <1>6, <2>1, <2>3, RequestedBy
    <3>2. QED
      BY <1>3, <1>4, <1>5, <2>2, <2>3, <3>1
  <2>4. CASE hops # <<>>
    BY <1>3, <1>4, <1>5, <2>2, <2>4
  <2>5. QED
    BY <2>3, <2>4
<1>12. AtWork'
  <2>1. SUFFICES ASSUME phase' = "analyze"
                 PROVE  (run.system = "epsa" /\ FirstPass)'
    BY <1>8 DEF AtWork, Working
  <2>2. hops = <<>> /\ run.system = "epsa"
    BY <1>3, <1>6, <2>1
  <2>3. Len(passes) = 0
    BY <1>4, <2>2
  <2>4. passes = <<>>
    BY <1>4, <2>3, EmptySeq DEF PassesListed, IsListed
  <2>5. QED
    BY <1>3, <1>4, <1>5, <2>2, <2>4 DEF FirstPass
<1>13. QED
  BY <1>7, <1>9, <1>10, <1>11, <1>12 DEF RunInv

\* The controller asks for a second retrieval, or the run goes on to the merge.
LEMMA ControlRunInv ==
  ASSUME RunInv, Control
  PROVE  RunInv'
<1>1. PICK o \in ControlOutputs :
        IF ControlAccepted(o)
        THEN /\ control' = o
             /\ phase' = IF o.query THEN "retrieve" ELSE "merge"
             /\ UNCHANGED <<run, hops, merged, work, passes, context, terminal, failure>>
        ELSE Fail("controller")
  BY DEF Control
<1>2. CASE ~ControlAccepted(o)
  BY <1>1, <1>2, FailRunInv
<1>3. CASE ControlAccepted(o)
  <2>1. /\ control' = o /\ phase' = IF o.query THEN "retrieve" ELSE "merge"
        /\ UNCHANGED <<run, hops, merged, work, passes, context, terminal, failure>>
    BY <1>1, <1>3
  <2>2. /\ run.system = "adaptive" /\ Len(hops) = 1 /\ merged = <<>>
        /\ run \in Runs /\ HopsMade /\ PassesListed
    BY DEF RunInv, AtControl, Control
  <2>3. hops # <<>>
    BY <2>2
  <2>4. Requested' <=> o.query
    <3>1. run'.system = "adaptive" => (Requested' <=> control'.query)
      BY DEF Requested
    <3>2. QED
      BY <2>1, <2>2, <3>1
  <2>5. run' \in Runs /\ HopsMade' /\ MergeMade' /\ PassesListed'
    BY <2>1, <2>2 DEF HopsMade, MergeMade, PassesListed
  <2>6. CASE o.query
    <3>1. phase' = "retrieve"
      BY <2>1, <2>6
    <3>2. AtRetrieve'
      BY <2>1, <2>2, <2>3, <2>4, <2>6 DEF AtRetrieve
    <3>3. QED
      BY <2>5, <3>1, <3>2
      DEF RunInv, AtControl, AtMerge, AtWork, AtAnswer, AtEnd, Working, Answering, Phases
  <2>7. CASE ~o.query
    <3>1. phase' = "merge"
      BY <2>1, <2>7
    <3>2. AtMerge'
      BY <2>1, <2>2, <2>3, <2>4, <2>7 DEF AtMerge
    <3>3. QED
      BY <2>5, <3>1, <3>2
      DEF RunInv, AtControl, AtRetrieve, AtWork, AtAnswer, AtEnd, Working, Answering, Phases
  <2>8. QED
    BY <2>6, <2>7
<1>4. QED
  BY <1>2, <1>3

\* The merge: a second pass follows if there was a second retrieval for EPSA.
LEMMA MergeRunInv ==
  ASSUME RunInv, MergeHops
  PROVE  RunInv'
<1>1. /\ phase = "merge" /\ merged = <<>> /\ hops # <<>> /\ (Len(hops) = 2 <=> Requested)
      /\ run.system = "epsa" => Len(passes) = 1
      /\ run \in Runs /\ OneOrTwo(hops) /\ PassesListed
  BY DEF RunInv, MergeHops, AtMerge, HopsMade
<1>2. MergeValid(hops, Merge(hops))
  BY <1>1, MergeIsValid
<1>3. /\ merged' = Merge(hops)
      /\ phase' = IF run.system = "epsa" /\ Len(hops) = 2 THEN "analyze" ELSE "answer"
      /\ UNCHANGED <<run, hops, control, work, passes, context, terminal, failure>>
  BY <1>2 DEF MergeHops
<1>4. Requested' <=> Requested
  BY <1>3, RequestedStays
<1>5. run' \in Runs /\ HopsMade' /\ MergeMade' /\ PassesListed'
  BY <1>1, <1>3 DEF HopsMade, MergeMade, PassesListed
<1>6. CASE run.system = "epsa" /\ Len(hops) = 2
  <2>1. phase' = "analyze"
    BY <1>3, <1>6
  <2>2. SecondPass'
    BY <1>1, <1>3, <1>4, <1>6 DEF SecondPass
  <2>3. AtWork'
    BY <1>3, <1>6, <2>2 DEF AtWork
  <2>4. QED
    BY <1>5, <2>1, <2>3
    DEF RunInv, AtRetrieve, AtControl, AtMerge, AtAnswer, AtEnd, Answering, Working, Phases
<1>7. CASE ~(run.system = "epsa" /\ Len(hops) = 2)
  <2>1. phase' = "answer"
    BY <1>3, <1>7
  <2>2. run.system = "epsa" => Len(passes) = Len(hops)
    BY <1>1, <1>7 DEF OneOrTwo
  <2>3. AtAnswer'
    BY <1>1, <1>3, <1>4, <2>2 DEF AtAnswer
  <2>4. QED
    BY <1>5, <2>1, <2>3
    DEF RunInv, AtRetrieve, AtControl, AtMerge, AtWork, AtEnd, Answering, Working, Phases
<1>8. QED
  BY <1>6, <1>7

\* A step within a pass.
LEMMA WorkRunInv ==
  ASSUME RunInv, phase \in Working, phase' \in Working,
         UNCHANGED <<run, hops, control, merged, passes, context, terminal, failure>>
  PROVE  RunInv'
<1>1. Requested' <=> Requested
  BY RequestedStays
<1>2. run' \in Runs /\ HopsMade' /\ MergeMade' /\ PassesListed' /\ phase' \in Phases
  BY DEF RunInv, HopsMade, MergeMade, PassesListed, Phases
<1>3. run.system = "epsa" /\ (FirstPass \/ SecondPass)
  BY DEF RunInv, AtWork
<1>4. (run.system = "epsa" /\ (FirstPass \/ SecondPass))'
  BY <1>1, <1>3 DEF FirstPass, SecondPass
<1>5. (AtWork /\ AtRetrieve /\ AtControl /\ AtMerge /\ AtAnswer /\ AtEnd)'
  BY <1>4 DEF AtRetrieve, AtControl, AtMerge, AtWork, AtAnswer, AtEnd, Answering, Working
<1>6. QED
  BY <1>2, <1>5 DEF RunInv

\* The end of a pass: the first may ask for a second retrieval, the second never does.
LEMMA FinishRunInv ==
  ASSUME RunInv, FinishPass
  PROVE  RunInv'
<1> DEFINE pass == [chunks |-> PassInput, sufficient |-> work.decision.sufficient,
                    best |-> work.decision.best, selected |-> work.decision.selected,
                    context |-> Prune(work.decision, work.units),
                    query |-> IF passes = <<>> THEN NextQuery(work.decision, A) ELSE NoQuery]
           kept == /\ passes' = Append(passes, pass)
                   /\ work' = NoWork
                   /\ phase' = IF passes # <<>> THEN "answer"
                               ELSE IF WantsHop(pass) THEN "retrieve"
                               ELSE "merge"
                   /\ UNCHANGED <<run, hops, control, merged, context, terminal, failure>>
<1>1. kept \/ Fail("contract")
  BY DEF FinishPass
<1> HIDE DEF pass
<1>2. CASE Fail("contract")
  BY <1>2, FailRunInv
<1>3. CASE kept
  <2>1. /\ run.system = "epsa" /\ (FirstPass \/ SecondPass)
        /\ run \in Runs /\ HopsMade /\ MergeMade /\ PassesListed
    BY DEF RunInv, FinishPass, AtWork, Working
  <2>2. /\ PassesListed' /\ Len(passes) \in Nat /\ Len(passes') = Len(passes) + 1
        /\ \A i \in 1..Len(passes) : passes'[i] = passes[i]
        /\ passes'[Len(passes) + 1] = pass
    BY <1>3, <2>1, AppendListed DEF PassesListed
  <2>3. passes' # <<>>
    <3>1. Len(passes') # 0
      BY <2>2
    <3>2. QED
      BY <3>1
  <2>4. run' \in Runs /\ HopsMade' /\ MergeMade' /\ run'.system = "epsa" /\ UNCHANGED <<hops, merged>>
    BY <1>3, <2>1 DEF HopsMade, MergeMade
  <2>5. Requested' <=> WantsHop(passes'[1])
    <3>1. run'.system = "epsa" => (Requested' <=> (passes' # <<>> /\ WantsHop(passes'[1])))
      BY DEF Requested, WantsHop
    <3>2. QED
      BY <2>3, <2>4, <3>1
  <2>6. CASE FirstPass
    <3>1. Len(hops) = 1 /\ passes = <<>> /\ merged = <<>> /\ Len(passes) = 0
      BY <2>6 DEF FirstPass
    <3>2. Len(passes') = 1 /\ passes'[1] = pass /\ hops' # <<>> /\ Len(hops') = 1
      BY <2>2, <2>4, <3>1
    <3>3. Requested' <=> WantsHop(pass)
      BY <2>5, <3>2
    <3>4. CASE WantsHop(pass)
      <4>1. phase' = "retrieve"
        BY <1>3, <3>1, <3>4
      <4>2. AtRetrieve'
        BY <2>4, <3>1, <3>2, <3>3, <3>4 DEF AtRetrieve
      <4>3. QED
        BY <2>2, <2>4, <4>1, <4>2
        DEF RunInv, AtControl, AtMerge, AtWork, AtAnswer, AtEnd, Answering, Working, Phases
    <3>5. CASE ~WantsHop(pass)
      <4>1. phase' = "merge"
        BY <1>3, <3>1, <3>5
      <4>2. AtMerge'
        BY <2>4, <3>1, <3>2, <3>3, <3>5 DEF AtMerge
      <4>3. QED
        BY <2>2, <2>4, <4>1, <4>2
        DEF RunInv, AtControl, AtRetrieve, AtWork, AtAnswer, AtEnd, Answering, Working, Phases
    <3>6. QED
      BY <3>4, <3>5
  <2>7. CASE SecondPass
    <3>1. Len(hops) = 2 /\ Len(passes) = 1 /\ Requested /\ merged = Merge(hops)
      BY <2>7 DEF SecondPass
    <3>2. passes # <<>> /\ hops # <<>>
      BY <3>1
    <3>3. phase' = "answer"
      BY <1>3, <3>2
    <3>4. WantsHop(passes[1])
      BY <2>1, <3>1, RequestedBy
    <3>5. Requested' /\ Len(passes') = 2
      BY <2>2, <2>5, <3>1, <3>4
    <3>6. AtAnswer'
      BY <2>4, <3>1, <3>2, <3>5 DEF AtAnswer
    <3>7. QED
      BY <2>2, <2>4, <3>3, <3>6
      DEF RunInv, AtControl, AtRetrieve, AtMerge, AtWork, AtEnd, Answering, Working, Phases
  <2>8. QED
    BY <2>1, <2>6, <2>7
<1>4. QED
  BY <1>1, <1>2, <1>3

\* The answer and the trace keep what the run did; the trace of EPSA is validated.
LEMMA AnswerRunInv ==
  ASSUME RunInv, phase \in {"answer", "trace"},
         \/ phase' = "trace"
         \/ phase' = "done" /\ (run'.system = "epsa" => EPSATraceValid'),
         UNCHANGED <<run, hops, control, merged, passes, failure>>
  PROVE  RunInv'
<1>1. Requested' <=> Requested
  BY RequestedStays
<1>2. run' \in Runs /\ HopsMade' /\ MergeMade' /\ PassesListed' /\ phase' \in Phases
  BY DEF RunInv, HopsMade, MergeMade, PassesListed, Phases, Answering
<1>3. AtAnswer'
  BY <1>1 DEF RunInv, AtAnswer, Answering
<1>4. (AtWork /\ AtRetrieve /\ AtControl /\ AtMerge /\ AtEnd)'
  BY DEF AtRetrieve, AtControl, AtMerge, AtWork, AtEnd, Working
<1>5. QED
  BY <1>2, <1>3, <1>4 DEF RunInv

\* The trace of a run.
LEMMA TraceRunInv ==
  ASSUME RunInv, Trace
  PROVE  RunInv'
<1> DEFINE fits == CASE run.system = "epsa" -> EPSATraceValid
                     [] run.system = "adaptive" -> AdaptiveTraceValid
                     [] OTHER -> BaselineTraceValid
<1>1. CASE fits
  <2>1. /\ phase = "trace" /\ phase' = "done"
        /\ UNCHANGED <<run, hops, control, merged, work, passes, context, terminal, failure>>
    BY <1>1 DEF Trace
  <2>2. run.system = "epsa" => EPSATraceValid
    BY <1>1
  <2>3. run'.system = "epsa" => EPSATraceValid'
    BY <2>1, <2>2
    DEF EPSATraceValid, HopsFit, PrunedText, TerminalState
  <2>4. QED
    BY <2>1, <2>3, AnswerRunInv
<1>2. CASE ~fits
  BY <1>2, FailRunInv DEF Trace
<1>3. QED
  BY <1>1, <1>2

\* Every step keeps the invariant.
LEMMA NextRunInv ==
  ASSUME RunInv, [Next]_vars
  PROVE  RunInv'
<1>1. CASE ProviderFails
  BY <1>1, FailRunInv DEF ProviderFails
<1>2. CASE RetrieveHop
  BY <1>2, RetrieveRunInv
<1>3. CASE Control
  BY <1>3, ControlRunInv
<1>4. CASE MergeHops
  BY <1>4, MergeRunInv
<1>5. CASE Analyze
  <2>1. /\ phase = "analyze" /\ phase' = "search"
        /\ UNCHANGED <<run, hops, control, merged, passes, context, terminal, failure>>
    BY <1>5 DEF Analyze
  <2>2. QED
    BY <2>1, WorkRunInv DEF Working
<1>6. CASE SearchPaths
  <2>1. CASE Fail("contract")
    BY <2>1, FailRunInv
  <2>2. CASE ~Fail("contract")
    <3>1. /\ phase = "search" /\ phase' = "decide"
          /\ UNCHANGED <<run, hops, control, merged, passes, context, terminal, failure>>
      BY <1>6, <2>2 DEF SearchPaths
    <3>2. QED
      BY <3>1, WorkRunInv DEF Working
  <2>3. QED
    BY <2>1, <2>2
<1>7. CASE DecidePass
  <2>1. CASE Fail("decide")
    BY <2>1, FailRunInv
  <2>2. CASE ~Fail("decide")
    <3>1. /\ phase = "decide" /\ phase' = "prune"
          /\ UNCHANGED <<run, hops, control, merged, passes, context, terminal, failure>>
      BY <1>7, <2>2 DEF DecidePass
    <3>2. QED
      BY <3>1, WorkRunInv DEF Working
  <2>3. QED
    BY <2>1, <2>2
<1>8. CASE FinishPass
  BY <1>8, FinishRunInv
<1>9. CASE Answer
  <2>1. /\ phase = "answer" /\ phase' = "trace"
        /\ UNCHANGED <<run, hops, control, merged, passes, failure>>
    BY <1>9 DEF Answer
  <2>2. QED
    BY <2>1, AnswerRunInv
<1>10. CASE Trace
  BY <1>10, TraceRunInv
<1>11. CASE UNCHANGED vars
  <2>1. Requested' <=> Requested
    BY <1>11, RequestedStays DEF vars
  <2>2. (HopsMade /\ MergeMade /\ PassesListed /\ AtRetrieve /\ AtControl /\ AtMerge)'
    BY <1>11, <2>1
    DEF vars, RunInv, HopsMade, MergeMade, PassesListed, AtRetrieve, AtControl, AtMerge
  <2>3. (AtWork /\ AtAnswer)'
    BY <1>11, <2>1 DEF vars, RunInv, AtWork, AtAnswer, FirstPass, SecondPass
  <2>4. AtEnd'
    BY <1>11 DEF vars, RunInv, AtEnd, EPSATraceValid, HopsFit, PrunedText, TerminalState
  <2>5. QED
    BY <1>11, <2>2, <2>3, <2>4 DEF vars, RunInv
<1>12. QED
  BY <1>1, <1>2, <1>3, <1>4, <1>5, <1>6, <1>7, <1>8, <1>9, <1>10, <1>11 DEF Next

\* The retrievals, passes and merge of a run are those of its phase, whichever system runs,
\* whatever the providers return.
THEOREM RunsFollowThePlan == Spec => []RunInv
<1>1. Init => RunInv
  BY InitRunInv
<1>2. RunInv /\ [Next]_vars => RunInv'
  BY NextRunInv
<1>3. QED
  BY <1>1, <1>2, PTL DEF Spec

\* HybridRetriever.retrieve: in every retrieval, for all scores and weights, what is better
\* in every branch comes first, and the ranking is as long as the branches allow.
THEOREM FusionAlwaysRespectsBranches == Spec => []FusionRespectsBranches
<1>1. RunInv => FusionRespectsBranches
  <2>1. SUFFICES ASSUME RunInv
                 PROVE  \A h \in DOMAIN hops : RespectsBranches(hops[h])
    BY DEF FusionRespectsBranches, RespectsBranches
  <2>2. CASE hops = <<>>
    BY <2>2
  <2>3. CASE OneOrTwo(hops)
    <3>1. DOMAIN hops = 1..Len(hops) /\ \A h \in 1..Len(hops) : HopFits(hops[h])
      BY <2>3, HopResults DEF OneOrTwo
    <3>2. QED
      BY <3>1, HopRespects
  <2>4. QED
    BY <2>1, <2>2, <2>3 DEF RunInv, HopsMade
<1>2. QED
  BY <1>1, RunsFollowThePlan, PTL

\* merge_retrieval_hops: the merge of any retrievals keeps the first in front, every chunk
\* at its first appearance and every hit once.
THEOREM MergeAlwaysKeepsEveryHit == Spec => []MergeKeepsEveryHit
<1>1. RunInv => MergeKeepsEveryHit
  <2>1. SUFFICES ASSUME RunInv, merged # <<>>
                 PROVE  KeepsEveryHit(merged, hops)
    BY DEF MergeKeepsEveryHit, KeepsEveryHit, FirstHopInFront, ChunksOfHops, EachHitOnce,
           OccursOnce, InOrderOfAppearance
  <2>2. OneOrTwo(hops) /\ merged = Merge(hops)
    BY <2>1 DEF RunInv, HopsMade, MergeMade
  <2>3. QED
    BY <2>2, MergeKeeps
<1>2. QED
  BY <1>1, RunsFollowThePlan, PTL

\* What the merge builds meets the contracts of its records.
MergeFits == phase = "merge" => MergeValid(hops, Merge(hops))

\* merge_retrieval_hops never refuses its own result, of any retrievals.
THEOREM MergeAlwaysFits == Spec => []MergeFits
<1>1. RunInv => MergeFits
  BY MergeIsValid DEF RunInv, HopsMade, AtMerge, MergeFits
<1>2. QED
  BY <1>1, RunsFollowThePlan, PTL

\* A finished EPSA run: its last pass saw all chunks, and its terminal state says how often
\* it retrieved and whether that was enough.
LEMMA EndAsNeeded ==
  ASSUME RunInv, phase = "done", run.system = "epsa"
  PROVE  /\ context.pruned = Last(passes).context
         /\ ToSet(Last(passes).chunks) = UNION {ToSet(hops[h].results) : h \in DOMAIN hops}
         /\ terminal \in {"sufficient_hop1", "sufficient_hop2"} <=> Last(passes).sufficient
         /\ terminal \in {"sufficient_hop2", "insufficient_after_hop2"} <=> Len(hops) = 2
<1>1. /\ EPSATraceValid /\ hops # <<>> /\ merged = Merge(hops) /\ (Len(hops) = 2 <=> Requested)
      /\ Len(passes) = Len(hops) /\ OneOrTwo(hops)
  BY DEF RunInv, AtEnd, AtAnswer, Answering, HopsMade
<1>2. PICK n \in {1, 2} : n = Len(hops) /\ n = Len(passes)
  BY <1>1 DEF OneOrTwo
<1>3. Last(passes) = passes[n]
  BY <1>2 DEF Last
<1>4. context.pruned = Last(passes).context
  BY <1>1 DEF EPSATraceValid, PrunedText
<1>5. ToSet(Last(passes).chunks) = UNION {ToSet(hops[h].results) : h \in DOMAIN hops}
  <2>1. CASE n = 1
    <3>1. Last(passes).chunks = hops[1].results
      BY <1>1, <1>3, <2>1 DEF EPSATraceValid
    <3>2. DOMAIN hops = {1}
      <4>1. DOMAIN hops = 1..Len(hops) /\ Len(hops) = 1
        BY <1>1, <1>2, <2>1, HopResults
      <4>2. 1..1 = {1}
        OBVIOUS
      <4>3. QED
        BY <4>1, <4>2
    <3>3. QED
      BY <3>1, <3>2
  <2>2. CASE n = 2
    <3>1. Last(passes).chunks = MergedChunks(merged)
      BY <1>1, <1>2, <1>3, <2>2 DEF EPSATraceValid
    <3>2. QED
      BY <1>1, <3>1, MergeKeeps DEF KeepsEveryHit, ChunksOfHops
  <2>3. QED
    BY <2>1, <2>2
<1>6. passes # <<>> /\ WantsHop(passes[1]) <=> n = 2
  <2>1. passes # <<>>
    BY <1>2
  <2>2. QED
    BY <1>1, <1>2, <2>1, RequestedBy
<1>7. terminal = TerminalState
  BY <1>1 DEF EPSATraceValid
<1>8. passes # <<>>
  BY <1>2
<1>9. CASE n = 1
  <2>1. Last(passes) = passes[1] /\ Len(passes) = 1 /\ Len(hops) # 2
    BY <1>2, <1>3, <1>9
  <2>2. CASE passes[1].sufficient
    BY <1>4, <1>5, <1>7, <2>1, <2>2 DEF TerminalState
  <2>3. CASE ~passes[1].sufficient
    BY <1>4, <1>5, <1>7, <2>1, <2>3 DEF TerminalState
  <2>4. QED
    BY <1>4, <1>5, <2>2, <2>3
<1>10. CASE n = 2
  <2>1. Last(passes) = passes[2] /\ Len(passes) # 1 /\ Len(hops) = 2
    BY <1>2, <1>3, <1>10
  <2>2. ~passes[1].sufficient
    BY <1>6, <1>10 DEF WantsHop
  <2>3. CASE passes[2].sufficient
    BY <1>4, <1>5, <1>7, <2>1, <2>2, <2>3 DEF TerminalState
  <2>4. CASE ~passes[2].sufficient
    BY <1>4, <1>5, <1>7, <2>1, <2>2, <2>4 DEF TerminalState
  <2>5. QED
    BY <1>4, <1>5, <2>3, <2>4
<1>11. QED
  BY <1>4, <1>5, <1>9, <1>10

\* Two retrievals exactly when the second was asked for, and an EPSA run that ends says so.
THEOREM SecondHopAlwaysAsNeeded == Spec => []SecondHopAsNeeded
<1>1. RunInv => SecondHopAsNeeded
  <2> SUFFICES ASSUME RunInv
               PROVE  SecondHopAsNeeded
    OBVIOUS
  <2>1. hops # <<>> /\ phase = "retrieve" => Requested
    BY DEF RunInv, AtRetrieve
  <2>2. phase \in {"answer", "trace", "done"} => (Len(hops) = 2 <=> Requested)
    BY DEF RunInv, AtAnswer, Answering
  <2>3. QED
    BY <2>1, <2>2, EndAsNeeded DEF SecondHopAsNeeded
<1>2. QED
  BY <1>1, RunsFollowThePlan, PTL
===============================================================================
