------------------------ MODULE EvidenceSearchProofs ------------------------
(***************************************************************************)
(* Proofs about the components 03 to 06, for all paragraphs, questions,    *)
(* retrieved chunks and weights: every sentence of the chunks is one unit  *)
(* with a score that is a natural number, the index of the graph says what *)
(* the units say, and the search gives finitely many paths, each once, by  *)
(* descending score, each made from units of the pass.                     *)
(*                                                                         *)
(* The paths are candidates sorted by score, answer and ID. That a sort    *)
(* gives what it sorts, in order, rests on the order being strict and      *)
(* total; it is, because a path ID names one path (NodesName).             *)
(***************************************************************************)
EXTENDS RagSystemsProofs
-----------------------------------------------------------------------------
(* Numbers, finite sets and sequences *)

\* What holds at 0 and passes from each number to the next holds up to N.
LEMMA UpTo ==
  ASSUME NEW N \in Nat, NEW good, 0 \in good,
         \A n \in 1..N : n - 1 \in good => n \in good
  PROVE  \A n \in 0..N : n \in good
<1> DEFINE bad == {n \in 0..N : n \notin good}
<1>1. ASSUME bad # {}
      PROVE  FALSE
  <2>1. bad \in SUBSET Nat
    OBVIOUS
  <2>2. PICK n \in bad : \A k \in bad : n <= k
    <3> HIDE DEF bad
    <3>1. QED
      BY <1>1, <2>1, LeastNat
  <2>3. n \in 0..N /\ n \notin good /\ n # 0
    BY <2>2
  <2>4. n \in 1..N /\ n - 1 \in 0..N /\ ~(n <= n - 1)
    BY <2>3
  <2>5. n - 1 \notin bad
    <3> HIDE DEF bad
    <3>1. QED
      BY <2>2, <2>4
  <2>6. QED
    BY <2>3, <2>4, <2>5
<1>2. QED
  BY <1>1

\* The greatest of two naturals.
LEMMA GreatestOfTwo ==
  ASSUME NEW a \in Nat, NEW b \in Nat
  PROVE  Max({a, b}) = IF a >= b THEN a ELSE b
<1>1. \A x \in {a, b} : (\A y \in {a, b} : x >= y) => x = IF a >= b THEN a ELSE b
  OBVIOUS
<1>2. \E x \in {a, b} : \A y \in {a, b} : x >= y
  OBVIOUS
<1>3. QED
  BY <1>1, <1>2 DEF Max

\* The least of a set of naturals.
LEMMA LeastOf ==
  ASSUME NEW T \in SUBSET Nat, T # {}
  PROVE  Min(T) \in T /\ \A m \in T : Min(T) <= m
<1>1. \E n \in T : \A m \in T : n <= m
  BY LeastNat
<1>2. QED
  BY <1>1 DEF Min

\* What a finite set is mapped to is finite.
LEMMA ImageFinite ==
  ASSUME NEW S, IsFiniteSet(S), NEW f
  PROVE  IsFiniteSet({f[x] : x \in S})
<1> DEFINE T == {f[x] : x \in S}
           g == [x \in S |-> f[x]]
<1>1. g \in Surjection(S, T)
  <2>1. g \in [S -> T]
    OBVIOUS
  <2>2. \A t \in T : \E x \in S : g[x] = t
    OBVIOUS
  <2>3. QED
    BY <2>1, <2>2 DEF Surjection
<1>2. QED
  BY <1>1, FS_Surjection

\* There are n numbers from 1 to n.
LEMMA Counted ==
  ASSUME NEW n \in Nat
  PROVE  IsFiniteSet(1..n) /\ Cardinality(1..n) = n
<1>1. 1 \in Int /\ n \in Int
  OBVIOUS
<1>2. IsFiniteSet(1..n) /\ Cardinality(1..n) = IF 1 > n THEN 0 ELSE n - 1 + 1
  BY <1>1, FS_Interval
<1>3. QED
  BY <1>2

\* A sequence has finitely many elements.
LEMMA ElementsFinite ==
  ASSUME NEW X, NEW s \in Seq(X)
  PROVE  /\ IsFiniteSet(ToSet(s)) /\ Cardinality(ToSet(s)) \in Nat
         /\ Cardinality(ToSet(s)) <= Len(s) /\ Len(s) \in Nat
         /\ ToSet(s) \in SUBSET X /\ DOMAIN s = 1..Len(s)
<1>1. PICK n \in Nat : n = Len(s) /\ DOMAIN s = 1..n /\ s \in [1..n -> X]
  BY LenProperties
<1>2. s \in Surjection(1..n, ToSet(s))
  <2>1. s \in [1..n -> ToSet(s)] /\ \A t \in ToSet(s) : \E i \in 1..n : s[i] = t
    BY <1>1 DEF ToSet
  <2>2. QED
    BY <2>1 DEF Surjection
<1>3. IsFiniteSet(1..n) /\ Cardinality(1..n) = n
  BY <1>1, Counted
<1>4. IsFiniteSet(ToSet(s)) /\ Cardinality(ToSet(s)) <= n
  BY <1>2, <1>3, FS_Surjection
<1>5. ToSet(s) \in SUBSET X
  BY <1>1 DEF ToSet
<1>6. QED
  BY <1>1, <1>4, <1>5, FS_CardinalityType
-----------------------------------------------------------------------------
(* Component 03: a unit for each sentence *)

\* The concatenations of the first sequences of seqs.
Concats(f, seqs, n) ==
  f = [i \in 1..n |-> IF i = 1 THEN seqs[i] ELSE f[i - 1] \o seqs[i]]

\* The flattening of a nonempty sequence of sequences is the last of them.
LEMMA Flattened ==
  ASSUME NEW N \in Nat \ {0}, NEW seqs, Len(seqs) = N
  PROVE  \E f : Concats(f, seqs, N) /\ FlattenSeq(seqs) = f[N]
<1> DEFINE good == {n \in 0..N : \E f : Concats(f, seqs, n)}
<1>1. 0 \in good
  <2>1. Concats([i \in 1..0 |-> 0], seqs, 0)
    <3>1. 1..0 = {}
      OBVIOUS
    <3>2. QED
      BY <3>1 DEF Concats
  <2>2. QED
    BY <2>1
<1>2. ASSUME NEW n \in 1..N, n - 1 \in good
      PROVE  n \in good
  <2>1. PICK f : Concats(f, seqs, n - 1)
    BY <1>2
  <2> DEFINE g == [i \in 1..n |-> IF i < n THEN f[i] ELSE IF i = 1 THEN seqs[i] ELSE f[n - 1] \o seqs[n]]
  <2>2. \A i \in 1..n : i = n \/ i \in 1..(n - 1)
    OBVIOUS
  <2>3. \A i \in 1..(n - 1) : f[i] = IF i = 1 THEN seqs[i] ELSE f[i - 1] \o seqs[i]
    BY <2>1 DEF Concats
  <2>4. \A i \in 1..n : g[i] = IF i < n THEN f[i] ELSE IF i = 1 THEN seqs[i] ELSE f[n - 1] \o seqs[n]
    OBVIOUS
  <2>5. \A i \in 1..(n - 1) : g[i] = f[i] /\ i \in 1..n
    BY <2>4
  <2> HIDE DEF g
  <2>6. \A i \in 1..n : g[i] = IF i = 1 THEN seqs[i] ELSE g[i - 1] \o seqs[i]
    <3>1. TAKE i \in 1..n
    <3>2. CASE i = 1
      <4>1. n = 1 \/ i \in 1..(n - 1)
        BY <3>2
      <4>2. CASE n = 1
        BY <2>4, <3>2, <4>2
      <4>3. CASE i \in 1..(n - 1)
        BY <2>3, <2>5, <3>2, <4>3
      <4>4. QED
        BY <4>1, <4>2, <4>3
    <3>3. CASE i # 1
      <4>1. i - 1 \in 1..(n - 1)
        BY <3>3
      <4>2. g[i - 1] = f[i - 1]
        BY <2>5, <4>1
      <4>3. CASE i = n
        <5>1. ~(i < n)
          BY <4>3
        <5>2. g[i] = f[n - 1] \o seqs[n]
          BY <2>4, <3>3, <5>1
        <5>3. QED
          BY <3>3, <4>2, <4>3, <5>2
      <4>4. CASE i \in 1..(n - 1)
        <5>1. f[i] = f[i - 1] \o seqs[i]
          BY <2>3, <3>3, <4>4
        <5>2. g[i] = f[i]
          BY <2>5, <4>4
        <5>3. QED
          BY <3>3, <4>2, <5>1, <5>2
      <4>5. QED
        BY <2>2, <4>3, <4>4
    <3>4. QED
      BY <3>2, <3>3
  <2>7. g = [i \in 1..n |-> g[i]]
    BY DEF g
  <2>8. Concats(g, seqs, n)
    BY <2>6, <2>7 DEF Concats
  <2>9. QED
    BY <2>8
<1> HIDE DEF good
<1>3. N \in 0..N /\ \A n \in 0..N : n \in good
  BY <1>1, <1>2, UpTo
<1>4. PICK g : Concats(g, seqs, N)
  <2>1. N \in good
    BY <1>3
  <2>2. QED
    BY <2>1 DEF good
<1> DEFINE f == CHOOSE h : Concats(h, seqs, N)
<1>5. Concats(f, seqs, N)
  BY <1>4
<1>6. FlattenSeq(seqs) = f[N]
  BY DEF FlattenSeq, Concats
<1> HIDE DEF f
<1>7. QED
  BY <1>5, <1>6

\* The units of the first n of some chunks, in the order of the chunks and their sentences.
Extracted(units, chunks, n) ==
  /\ IsListed(units)
  /\ \A k \in DOMAIN units : \E r \in 1..n : \E s \in DOMAIN Sentences(chunks[r]) :
       units[k] = Unit(chunks[r], s, r)
  /\ \A r \in 1..n : \A s \in DOMAIN Sentences(chunks[r]) : \E k \in DOMAIN units :
       units[k] = Unit(chunks[r], s, r)
  /\ \A k, l \in DOMAIN units : k < l => UnitBefore(units[k], units[l])

\* A chunk has a title and sentences.
LEMMA ParagraphFits ==
  ASSUME NEW c \in Chunk
  PROVE  /\ Paragraph[c].title \in Name
         /\ Sentences(c) \in Seq(AnySentence) /\ Len(Sentences(c)) \in Nat
         /\ DOMAIN Sentences(c) = 1..Len(Sentences(c))
         /\ \A s \in DOMAIN Sentences(c) :
              /\ Sentences(c)[s] \in AnySentence /\ s \in Nat
              /\ IsFiniteSet(Sentences(c)[s].names) /\ IsFiniteSet(Sentences(c)[s].literal)
<1>1. /\ Paragraph[c] \in [title : Name, sentences : Seq(AnySentence)]
      /\ \A s \in ToSet(Paragraph[c].sentences) : IsFiniteSet(s.names) /\ IsFiniteSet(s.literal)
  BY ParagraphAssumption, EvidenceAssumption
<1>2. PICK x : x = Paragraph[c].sentences
  OBVIOUS
<1>3. Paragraph[c].title \in Name /\ x \in Seq(AnySentence)
  BY <1>1, <1>2
<1>4. PICK n \in Nat : n = Len(x) /\ DOMAIN x = 1..n /\ x \in [1..n -> AnySentence]
  BY <1>3, LenProperties
<1>5. \A s \in 1..n : x[s] \in AnySentence /\ s \in Nat /\ x[s] \in ToSet(x)
  BY <1>4 DEF ToSet
<1>6. \A s \in 1..n : IsFiniteSet(x[s].names) /\ IsFiniteSet(x[s].literal)
  BY <1>1, <1>2, <1>5
<1>7. QED
  BY <1>2, <1>3, <1>4, <1>5, <1>6 DEF Sentences

\* The parts of a unit.
LEMMA UnitParts ==
  ASSUME NEW c, NEW s, NEW r
  PROVE  /\ Unit(c, s, r).id = <<c, s>> /\ Unit(c, s, r).title = Paragraph[c].title
         /\ Unit(c, s, r).id[1] = c /\ Unit(c, s, r).id[2] = s
         /\ Unit(c, s, r).entities = {Paragraph[c].title} \cup Sentences(c)[s].names
         /\ Unit(c, s, r).names = ResolvedNames(c, s)
         /\ Unit(c, s, r).relations = Sentences(c)[s].relations
         /\ Unit(c, s, r).types = Sentences(c)[s].types
         /\ Unit(c, s, r).tokens = Sentences(c)[s].tokens
         /\ Unit(c, s, r).length = Sentences(c)[s].length
         /\ Unit(c, s, r).rank = r
BY DEF Unit

\* The units of the chunk at rank r.
UnitsAt(chunks, r) == [s \in DOMAIN Sentences(chunks[r]) |-> Unit(chunks[r], s, r)]

\* The units of one chunk.
LEMMA UnitsOfOne ==
  ASSUME NEW chunks \in Seq(Chunk), NEW r \in 1..Len(chunks)
  PROVE  \E n \in Nat :
           /\ DOMAIN Sentences(chunks[r]) = 1..n /\ DOMAIN UnitsAt(chunks, r) = 1..n
           /\ IsListed(UnitsAt(chunks, r)) /\ Len(UnitsAt(chunks, r)) = n
           /\ \A s \in 1..n : UnitsAt(chunks, r)[s] = Unit(chunks[r], s, r)
<1>1. chunks[r] \in Chunk
  BY LenProperties
<1>2. PICK n \in Nat : DOMAIN Sentences(chunks[r]) = 1..n
  BY <1>1, ParagraphFits
<1>3. PICK u : u = UnitsAt(chunks, r)
  OBVIOUS
<1>4. /\ u = [s \in 1..n |-> Unit(chunks[r], s, r)] /\ DOMAIN u = 1..n
      /\ \A s \in 1..n : u[s] = Unit(chunks[r], s, r)
  BY <1>2, <1>3 DEF UnitsAt
<1>5. u \in [1..n -> ToSet(u)]
  BY <1>4 DEF ToSet
<1>6. IsListed(u) /\ Len(u) = n
  BY <1>5 DEF IsListed
<1>7. QED
  BY <1>2, <1>3, <1>4, <1>6

\* The elements of a concatenation.
Joined(t, a, b) ==
  /\ IsListed(t) /\ Len(a) \in Nat /\ Len(b) \in Nat /\ Len(t) = Len(a) + Len(b)
  /\ DOMAIN a = 1..Len(a) /\ DOMAIN b = 1..Len(b) /\ DOMAIN t = 1..Len(t)
  /\ \A i \in 1..Len(a) : t[i] = a[i]
  /\ \A i \in 1..Len(b) : t[Len(a) + i] = b[i]
  /\ \A i \in 1..Len(t) : i \in 1..Len(a) \/ (i - Len(a) \in 1..Len(b) /\ t[i] = b[i - Len(a)])

\* Two finite sequences, one after the other.
LEMMA ListedJoined ==
  ASSUME NEW a, NEW b, IsListed(a), IsListed(b)
  PROVE  Joined(a \o b, a, b)
<1> DEFINE X == ToSet(a) \cup ToSet(b)
           t == a \o b
<1>1. a \in Seq(X) /\ b \in Seq(X)
  <2>1. ToSet(a) \subseteq X /\ ToSet(b) \subseteq X
    OBVIOUS
  <2> HIDE DEF X
  <2>2. a \in Seq(ToSet(a)) /\ b \in Seq(ToSet(b))
    BY DEF IsListed
  <2>3. QED
    BY <2>1, <2>2, SeqMonotonic
<1> HIDE DEF X
<1>2. PICK m \in Nat, n \in Nat : /\ m = Len(a) /\ n = Len(b) /\ DOMAIN a = 1..m /\ DOMAIN b = 1..n
  BY <1>1, LenProperties
<1>3. /\ t \in Seq(X) /\ Len(t) = m + n
      /\ \A i \in 1..(m + n) : t[i] = IF i <= m THEN a[i] ELSE b[i - m]
  BY <1>1, <1>2, ConcatProperties
<1> HIDE DEF t
<1>4. DOMAIN t = 1..(m + n) /\ t \in [1..(m + n) -> X]
  BY <1>3, LenProperties
<1>5. IsListed(t)
  <2>1. \A i \in 1..(m + n) : t[i] \in ToSet(t)
    BY <1>4 DEF ToSet
  <2>2. t \in [1..(m + n) -> ToSet(t)]
    BY <1>4, <2>1
  <2>3. m + n \in Nat
    BY <1>2
  <2>4. QED
    BY <2>2, <2>3 DEF IsListed
<1>6. \A i \in 1..m : t[i] = a[i]
  BY <1>2, <1>3
<1>7. \A i \in 1..n : t[m + i] = b[i]
  <2>1. TAKE i \in 1..n
  <2>2. m + i \in 1..(m + n) /\ ~(m + i <= m) /\ (m + i) - m = i
    BY <1>2
  <2>3. QED
    BY <1>3, <2>2
<1>8. \A i \in 1..(m + n) : i \in 1..m \/ (i - m \in 1..n /\ t[i] = b[i - m])
  BY <1>2, <1>3
<1>9. QED
  BY <1>2, <1>3, <1>4, <1>5, <1>6, <1>7, <1>8 DEF Joined, t

\* The units of one chunk more.
LEMMA ExtractedNext ==
  ASSUME NEW chunks \in Seq(Chunk), NEW n \in 1..Len(chunks),
         NEW units, Extracted(units, chunks, n - 1)
  PROVE  Extracted(units \o UnitsAt(chunks, n), chunks, n)
<1>1. PICK b : b = UnitsAt(chunks, n)
  OBVIOUS
<1>2. PICK w \in Nat :
        /\ DOMAIN Sentences(chunks[n]) = 1..w /\ DOMAIN b = 1..w
        /\ IsListed(b) /\ Len(b) = w
        /\ \A s \in 1..w : b[s] = Unit(chunks[n], s, n)
  BY <1>1, UnitsOfOne
<1>3. PICK t : t = units \o b
  OBVIOUS
<1>4. PICK m \in Nat : m = Len(units) /\ Joined(t, units, b)
  <2>1. Joined(t, units, b)
    BY <1>2, <1>3, ListedJoined DEF Extracted
  <2>2. QED
    BY <2>1 DEF Joined
<1>5. /\ IsListed(t) /\ DOMAIN t = 1..(m + w) /\ DOMAIN units = 1..m
      /\ \A i \in 1..m : t[i] = units[i]
      /\ \A i \in 1..w : t[m + i] = Unit(chunks[n], i, n)
      /\ \A i \in 1..(m + w) : i \in 1..m \/ (i - m \in 1..w /\ t[i] = Unit(chunks[n], i - m, n))
  BY <1>2, <1>4 DEF Joined
<1>6. n \in Nat /\ Len(chunks) \in Nat
  BY LenProperties
<1>7. ASSUME NEW k \in DOMAIN t
      PROVE  \E r \in 1..n : \E s \in DOMAIN Sentences(chunks[r]) : t[k] = Unit(chunks[r], s, r)
  <2>1. CASE k \in 1..m
    <3>1. PICK r \in 1..(n - 1) : \E s \in DOMAIN Sentences(chunks[r]) : units[k] = Unit(chunks[r], s, r)
      BY <1>5, <2>1 DEF Extracted
    <3>2. r \in 1..n
      BY <1>6
    <3>3. t[k] = units[k]
      BY <1>5, <2>1
    <3>4. QED
      BY <3>1, <3>2, <3>3
  <2>2. CASE k - m \in 1..w /\ t[k] = Unit(chunks[n], k - m, n)
    <3>1. n \in 1..n /\ k - m \in DOMAIN Sentences(chunks[n])
      BY <1>2, <1>6, <2>2
    <3>2. QED
      BY <2>2, <3>1
  <2>3. QED
    BY <1>5, <2>1, <2>2
<1>8. ASSUME NEW r \in 1..n, NEW s \in DOMAIN Sentences(chunks[r])
      PROVE  \E k \in DOMAIN t : t[k] = Unit(chunks[r], s, r)
  <2>1. CASE r = n
    <3>1. s \in 1..w
      BY <1>2, <2>1
    <3>2. m + s \in 1..(m + w)
      BY <1>2, <1>4, <3>1
    <3>3. QED
      BY <1>5, <2>1, <3>1, <3>2
  <2>2. CASE r # n
    <3>1. r \in 1..(n - 1)
      BY <1>6, <2>2
    <3>2. PICK k \in DOMAIN units : units[k] = Unit(chunks[r], s, r)
      BY <3>1 DEF Extracted
    <3>3. k \in 1..m /\ k \in 1..(m + w)
      BY <1>2, <1>4, <1>5
    <3>4. QED
      BY <1>5, <3>2, <3>3
  <2>3. QED
    BY <2>1, <2>2
<1>9. \A i \in 1..m : units[i].rank \in 1..(n - 1)
  <2>1. TAKE i \in 1..m
  <2>2. PICK r \in 1..(n - 1) : \E s \in DOMAIN Sentences(chunks[r]) : units[i] = Unit(chunks[r], s, r)
    BY <1>5 DEF Extracted
  <2>3. units[i].rank = r
    BY <2>2, UnitParts
  <2>4. QED
    BY <2>3
<1>10. ASSUME NEW k \in DOMAIN t, NEW l \in DOMAIN t, k < l
       PROVE  UnitBefore(t[k], t[l])
  <2>1. CASE l \in 1..m
    <3>1. k \in 1..m
      BY <1>5, <1>10, <2>1
    <3>2. UnitBefore(units[k], units[l])
      BY <1>5, <1>10, <2>1, <3>1 DEF Extracted
    <3>3. QED
      BY <1>5, <2>1, <3>1, <3>2
  <2>2. CASE l - m \in 1..w /\ t[l] = Unit(chunks[n], l - m, n)
    <3>1. t[l].rank = n /\ t[l].id[2] = l - m
      BY <2>2, UnitParts
    <3>2. CASE k \in 1..m
      <4>1. t[k].rank \in 1..(n - 1)
        BY <1>5, <1>9, <3>2
      <4>2. t[k].rank < t[l].rank
        BY <1>6, <3>1, <4>1
      <4>3. QED
        BY <4>2 DEF UnitBefore
    <3>3. CASE k - m \in 1..w /\ t[k] = Unit(chunks[n], k - m, n)
      <4>1. t[k].rank = n /\ t[k].id[2] = k - m
        BY <3>3, UnitParts
      <4>2. k - m < l - m
        BY <1>4, <1>5, <1>10
      <4>3. QED
        BY <3>1, <4>1, <4>2 DEF UnitBefore
    <3>4. QED
      BY <1>5, <3>2, <3>3
  <2>3. QED
    BY <1>5, <2>1, <2>2
<1>11. QED
  BY <1>1, <1>3, <1>5, <1>7, <1>8, <1>10 DEF Extracted

\* RuleBasedV2EvidenceUnitExtractor: a unit for each sentence of each chunk, in order.
LEMMA Extracts ==
  ASSUME NEW chunks \in Seq(Chunk)
  PROVE  Extracted(Extract(chunks), chunks, Len(chunks))
<1>1. PICK N \in Nat : N = Len(chunks) /\ DOMAIN chunks = 1..N
  BY LenProperties
<1>2. PICK seqs : seqs = [r \in DOMAIN chunks |-> UnitsAt(chunks, r)]
  OBVIOUS
<1>3. Extract(chunks) = FlattenSeq(seqs)
  BY <1>2 DEF Extract, UnitsAt
<1>4. Len(seqs) = N /\ \A r \in 1..N : seqs[r] = UnitsAt(chunks, r)
  BY <1>1, <1>2
<1>5. CASE N = 0
  <2>1. Extract(chunks) = seqs
    BY <1>3, <1>4, <1>5 DEF FlattenSeq
  <2>2. DOMAIN seqs = {} /\ seqs = [r \in 1..0 |-> UnitsAt(chunks, r)] /\ 1..0 = {}
    BY <1>1, <1>2, <1>5
  <2>3. IsListed(seqs)
    <3>1. seqs \in [1..0 -> ToSet(seqs)]
      BY <2>2
    <3>2. QED
      BY <3>1 DEF IsListed
  <2>4. QED
    BY <1>1, <1>5, <2>1, <2>2, <2>3 DEF Extracted
<1>6. CASE N # 0
  <2>1. PICK f : Concats(f, seqs, N) /\ FlattenSeq(seqs) = f[N]
    BY <1>4, <1>6, Flattened
  <2>2. \A i \in 1..N : f[i] = IF i = 1 THEN seqs[i] ELSE f[i - 1] \o seqs[i]
    BY <2>1 DEF Concats
  <2> DEFINE good == {n \in 0..N : n # 0 => Extracted(f[n], chunks, n)}
  <2>3. 0 \in good
    BY <1>1
  <2>4. ASSUME NEW n \in 1..N, n - 1 \in good
        PROVE  n \in good
    <3>1. CASE n = 1
      <4>1. f[1] = UnitsAt(chunks, 1)
        BY <1>4, <2>2, <3>1
      <4>2. PICK w \in Nat :
              /\ DOMAIN Sentences(chunks[1]) = 1..w /\ DOMAIN f[1] = 1..w /\ IsListed(f[1])
              /\ \A s \in 1..w : f[1][s] = Unit(chunks[1], s, 1)
        BY <1>1, <3>1, <4>1, UnitsOfOne
      <4>3. \A r \in 1..1 : r = 1
        OBVIOUS
      <4>4. 1 \in 1..1
        OBVIOUS
      <4>5. \A k, l \in 1..w : k < l => UnitBefore(f[1][k], f[1][l])
        <5>1. TAKE k, l \in 1..w
        <5>2. /\ f[1][k].rank = 1 /\ f[1][l].rank = 1
              /\ f[1][k].id[2] = k /\ f[1][l].id[2] = l
          BY <4>2, UnitParts
        <5>3. QED
          BY <5>2 DEF UnitBefore
      <4>6. Extracted(f[1], chunks, 1)
        BY <4>2, <4>3, <4>4, <4>5 DEF Extracted
      <4>7. QED
        BY <3>1, <4>6
    <3>2. CASE n # 1
      <4>1. n - 1 # 0 /\ n \in 1..Len(chunks)
        BY <1>1, <3>2
      <4>2. Extracted(f[n - 1], chunks, n - 1)
        BY <2>4, <4>1
      <4>3. f[n] = f[n - 1] \o UnitsAt(chunks, n)
        BY <1>4, <2>2, <3>2
      <4>4. Extracted(f[n], chunks, n)
        BY <4>1, <4>2, <4>3, ExtractedNext
      <4>5. QED
        BY <4>4
    <3>3. QED
      BY <3>1, <3>2
  <2> HIDE DEF good
  <2>5. N \in good
    <3>1. \A n \in 0..N : n \in good
      BY <2>3, <2>4, UpTo
    <3>2. QED
      BY <1>1, <3>1
  <2>6. QED
    BY <1>1, <1>3, <1>6, <2>1, <2>5 DEF good
<1>7. QED
  BY <1>5, <1>6
-----------------------------------------------------------------------------
(* Component 04: scores *)

\* What the later components rely on in the analysis of a question.
AnalysisFits(a) ==
  /\ a.type \in {"comparison", "yes_no", "bridge", "factoid"}
  /\ a.seeds \in Seq(Name) /\ a.required \in Seq(STRING) /\ a.targets \in Seq(Name)
  /\ \A i, j \in DOMAIN a.seeds : a.seeds[i] = a.seeds[j] => i = j
  /\ IsFiniteSet(a.text.tokens)
  /\ a.type = "yes_no" => a.expected = "BOOLEAN"
  /\ a.type \in {"bridge", "factoid"} => a.expected # "BOOLEAN"

\* RuleBasedQuestionAnalyzer.analyze: a yes/no question expects yes or no, and a bridge or
\* a fact never does.
LEMMA AnalysisOfQuestion ==
  ASSUME NEW q \in AnyQuestion, IsFiniteSet(q.text.tokens),
         \A i, j \in DOMAIN q.seeds : q.seeds[i] = q.seeds[j] => i = j
  PROVE  AnalysisFits(Analysis(q))
<1>1. /\ q.seeds \in Seq(Name) /\ q.hints \in Seq(STRING) /\ q.compares \in Seq(Name)
  BY DEF AnyQuestion
<1>2. /\ Analysis(q).type = QuestionType(q) /\ Analysis(q).expected = ExpectedType(q)
      /\ Analysis(q).seeds = q.seeds /\ Analysis(q).required = q.hints
      /\ Analysis(q).targets = q.compares /\ Analysis(q).text = q.text
  BY DEF Analysis
<1>3. QuestionType(q) \in {"comparison", "yes_no", "bridge", "factoid"}
  BY DEF QuestionType
<1>4. QuestionType(q) = "yes_no" => ExpectedType(q) = "BOOLEAN"
  BY DEF QuestionType, ExpectedType
<1>5. QuestionType(q) \in {"bridge", "factoid"} => ExpectedType(q) # "BOOLEAN"
  BY DEF QuestionType, ExpectedType
<1>6. QED
  BY <1>1, <1>2, <1>3, <1>4, <1>5 DEF AnalysisFits

\* A natural divided by a positive one.
LEMMA DivNat ==
  ASSUME NEW n \in Nat, NEW d \in Nat \ {0}
  PROVE  n \div d \in Nat
<1>1. d <= d
  OBVIOUS
<1>2. QED
  BY <1>1, DivFalls

\* A part of a finite set has a size.
LEMMA PartSize ==
  ASSUME NEW S, IsFiniteSet(S), NEW T
  PROVE  /\ IsFiniteSet(S \cap T) /\ Cardinality(S \cap T) \in Nat
         /\ Cardinality(S \cap T) <= Cardinality(S) /\ Cardinality(S) \in Nat
         /\ Cardinality(S \cap T) = Cardinality(S) => S \subseteq T
<1>1. S \cap T \in SUBSET S
  OBVIOUS
<1>2. /\ IsFiniteSet(S \cap T) /\ Cardinality(S \cap T) <= Cardinality(S)
      /\ (Cardinality(S) = Cardinality(S \cap T) => S = S \cap T)
  BY <1>1, FS_Subset
<1>3. Cardinality(S \cap T) \in Nat /\ Cardinality(S) \in Nat
  BY <1>2, FS_CardinalityType
<1>4. (S = S \cap T) => S \subseteq T
  OBVIOUS
<1>5. QED
  BY <1>2, <1>3, <1>4

\* The weights are natural numbers.
LEMMA Weights ==
  /\ Gain.entity = 600 /\ Gain.relation = 480 /\ Gain.type = 360 /\ Gain.tokens = 360
  /\ Gain.title = 240 /\ Gain.rank = 120 /\ Gain.bridge = 240
  /\ Penalty.short = 480 /\ Penalty.long = 240 /\ Penalty.empty = 360 /\ Penalty.most = 840
BY DEF Gain, Penalty

\* RuleBasedEvidenceScorerV1.score: a score is never negative.
LEMMA ScoreFits ==
  ASSUME NEW u, u.rank \in Nat \ {0}, NEW a, AnalysisFits(a)
  PROVE  Score(u, a) \in Nat
<1>1. EntityMatch(u, a) \in Nat
  <2>1. CASE a.seeds = <<>>
    BY <2>1 DEF EntityMatch
  <2>2. CASE a.seeds # <<>>
    <3>1. PICK s \in Seq(Name) : s = a.seeds
      BY DEF AnalysisFits
    <3>2. Len(s) \in Nat \ {0} /\ IsFiniteSet(ToSet(s))
      <4>1. s # <<>>
        BY <2>2, <3>1
      <4>2. Len(s) \in Nat /\ Len(s) # 0
        BY <4>1
      <4>3. QED
        BY <4>2, ElementsFinite
    <3>3. PICK n \in Nat : n = Cardinality(ToSet(s) \cap (u.entities \cup u.names))
      BY <3>2, PartSize
    <3>4. 600 * n \in Nat
      OBVIOUS
    <3>5. (600 * n) \div Len(s) \in Nat
      BY <3>2, <3>4, DivNat
    <3>6. QED
      BY <2>2, <3>1, <3>3, <3>5, Weights DEF EntityMatch
  <2>3. QED
    BY <2>1, <2>2
<1>2. RelationMatch(u, a) \in Nat
  <2>1. PICK R : R = ToSet(a.required)
    OBVIOUS
  <2>2. IsFiniteSet(R)
    BY <2>1, ElementsFinite DEF AnalysisFits
  <2>3. CASE R = {}
    BY <2>1, <2>3 DEF RelationMatch
  <2>4. CASE R # {}
    <3>1. PICK n \in Nat, d \in Nat \ {0} : n = Cardinality(R \cap u.relations) /\ d = Cardinality(R)
      BY <2>2, <2>4, PartSize, FS_EmptySet
    <3>2. 480 * n \in Nat
      OBVIOUS
    <3>3. (480 * n) \div d \in Nat
      BY <3>2, DivNat
    <3>4. QED
      BY <2>1, <2>4, <3>1, <3>3, Weights DEF RelationMatch
  <2>5. QED
    BY <2>3, <2>4
<1>3. TypeMatch(u, a) \in Nat
  <2>1. (3 * 360) \div 5 \in Nat
    OBVIOUS
  <2>2. QED
    BY <2>1, Weights DEF TypeMatch
<1>4. TokenOverlap(u, a) \in Nat
  <2>1. PICK T : T = a.text.tokens
    OBVIOUS
  <2>2. IsFiniteSet(T)
    BY <2>1 DEF AnalysisFits
  <2>3. CASE T = {}
    BY <2>1, <2>3 DEF TokenOverlap
  <2>4. CASE T # {}
    <3>1. PICK n \in Nat, d \in Nat \ {0} : n = Cardinality(T \cap u.tokens) /\ d = Cardinality(T)
      BY <2>2, <2>4, PartSize, FS_EmptySet
    <3>2. 360 * n \in Nat
      OBVIOUS
    <3>3. (360 * n) \div d \in Nat
      BY <3>2, DivNat
    <3>4. QED
      BY <2>1, <2>4, <3>1, <3>3, Weights DEF TokenOverlap
  <2>5. QED
    BY <2>3, <2>4
<1>5. TitleMatch(u, a) \in Nat
  <2>1. (4 * 240) \div 5 \in Nat
    OBVIOUS
  <2>2. QED
    BY <2>1, Weights DEF TitleMatch
<1>6. RankQuality(u) \in Nat
  <2>1. 120 \div u.rank \in Nat
    BY DivNat
  <2>2. QED
    BY <2>1, Weights DEF RankQuality
<1>7. BridgeQuality(u, a) \in Nat
  <2>1. 240 \div 2 \in Nat
    OBVIOUS
  <2>2. QED
    BY <2>1, Weights DEF BridgeQuality
<1>8. Noise(u) \in Nat
  <2>1. PICK x \in Nat : x = (IF u.length = "short" THEN Penalty.short ELSE 0)
                               + (IF u.length = "long" THEN Penalty.long ELSE 0)
                               + (IF u.entities = {} /\ u.relations = {} THEN Penalty.empty ELSE 0)
    BY Weights
  <2>2. Min({840, x}) \in Nat
    BY LeastOfTwo
  <2>3. QED
    BY <2>1, <2>2, Weights DEF Noise
<1>9. PICK g \in Nat : g = EntityMatch(u, a) + RelationMatch(u, a) + TypeMatch(u, a)
         + TokenOverlap(u, a) + TitleMatch(u, a) + RankQuality(u) + BridgeQuality(u, a)
  BY <1>1, <1>2, <1>3, <1>4, <1>5, <1>6, <1>7
<1>10. Score(u, a) = Max({Noise(u), g}) - Noise(u)
  BY <1>9 DEF Score
<1>11. QED
  BY <1>8, <1>9, <1>10, GreatestOfTwo

\* A scored unit says of its sentence what the rules found in it.
IsUnit(u, c, s, r) ==
  /\ u.id = <<c, s>> /\ u.id[1] = c /\ u.id[2] = s /\ u.title = Paragraph[c].title
  /\ u.entities = {Paragraph[c].title} \cup Sentences(c)[s].names
  /\ u.names = ResolvedNames(c, s) /\ u.relations = Sentences(c)[s].relations
  /\ u.rank = r /\ u.score \in Nat

\* Scored units of all sentences of some chunks, in order.
ScoredOf(units, chunks) ==
  /\ IsListed(units)
  /\ \A k \in DOMAIN units : \E r \in DOMAIN chunks : \E s \in DOMAIN Sentences(chunks[r]) :
       IsUnit(units[k], chunks[r], s, r)
  /\ \A r \in DOMAIN chunks : \A s \in DOMAIN Sentences(chunks[r]) : \E k \in DOMAIN units :
       IsUnit(units[k], chunks[r], s, r)
  /\ \A k, l \in DOMAIN units : k < l => UnitBefore(units[k], units[l])

\* Scoring changes nothing else of a unit.
LEMMA ScoredUnit ==
  ASSUME NEW c, NEW s, NEW r \in Nat \ {0}, NEW a, AnalysisFits(a), NEW u, u = Unit(c, s, r)
  PROVE  IsUnit([u EXCEPT !.score = Score(u, a)], c, s, r)
<1>1. u.rank = r
  BY UnitParts
<1>2. PICK x \in Nat : x = Score(u, a)
  BY <1>1, ScoreFits
<1>3. PICK v : v = [Unit(c, s, r) EXCEPT !.score = x]
  OBVIOUS
<1>4. /\ v.id = <<c, s>> /\ v.title = Paragraph[c].title
      /\ v.entities = {Paragraph[c].title} \cup Sentences(c)[s].names
      /\ v.names = ResolvedNames(c, s) /\ v.relations = Sentences(c)[s].relations
      /\ v.rank = r /\ v.score = x
  BY <1>3, Zenon DEF Unit
<1>5. v.id[1] = c /\ v.id[2] = s
  BY <1>4
<1>6. v = [u EXCEPT !.score = Score(u, a)]
  BY <1>2, <1>3
<1>7. QED
  BY <1>2, <1>4, <1>5, <1>6 DEF IsUnit

\* Components 03 and 04.
LEMMA ScoredUnits ==
  ASSUME NEW chunks \in Seq(Chunk), NEW a, AnalysisFits(a)
  PROVE  ScoredOf(Scored(Extract(chunks), a), chunks)
<1>1. PICK e : e = Extract(chunks) /\ Extracted(e, chunks, Len(chunks))
  BY Extracts
<1>2. PICK N \in Nat : N = Len(chunks) /\ DOMAIN chunks = 1..N
  BY LenProperties
<1>3. PICK u : u = Scored(e, a)
  OBVIOUS
<1>4. DOMAIN u = DOMAIN e /\ \A k \in DOMAIN e : u[k] = [e[k] EXCEPT !.score = Score(e[k], a)]
  BY <1>3 DEF Scored
<1>5. PICK m \in Nat : m = Len(e) /\ DOMAIN e = 1..m
  BY <1>1, LenProperties DEF Extracted, IsListed
<1>6. IsListed(u)
  <2>1. u = [k \in 1..m |-> u[k]]
    BY <1>3, <1>4, <1>5 DEF Scored
  <2>2. u \in [1..m -> ToSet(u)]
    BY <1>4, <1>5, <2>1 DEF ToSet
  <2>3. QED
    BY <2>2 DEF IsListed
<1>7. ASSUME NEW k \in DOMAIN e, NEW r \in 1..N, NEW s, e[k] = Unit(chunks[r], s, r)
      PROVE  IsUnit(u[k], chunks[r], s, r)
  <2>1. r \in Nat \ {0}
    OBVIOUS
  <2>2. IsUnit([e[k] EXCEPT !.score = Score(e[k], a)], chunks[r], s, r)
    BY <1>7, <2>1, ScoredUnit
  <2>3. QED
    BY <1>4, <2>2
<1>8. ASSUME NEW k \in DOMAIN e
      PROVE  \E r \in 1..N : \E s \in DOMAIN Sentences(chunks[r]) :
               e[k] = Unit(chunks[r], s, r) /\ IsUnit(u[k], chunks[r], s, r)
  <2>1. PICK r \in 1..N : \E s \in DOMAIN Sentences(chunks[r]) : e[k] = Unit(chunks[r], s, r)
    BY <1>1, <1>2 DEF Extracted
  <2>2. PICK s \in DOMAIN Sentences(chunks[r]) : e[k] = Unit(chunks[r], s, r)
    BY <2>1
  <2>3. IsUnit(u[k], chunks[r], s, r)
    BY <1>7, <2>2
  <2>4. QED
    BY <2>2, <2>3
<1>9. ASSUME NEW r \in 1..N, NEW s \in DOMAIN Sentences(chunks[r])
      PROVE  \E k \in DOMAIN e : IsUnit(u[k], chunks[r], s, r)
  <2>1. PICK k \in DOMAIN e : e[k] = Unit(chunks[r], s, r)
    BY <1>1, <1>2 DEF Extracted
  <2>2. QED
    BY <1>7, <2>1
<1>10. ASSUME NEW k \in DOMAIN e
       PROVE  e[k].rank = u[k].rank /\ e[k].id[2] = u[k].id[2]
  <2>1. PICK r \in 1..N : \E s \in DOMAIN Sentences(chunks[r]) :
               e[k] = Unit(chunks[r], s, r) /\ IsUnit(u[k], chunks[r], s, r)
    BY <1>8
  <2>2. PICK s : e[k] = Unit(chunks[r], s, r) /\ IsUnit(u[k], chunks[r], s, r)
    BY <2>1
  <2>3. QED
    BY <2>2, UnitParts DEF IsUnit
<1>11. ASSUME NEW k \in DOMAIN e, NEW l \in DOMAIN e, k < l
       PROVE  UnitBefore(u[k], u[l])
  <2>1. UnitBefore(e[k], e[l])
    BY <1>1, <1>11 DEF Extracted
  <2>2. QED
    BY <1>10, <2>1 DEF UnitBefore
<1>12. ScoredOf(u, chunks)
  BY <1>2, <1>4, <1>6, <1>8, <1>9, <1>11 DEF ScoredOf
<1>13. QED
  BY <1>1, <1>3, <1>12

\* No element occurs twice.
Distinct(s) == \A i, j \in DOMAIN s : s[i] = s[j] => i = j

\* One unit for each sentence, and no other: their IDs name them.
LEMMA UnitsNamed ==
  ASSUME NEW chunks \in Seq(Chunk), Distinct(chunks), NEW units, ScoredOf(units, chunks)
  PROVE  /\ \A u, v \in ToSet(units) : u.id = v.id => u = v
         /\ IsFiniteSet(ToSet(units)) /\ DOMAIN units = 1..Len(units) /\ Len(units) \in Nat
<1>1. PICK m \in Nat : m = Len(units) /\ DOMAIN units = 1..m
  BY LenProperties DEF ScoredOf, IsListed
<1>2. IsFiniteSet(ToSet(units))
  BY ElementsFinite DEF ScoredOf, IsListed
<1>3. ASSUME NEW k \in 1..m, NEW l \in 1..m, units[k].id = units[l].id
      PROVE  k = l
  <2>1. PICK r \in DOMAIN chunks : \E s \in DOMAIN Sentences(chunks[r]) : IsUnit(units[k], chunks[r], s, r)
    BY <1>1 DEF ScoredOf
  <2>2. PICK s \in DOMAIN Sentences(chunks[r]) : IsUnit(units[k], chunks[r], s, r)
    BY <2>1
  <2>3. PICK q \in DOMAIN chunks : \E t \in DOMAIN Sentences(chunks[q]) : IsUnit(units[l], chunks[q], t, q)
    BY <1>1 DEF ScoredOf
  <2>4. PICK t \in DOMAIN Sentences(chunks[q]) : IsUnit(units[l], chunks[q], t, q)
    BY <2>3
  <2>5. chunks[r] = chunks[q] /\ s = t
    BY <1>3, <2>2, <2>4 DEF IsUnit
  <2>6. r = q
    BY <2>5 DEF Distinct
  <2>7. r \in Nat /\ s \in Nat
    <3>1. DOMAIN chunks = 1..Len(chunks) /\ chunks[r] \in Chunk
      BY LenProperties
    <3>2. QED
      BY <3>1, ParagraphFits
  <2>8. /\ units[k].rank = r /\ units[l].rank = r
        /\ units[k].id[2] = s /\ units[l].id[2] = s
    BY <2>2, <2>4, <2>5, <2>6 DEF IsUnit
  <2>9. ~UnitBefore(units[k], units[l]) /\ ~UnitBefore(units[l], units[k])
    BY <2>7, <2>8 DEF UnitBefore
  <2>10. ~(k < l) /\ ~(l < k)
    BY <1>1, <2>9 DEF ScoredOf
  <2>11. QED
    BY <2>10
<1>4. \A u, v \in ToSet(units) : u.id = v.id => u = v
  <2>1. TAKE u, v \in ToSet(units)
  <2>2. HAVE u.id = v.id
  <2>3. PICK k \in 1..m : u = units[k]
    BY <1>1 DEF ToSet
  <2>4. PICK l \in 1..m : v = units[l]
    BY <1>1 DEF ToSet
  <2>5. QED
    BY <1>3, <2>2, <2>3, <2>4
<1>5. QED
  BY <1>1, <1>2, <1>4
-----------------------------------------------------------------------------
(* Component 05: the graph, read through the index of the search *)

\* The parts of an edge.
LEMMA EdgeParts ==
  ASSUME NEW kind, NEW from, NEW to, NEW u
  PROVE  /\ Edge(kind, from, to, u).kind = kind
         /\ Edge(kind, from, to, u).from = from /\ Edge(kind, from, to, u).to = to
BY DEF Edge

\* The kinds of the edges of a unit.
LEMMA KindsOfEdges ==
  ASSUME NEW u, NEW a, NEW e
  PROVE  /\ e \in DocumentEdges(u) => e.kind \in {"chunk_to_sentence", "title_to_sentence",
                                        "title_to_entity", "sentence_in_document_about_entity"}
         /\ e \in MentionEdges(u) => e.kind = "sentence_mentions_entity"
         /\ e \in RelationEdges(u) => e.kind = "sentence_has_relation"
         /\ e \in AnswerTypeEdges(u) => e.kind = "sentence_has_answer_type"
         /\ e \in CooccurrenceEdges(u) => e.kind = "entity_cooccurs_with_entity"
         /\ e \in AnswerEdges(u, a) => e.kind = "possible_answer_candidate"
<1>1. ASSUME e \in DocumentEdges(u)
      PROVE  e.kind \in {"chunk_to_sentence", "title_to_sentence",
                         "title_to_entity", "sentence_in_document_about_entity"}
  BY <1>1, EdgeParts DEF DocumentEdges
<1>2. ASSUME e \in MentionEdges(u)
      PROVE  e.kind = "sentence_mentions_entity"
  BY <1>2, EdgeParts DEF MentionEdges
<1>3. ASSUME e \in RelationEdges(u)
      PROVE  e.kind = "sentence_has_relation"
  <2>1. \E n \in u.relations : e = Edge("sentence_has_relation", SentenceNode(u), <<"relation", n>>, u)
    BY <1>3, Zenon DEF RelationEdges
  <2>2. \E to : e = Edge("sentence_has_relation", SentenceNode(u), to, u)
    BY <2>1, Zenon
  <2>3. QED
    BY <2>2, EdgeParts
<1>4. ASSUME e \in AnswerTypeEdges(u)
      PROVE  e.kind = "sentence_has_answer_type"
  <2>1. \E n \in u.types : e = Edge("sentence_has_answer_type", SentenceNode(u), <<"answer_type", n>>, u)
    BY <1>4, Zenon DEF AnswerTypeEdges
  <2>2. \E to : e = Edge("sentence_has_answer_type", SentenceNode(u), to, u)
    BY <2>1, Zenon
  <2>3. QED
    BY <2>2, EdgeParts
<1>5. ASSUME e \in CooccurrenceEdges(u)
      PROVE  e.kind = "entity_cooccurs_with_entity"
  BY <1>5, EdgeParts DEF CooccurrenceEdges
<1>6. ASSUME e \in AnswerEdges(u, a)
      PROVE  e.kind = "possible_answer_candidate"
  BY <1>6, EdgeParts DEF AnswerEdges
<1>7. QED
  BY <1>1, <1>2, <1>3, <1>4, <1>5, <1>6

\* The edges of a unit that the index keeps, by their kinds.
LEMMA EdgesByKind ==
  ASSUME NEW u, NEW a, NEW e \in EdgesOf(u, a)
  PROVE  /\ e.kind = "sentence_mentions_entity" => e \in MentionEdges(u)
         /\ e.kind = "sentence_has_relation" => e \in RelationEdges(u)
         /\ e.kind = "seed_entity_to_sentence" =>
              \E n \in MatchedSeeds(u, a) : e = Edge("seed_entity_to_sentence", Entity(n), SentenceNode(u), u)
<1>1. CASE e \in SeedEdges(u, a)
  <2>1. \/ \E n \in MatchedSeeds(u, a) : e = Edge("seed_entity_to_sentence", Entity(n), SentenceNode(u), u)
        \/ e.kind = "possible_bridge"
    BY <1>1, EdgeParts DEF SeedEdges
  <2>2. e.kind \in {"seed_entity_to_sentence", "possible_bridge"}
    BY <2>1, EdgeParts
  <2>3. QED
    BY <2>1, <2>2
<1>2. CASE e \notin SeedEdges(u, a)
  BY <1>2, KindsOfEdges DEF EdgesOf
<1>3. QED
  BY <1>1, <1>2

\* The index says which unit mentions an entity, states a relation, or anchors a seed.
IndexOf(x, U, a) ==
  /\ x.units = U
  /\ \A s, e : <<s, e>> \in x.mentions <=> \E u \in U : u.id = s /\ e \in u.entities
  /\ \A s, r : <<s, r>> \in x.relations <=> \E u \in U : u.id = s /\ r \in u.relations
  /\ \A e, s : <<e, s>> \in x.anchors <=>
       \E u \in U : u.id = s /\ e \in ToSet(a.seeds) /\ e \in u.entities \cup u.names
  /\ x.mentions \subseteq {<<p[1], p[2]>> : p \in x.mentions}
  /\ x.relations \subseteq {<<p[1], p[2]>> : p \in x.relations}
  /\ x.anchors \subseteq {<<p[1], p[2]>> : p \in x.anchors}

\* The pairs of ends of the edges of a kind.
Pairs(g, kind) == {<<e.from[2], e.to[2]>> : e \in {e \in g.edges : e.kind = kind}}

\* _build_index reads the graph of some units.
LEMMA Indexed ==
  ASSUME NEW units, NEW a
  PROVE  IndexOf(Index(Graph(units, a)), ToSet(units), a)
<1>1. PICK U : U = ToSet(units)
  OBVIOUS
<1>2. PICK g : g = Graph(units, a)
  OBVIOUS
<1>3. /\ \A e \in g.edges : \E u \in U : e \in EdgesOf(u, a)
      /\ \A u \in U : \A e \in EdgesOf(u, a) : e \in g.edges
      /\ g.units = U
  BY <1>1, <1>2 DEF Graph, ToSet
<1>4. PICK x : x = Index(g)
  OBVIOUS
<1>5. /\ x.units = U /\ x.mentions = Pairs(g, "sentence_mentions_entity")
      /\ x.relations = Pairs(g, "sentence_has_relation")
      /\ x.anchors = Pairs(g, "seed_entity_to_sentence")
  BY <1>3, <1>4 DEF Index, Pairs
<1>6. ASSUME NEW s, NEW e
      PROVE  <<s, e>> \in Pairs(g, "sentence_mentions_entity") <=> \E u \in U : u.id = s /\ e \in u.entities
  <2>1. ASSUME <<s, e>> \in Pairs(g, "sentence_mentions_entity")
        PROVE  \E u \in U : u.id = s /\ e \in u.entities
    <3>1. PICK d \in g.edges : d.kind = "sentence_mentions_entity" /\ <<s, e>> = <<d.from[2], d.to[2]>>
      BY <2>1 DEF Pairs
    <3>2. PICK u \in U : d \in EdgesOf(u, a)
      BY <1>3
    <3>3. d \in MentionEdges(u)
      BY <3>1, <3>2, EdgesByKind
    <3>4. PICK n \in u.entities : d = Edge("sentence_mentions_entity", SentenceNode(u), Entity(n), u)
      BY <3>3 DEF MentionEdges
    <3>5. s = u.id /\ e = n
      BY <3>1, <3>4, EdgeParts DEF SentenceNode, Entity
    <3>6. QED
      BY <3>5
  <2>2. ASSUME NEW u \in U, u.id = s, e \in u.entities
        PROVE  <<s, e>> \in Pairs(g, "sentence_mentions_entity")
    <3>1. PICK d : d = Edge("sentence_mentions_entity", SentenceNode(u), Entity(e), u)
      OBVIOUS
    <3>2. d \in EdgesOf(u, a)
      BY <2>2, <3>1 DEF MentionEdges, EdgesOf
    <3>3. d.kind = "sentence_mentions_entity" /\ d.from[2] = s /\ d.to[2] = e
      BY <2>2, <3>1, EdgeParts DEF SentenceNode, Entity
    <3>4. d \in g.edges
      BY <1>3, <3>2
    <3>5. QED
      BY <3>3, <3>4 DEF Pairs
  <2>3. QED
    BY <2>1, <2>2
<1>7. ASSUME NEW s, NEW r
      PROVE  <<s, r>> \in Pairs(g, "sentence_has_relation") <=> \E u \in U : u.id = s /\ r \in u.relations
  <2>1. ASSUME <<s, r>> \in Pairs(g, "sentence_has_relation")
        PROVE  \E u \in U : u.id = s /\ r \in u.relations
    <3>1. PICK d \in g.edges : d.kind = "sentence_has_relation" /\ <<s, r>> = <<d.from[2], d.to[2]>>
      BY <2>1 DEF Pairs
    <3>2. PICK u \in U : d \in EdgesOf(u, a)
      BY <1>3
    <3>3. d \in RelationEdges(u)
      BY <3>1, <3>2, EdgesByKind
    <3>4. PICK n \in u.relations : d = Edge("sentence_has_relation", SentenceNode(u), <<"relation", n>>, u)
      BY <3>3 DEF RelationEdges
    <3>5. s = u.id /\ r = n
      BY <3>1, <3>4, EdgeParts DEF SentenceNode
    <3>6. QED
      BY <3>5
  <2>2. ASSUME NEW u \in U, u.id = s, r \in u.relations
        PROVE  <<s, r>> \in Pairs(g, "sentence_has_relation")
    <3>1. PICK d : d = Edge("sentence_has_relation", SentenceNode(u), <<"relation", r>>, u)
      OBVIOUS
    <3>2. d \in EdgesOf(u, a)
      BY <2>2, <3>1 DEF RelationEdges, EdgesOf
    <3>3. d.kind = "sentence_has_relation" /\ d.from[2] = s /\ d.to[2] = r
      BY <2>2, <3>1, EdgeParts DEF SentenceNode
    <3>4. d \in g.edges
      BY <1>3, <3>2
    <3>5. QED
      BY <3>3, <3>4 DEF Pairs
  <2>3. QED
    BY <2>1, <2>2
<1>8. ASSUME NEW e, NEW s
      PROVE  <<e, s>> \in Pairs(g, "seed_entity_to_sentence") <=>
               \E u \in U : u.id = s /\ e \in ToSet(a.seeds) /\ e \in u.entities \cup u.names
  <2>1. ASSUME <<e, s>> \in Pairs(g, "seed_entity_to_sentence")
        PROVE  \E u \in U : u.id = s /\ e \in ToSet(a.seeds) /\ e \in u.entities \cup u.names
    <3>1. PICK d \in g.edges : d.kind = "seed_entity_to_sentence" /\ <<e, s>> = <<d.from[2], d.to[2]>>
      BY <2>1 DEF Pairs
    <3>2. PICK u \in U : d \in EdgesOf(u, a)
      BY <1>3
    <3>3. PICK n \in MatchedSeeds(u, a) : d = Edge("seed_entity_to_sentence", Entity(n), SentenceNode(u), u)
      BY <3>1, <3>2, EdgesByKind
    <3>4. s = u.id /\ e = n
      BY <3>1, <3>3, EdgeParts DEF SentenceNode, Entity
    <3>5. QED
      BY <3>4 DEF MatchedSeeds
  <2>2. ASSUME NEW u \in U, u.id = s, e \in ToSet(a.seeds), e \in u.entities \cup u.names
        PROVE  <<e, s>> \in Pairs(g, "seed_entity_to_sentence")
    <3>1. PICK d : d = Edge("seed_entity_to_sentence", Entity(e), SentenceNode(u), u)
      OBVIOUS
    <3>2. d \in EdgesOf(u, a)
      <4>1. e \in MatchedSeeds(u, a)
        BY <2>2 DEF MatchedSeeds
      <4>2. d \in SeedEdges(u, a)
        BY <3>1, <4>1 DEF SeedEdges
      <4>3. QED
        BY <4>2 DEF EdgesOf
    <3>3. d.kind = "seed_entity_to_sentence" /\ d.from[2] = e /\ d.to[2] = s
      BY <2>2, <3>1, EdgeParts DEF SentenceNode, Entity
    <3>4. d \in g.edges
      BY <1>3, <3>2
    <3>5. QED
      BY <3>3, <3>4 DEF Pairs
  <2>3. QED
    BY <2>1, <2>2
<1>9. \A kind : Pairs(g, kind) \subseteq {<<p[1], p[2]>> : p \in Pairs(g, kind)}
  <2>1. TAKE kind
  <2>2. ASSUME NEW p \in Pairs(g, kind)
        PROVE  p = <<p[1], p[2]>>
    BY DEF Pairs
  <2>3. QED
    BY <2>2
<1>10. IndexOf(x, U, a)
  BY <1>5, <1>6, <1>7, <1>8, <1>9 DEF IndexOf
<1>11. QED
  BY <1>1, <1>2, <1>4, <1>10
-----------------------------------------------------------------------------
(* Component 06: the weights of a path *)

\* The scored units of some chunks, as a set.
UnitsFit(U, chunks) ==
  /\ IsFiniteSet(U) /\ chunks \in Seq(Chunk)
  /\ \A u, v \in U : u.id = v.id => u = v
  /\ \A u \in U : \E r \in DOMAIN chunks : \E s \in DOMAIN Sentences(chunks[r]) :
       IsUnit(u, chunks[r], s, r)

\* The units of a pass fit: names, scores, and an ID for each sentence.
LEMMA ScoredUnitsFit ==
  ASSUME NEW chunks \in Seq(Chunk), Distinct(chunks), NEW units, ScoredOf(units, chunks)
  PROVE  UnitsFit(ToSet(units), chunks)
<1>1. /\ \A u, v \in ToSet(units) : u.id = v.id => u = v
      /\ IsFiniteSet(ToSet(units)) /\ DOMAIN units = 1..Len(units)
  BY UnitsNamed
<1>2. \A u \in ToSet(units) : \E k \in DOMAIN units : u = units[k]
  BY DEF ToSet
<1>3. QED
  BY <1>1, <1>2 DEF UnitsFit, ScoredOf

\* What a unit has: names, a rank, a score, and an ID of two numbers.
LEMMA UnitHas ==
  ASSUME NEW U, NEW chunks, UnitsFit(U, chunks), NEW u \in U
  PROVE  /\ u.score \in Nat /\ u.rank \in Nat \ {0}
         /\ u.entities \subseteq Name /\ IsFiniteSet(u.entities)
         /\ u.title \in u.entities
         /\ u.id = <<u.id[1], u.id[2]>> /\ u.id[1] \in Chunk /\ u.id[1] \in Nat /\ u.id[2] \in Nat
         /\ u.id[1] \in ToSet(chunks) /\ u.id[2] \in DOMAIN Sentences(u.id[1])
         /\ u.title = Paragraph[u.id[1]].title
         /\ u.entities = Mentioned(u.id) /\ u.names = Resolved(u.id)
         /\ u.relations = Sentences(u.id[1])[u.id[2]].relations
<1>1. PICK r \in DOMAIN chunks : \E s \in DOMAIN Sentences(chunks[r]) : IsUnit(u, chunks[r], s, r)
  BY DEF UnitsFit
<1>2. PICK s \in DOMAIN Sentences(chunks[r]) : IsUnit(u, chunks[r], s, r)
  BY <1>1
<1>3. PICK c \in Chunk : c = chunks[r] /\ c \in ToSet(chunks) /\ r \in Nat \ {0}
  BY LenProperties DEF UnitsFit, ToSet
<1>4. /\ u.id = <<c, s>> /\ u.id[1] = c /\ u.id[2] = s /\ u.title = Paragraph[c].title
      /\ u.entities = {Paragraph[c].title} \cup Sentences(c)[s].names
      /\ u.names = ResolvedNames(c, s) /\ u.relations = Sentences(c)[s].relations
      /\ u.rank = r /\ u.score \in Nat
  BY <1>2, <1>3 DEF IsUnit
<1>5. /\ Paragraph[c].title \in Name /\ s \in Nat
      /\ Sentences(c)[s] \in AnySentence /\ IsFiniteSet(Sentences(c)[s].names)
  BY <1>2, <1>3, ParagraphFits
<1>6. Sentences(c)[s].names \subseteq Name
  BY <1>5 DEF AnySentence
<1>7. IsFiniteSet(u.entities)
  <2>1. IsFiniteSet({Paragraph[c].title})
    BY FS_Singleton
  <2>2. \A S, T : IsFiniteSet(S) /\ IsFiniteSet(T) => IsFiniteSet(S \cup T)
    BY FS_Union
  <2>3. IsFiniteSet({Paragraph[c].title} \cup Sentences(c)[s].names)
    BY <1>5, <2>1, <2>2
  <2>4. QED
    BY <1>4, <2>3
<1>8. c \in Nat
  BY ChunksFinite
<1>9. u.entities = Mentioned(u.id) /\ u.names = Resolved(u.id)
  BY <1>4 DEF Mentioned, Resolved
<1>10. QED
  BY <1>2, <1>3, <1>4, <1>5, <1>6, <1>7, <1>8, <1>9

\* A unit is found by its ID.
LEMMA UnitNamed ==
  ASSUME NEW U, NEW chunks, UnitsFit(U, chunks), NEW x, x.units = U, NEW u \in U
  PROVE  UnitOf(x, u.id) = u
BY DEF UnitOf, UnitsFit

\* The scores of some sentences together.
Total(x, ss) == MapThenSumSet(LAMBDA s : UnitOf(x, s).score, ss)

\* A sum of naturals.
LEMMA TotalNat ==
  ASSUME NEW x, NEW S, IsFiniteSet(S), \A s \in S : UnitOf(x, s).score \in Nat
  PROVE  Total(x, S) \in Nat
<1> DEFINE val == [s \in S |-> UnitOf(x, s).score]
           pick == [s \in SUBSET S |-> CHOOSE y \in s : TRUE]
           step == [p \in S \X Nat |-> val[p[1]] + p[2]]
           sums(f) == f = [s \in SUBSET S |-> IF s = {} THEN 0
                             ELSE UnitOf(x, CHOOSE y \in s : TRUE).score
                                    + f[s \ {CHOOSE y \in s : TRUE}]]
           f == CHOOSE g : sums(g)
<1>1. Total(x, S) = f[S]
  BY DEF Total, MapThenSumSet, MapThenFoldSet
<1>2. val \in [S -> Nat] /\ \A s \in S : val[s] = UnitOf(x, s).score
  OBVIOUS
<1> HIDE DEF val
<1>3. step \in [S \X Nat -> Nat] /\ \A y \in S, n \in Nat : step[<<y, n>>] = val[y] + n
  <2>1. \A p \in S \X Nat : p[1] \in S /\ p[2] \in Nat
    OBVIOUS
  <2>2. \A p \in S \X Nat : val[p[1]] + p[2] \in Nat
    BY <1>2, <2>1
  <2>3. QED
    BY <2>2
<1> HIDE DEF step
<1>4. Picks(pick, S)
  BY DEF Picks
<1>5. \A s \in SUBSET S : pick[s] = CHOOSE y \in s : TRUE
  OBVIOUS
<1> HIDE DEF pick
<1>6. Foldable(S, Nat, 0, step, pick)
  BY <1>3, <1>4 DEF Foldable
<1>7. PICK g \in [SUBSET S -> Nat] : IsFold(g, S, Nat, 0, step, pick)
  BY <1>6, FoldExists
<1>8. ASSUME NEW h, NEW s \in SUBSET S, s # {}, h[Rest(pick, s)] \in Nat
      PROVE  step[<<pick[s], h[Rest(pick, s)]>>]
               = UnitOf(x, CHOOSE y \in s : TRUE).score + h[s \ {CHOOSE y \in s : TRUE}]
  <2>1. pick[s] \in S
    BY <1>4, <1>8 DEF Picks
  <2>2. step[<<pick[s], h[Rest(pick, s)]>>] = val[pick[s]] + h[Rest(pick, s)]
    BY <1>3, <1>8, <2>1
  <2>3. QED
    BY <1>2, <1>5, <2>1, <2>2 DEF Rest
<1>9. sums(g)
  <2>1. ASSUME NEW s \in SUBSET S, s # {}
        PROVE  g[s] = UnitOf(x, CHOOSE y \in s : TRUE).score + g[s \ {CHOOSE y \in s : TRUE}]
    <3>1. Rest(pick, s) \in SUBSET S
      BY DEF Rest
    <3>2. g[Rest(pick, s)] \in Nat
      BY <1>7, <3>1
    <3>3. g[s] = step[<<pick[s], g[Rest(pick, s)]>>]
      BY <1>7, <2>1, <3>2 DEF IsFold
    <3>4. QED
      BY <1>8, <2>1, <3>2, <3>3
  <2>2. QED
    BY <1>7, <2>1 DEF IsFold
<1>10. sums(f)
  <2> HIDE DEF sums
  <2>1. QED
    BY <1>9
<1> HIDE DEF f
<1>11. IsFold(f, S, Nat, 0, step, pick)
  <2>1. f[{}] = 0
    BY <1>10
  <2>2. ASSUME NEW s \in SUBSET S, s # {}, f[Rest(pick, s)] \in Nat
        PROVE  f[s] = step[<<pick[s], f[Rest(pick, s)]>>]
    <3>1. f[s] = UnitOf(x, CHOOSE y \in s : TRUE).score + f[s \ {CHOOSE y \in s : TRUE}]
      BY <1>10, <2>2
    <3>2. QED
      BY <1>8, <2>2, <3>1
  <2>3. QED
    BY <2>1, <2>2 DEF IsFold
<1>12. \A s \in SUBSET S : f[s] \in Nat
  BY <1>6, <1>11, FoldTyped
<1>13. QED
  BY <1>1, <1>12

\* What the index says of a unit: its entities and its relations, and who anchors it.
LEMMA LookedUp ==
  ASSUME NEW U, NEW chunks, UnitsFit(U, chunks), NEW x, NEW a, IndexOf(x, U, a)
  PROVE  /\ \A u \in U : EntitiesOf(x, u.id) = u.entities
         /\ \A e : \A s \in SentencesOf(x, e) : \E u \in U : u.id = s /\ e \in u.entities
         /\ \A e : \A s \in AnchoredBy(x, e) : \E u \in U :
              u.id = s /\ e \in ToSet(a.seeds) /\ e \in u.entities \cup u.names
<1>1. ASSUME NEW u \in U
      PROVE  EntitiesOf(x, u.id) = u.entities
  <2>1. ASSUME NEW e \in EntitiesOf(x, u.id)
        PROVE  e \in u.entities
    <3>1. PICK m \in x.mentions : m[1] = u.id /\ e = m[2]
      BY <2>1 DEF EntitiesOf
    <3>2. m = <<m[1], m[2]>>
      BY <3>1 DEF IndexOf
    <3>3. <<u.id, e>> \in x.mentions
      BY <3>1, <3>2
    <3>4. PICK w \in U : w.id = u.id /\ e \in w.entities
      BY <3>3 DEF IndexOf
    <3>5. w = u
      BY <3>4 DEF UnitsFit
    <3>6. QED
      BY <3>4, <3>5
  <2>2. ASSUME NEW e \in u.entities
        PROVE  e \in EntitiesOf(x, u.id)
    <3>1. <<u.id, e>> \in x.mentions
      BY <1>1, <2>2 DEF IndexOf
    <3>2. QED
      BY <3>1 DEF EntitiesOf
  <2>3. QED
    BY <2>1, <2>2
<1>2. ASSUME NEW e, NEW s \in SentencesOf(x, e)
      PROVE  \E u \in U : u.id = s /\ e \in u.entities
  <2>1. PICK m \in x.mentions : m[2] = e /\ s = m[1]
    BY <1>2 DEF SentencesOf
  <2>2. m = <<m[1], m[2]>>
    BY <2>1 DEF IndexOf
  <2>3. <<s, e>> \in x.mentions
    BY <2>1, <2>2
  <2>4. QED
    BY <2>3 DEF IndexOf
<1>3. ASSUME NEW e, NEW s \in AnchoredBy(x, e)
      PROVE  \E u \in U : u.id = s /\ e \in ToSet(a.seeds) /\ e \in u.entities \cup u.names
  <2>1. PICK m \in x.anchors : m[1] = e /\ s = m[2]
    BY <1>3 DEF AnchoredBy
  <2>2. m = <<m[1], m[2]>>
    BY <2>1 DEF IndexOf
  <2>3. <<e, s>> \in x.anchors
    BY <2>1, <2>2
  <2>4. QED
    BY <2>3 DEF IndexOf
<1>4. QED
  BY <1>1, <1>2, <1>3

\* The relations on one or two units are theirs.
LEMMA RelationsLookedUp ==
  ASSUME NEW U, NEW chunks, UnitsFit(U, chunks), NEW x, NEW a, IndexOf(x, U, a),
         NEW u \in U, NEW v \in U
  PROVE  RelationsOn(x, {u.id, v.id}) = u.relations \cup v.relations
<1>1. ASSUME NEW r \in RelationsOn(x, {u.id, v.id})
      PROVE  r \in u.relations \cup v.relations
  <2>1. PICK m \in x.relations : m[1] \in {u.id, v.id} /\ r = m[2]
    BY <1>1 DEF RelationsOn
  <2>2. m = <<m[1], m[2]>>
    BY <2>1 DEF IndexOf
  <2>3. PICK y \in {u, v} : <<y.id, r>> \in x.relations
    BY <2>1, <2>2
  <2>4. PICK w \in U : w.id = y.id /\ r \in w.relations
    BY <2>3 DEF IndexOf
  <2>5. w = y
    BY <2>3, <2>4 DEF UnitsFit
  <2>6. QED
    BY <2>3, <2>4, <2>5
<1>2. ASSUME NEW w \in {u, v}, NEW r \in w.relations
      PROVE  r \in RelationsOn(x, {u.id, v.id})
  <2>1. <<w.id, r>> \in x.relations
    BY <1>2 DEF IndexOf
  <2>2. QED
    BY <1>2, <2>1 DEF RelationsOn
<1>3. QED
  BY <1>1, <1>2

\* The weights of a path are natural numbers.
LEMMA Bonuses ==
  /\ Bonus.type = 1200 /\ Bonus.relation = 960 /\ Bonus.length = 480
  /\ Bonus.specific_bridge = 960 /\ Bonus.generic_bridge = 240 /\ Bonus.specific_answer = 720
  /\ Bonus.rank = 240 /\ Bonus.yes_no = 720
BY DEF Bonus

\* The sentences of a path are those of units.
SentencesKnown(ss, U) == IsFiniteSet(ss) /\ ss # {} /\ \A s \in ss : \E u \in U : u.id = s

\* The average score of the sentences.
LEMMA AverageFits ==
  ASSUME NEW U, NEW chunks, UnitsFit(U, chunks), NEW x, x.units = U, NEW ss, SentencesKnown(ss, U)
  PROVE  AverageScore(x, ss) \in Nat
<1>1. \A s \in ss : UnitOf(x, s).score \in Nat
  BY UnitNamed, UnitHas DEF SentencesKnown
<1>2. Total(x, ss) \in Nat
  BY <1>1, TotalNat DEF SentencesKnown
<1>3. Cardinality(ss) \in Nat /\ Cardinality(ss) # 0
  BY FS_CardinalityType, FS_EmptySet DEF SentencesKnown
<1>4. 2 * Total(x, ss) \in Nat
  BY <1>2
<1>5. (2 * Total(x, ss)) \div Cardinality(ss) \in Nat
  BY <1>3, <1>4, DivNat
<1>6. QED
  BY <1>5 DEF AverageScore, Total

\* The bonus for the relations.
LEMMA RelationScoreFits ==
  ASSUME NEW x, NEW ss, NEW a, AnalysisFits(a)
  PROVE  RelationScore(x, ss, a) \in Nat
<1> DEFINE matched == RelationsOn(x, ss) \cap ToSet(a.required)
           wanted == Max({1, Len(a.required)})
<1>1. IsFiniteSet(ToSet(a.required)) /\ Len(a.required) \in Nat
  BY ElementsFinite DEF AnalysisFits
<1>2. Cardinality(matched) \in Nat
  <2>1. matched = ToSet(a.required) \cap RelationsOn(x, ss)
    OBVIOUS
  <2>2. QED
    BY <1>1, <2>1, PartSize
<1>3. wanted \in Nat \ {0}
  BY <1>1, GreatestOfTwo
<1> HIDE DEF matched, wanted
<1>4. 960 * Cardinality(matched) \in Nat
  BY <1>2
<1>5. (960 * Cardinality(matched)) \div wanted \in Nat
  BY <1>3, <1>4, DivNat
<1>6. Min({960, (960 * Cardinality(matched)) \div wanted}) \in Nat
  BY <1>5, LeastOfTwo
<1>7. QED
  BY <1>6, Bonuses DEF RelationScore, matched, wanted

\* The bonus for the rank.
LEMMA RankBonusFits ==
  ASSUME NEW U, NEW chunks, UnitsFit(U, chunks), NEW x, x.units = U, NEW ss, SentencesKnown(ss, U)
  PROVE  Bonus.rank \div Min({UnitOf(x, t).rank : t \in ss}) \in Nat
<1> DEFINE T == {UnitOf(x, t).rank : t \in ss}
<1>1. T \subseteq Nat \ {0}
  BY UnitNamed, UnitHas DEF SentencesKnown
<1>2. T # {}
  BY DEF SentencesKnown
<1> HIDE DEF T
<1>3. Min(T) \in Nat \ {0}
  BY <1>1, <1>2, LeastOf
<1>4. 240 \div Min(T) \in Nat
  BY <1>3, DivNat
<1>5. QED
  BY <1>4, Bonuses DEF T

\* _score_path: a natural number, so that scores are compared as numbers.
LEMMA PathScoreFits ==
  ASSUME NEW U, NEW chunks, UnitsFit(U, chunks), NEW x, x.units = U, NEW ss, SentencesKnown(ss, U),
         NEW a, AnalysisFits(a), NEW s, NEW e, NEW bridge
  PROVE  PathScore(x, a, ss, s, e, bridge) \in Nat
<1> DEFINE average == AverageScore(x, ss)
           type == IF <<s, a.expected>> \in x.types THEN Bonus.type ELSE 0
           relation == RelationScore(x, ss, a)
           length == IF bridge = 0 \/ Cardinality(ss) = 2 THEN Bonus.length ELSE (2 * Bonus.length) \div 5
           link == IF bridge = 0 THEN 0 ELSE IF LooksSpecific(bridge) THEN Bonus.specific_bridge
                                        ELSE Bonus.generic_bridge
           answer == IF LooksSpecific(e) THEN Bonus.specific_answer ELSE 0
           rank == Bonus.rank \div Min({UnitOf(x, t).rank : t \in ss})
<1>1. average \in Nat /\ relation \in Nat /\ rank \in Nat
  BY AverageFits, RelationScoreFits, RankBonusFits
<1>2. type \in Nat /\ link \in Nat /\ answer \in Nat
  BY Bonuses
<1>3. length \in Nat
  BY Bonuses, DivNat
<1>4. PathScore(x, a, ss, s, e, bridge) = average + type + relation + length + link + answer + rank
  BY DEF PathScore
<1> HIDE DEF average, type, relation, length, link, answer, rank
<1>5. QED
  BY <1>1, <1>2, <1>3, <1>4
-----------------------------------------------------------------------------
(* Component 06: what a path is made from *)

\* How the templates build a path of each kind, from units u and v and some of their names.
BridgeBy(p, x, a, u, v, seed, b, e) ==
  /\ p = Path(x, a, "bridge", <<u.id, v.id>>, <<seed, b, e>>, b)
  /\ seed \in ToSet(a.seeds) /\ seed \in u.entities \cup u.names
  /\ u.id # v.id /\ b \in u.entities \cap v.entities /\ b \notin ToSet(a.seeds)
  /\ e \in v.entities /\ e \notin ToSet(a.seeds) /\ e # b

\* p goes from a seed to another name of the same sentence.
FactoidBy(p, x, a, u, seed, e) ==
  /\ p = Path(x, a, "factoid", <<u.id>>, <<seed, e>>, 0)
  /\ seed \in ToSet(a.seeds) /\ seed \in u.entities \cup u.names
  /\ e \in u.entities /\ e \notin ToSet(a.seeds)

\* p goes from a target to the best other name of the same sentence.
ComparisonBy(p, x, a, u, target, e) ==
  /\ p = Path(x, a, "comparison", <<u.id>>, <<target, e>>, 0)
  /\ target \in u.entities /\ e \in u.entities /\ e # target

\* p compares two seeds of one sentence.
YesNoBy(p, x, a, u, left, right) ==
  /\ p = YesNoPath(x, u.id, left, right)
  /\ left \in ToSet(a.seeds) /\ right \in ToSet(a.seeds) /\ left # right
  /\ left \in u.entities /\ right \in u.entities

\* What a path is made from.
MadeBy(p, kind, x, U, a) ==
  CASE kind = "bridge" -> \E u, v \in U : \E seed, b, e \in Name : BridgeBy(p, x, a, u, v, seed, b, e)
    [] kind = "factoid" -> \E u \in U : \E seed, e \in Name : FactoidBy(p, x, a, u, seed, e)
    [] kind = "comparison" -> \E u \in U : \E target, e \in Name : ComparisonBy(p, x, a, u, target, e)
    [] kind = "yes_no" -> \E u \in U : \E left, right \in Name : YesNoBy(p, x, a, u, left, right)

\* The seeds are names.
LEMMA SeedsAreNames ==
  ASSUME NEW a, AnalysisFits(a)
  PROVE  ToSet(a.seeds) \subseteq Name /\ IsFiniteSet(ToSet(a.seeds))
BY ElementsFinite DEF AnalysisFits

\* Over a bridge to another unit.
LEMMA BridgesMade ==
  ASSUME NEW U, NEW chunks, UnitsFit(U, chunks), NEW x, NEW a, IndexOf(x, U, a), AnalysisFits(a),
         NEW p \in BridgePaths(x, a)
  PROVE  MadeBy(p, "bridge", x, U, a)
<1>1. PICK seed \in ToSet(a.seeds) : \E s \in AnchoredBy(x, seed) :
             \E b \in EntitiesOf(x, s) \ ToSet(a.seeds) : p \in BridgePathsOver(x, a, seed, s, b)
  BY DEF BridgePaths
<1>2. PICK s \in AnchoredBy(x, seed) :
             \E b \in EntitiesOf(x, s) \ ToSet(a.seeds) : p \in BridgePathsOver(x, a, seed, s, b)
  BY <1>1
<1>3. PICK b \in EntitiesOf(x, s) \ ToSet(a.seeds) : p \in BridgePathsOver(x, a, seed, s, b)
  BY <1>2
<1>4. PICK t \in SentencesOf(x, b) \ {s} :
             \E e \in Candidates(x, t, ToSet(a.seeds) \cup {b}) :
               p = Path(x, a, "bridge", <<s, t>>, <<seed, b, e>>, b)
  BY <1>3 DEF BridgePathsOver
<1>5. PICK e \in Candidates(x, t, ToSet(a.seeds) \cup {b}) :
               p = Path(x, a, "bridge", <<s, t>>, <<seed, b, e>>, b)
  BY <1>4
<1>6. PICK u \in U : u.id = s /\ seed \in u.entities \cup u.names
  BY <1>2, LookedUp
<1>7. PICK v \in U : v.id = t /\ b \in v.entities
  BY <1>4, LookedUp
<1>8. EntitiesOf(x, s) = u.entities /\ EntitiesOf(x, t) = v.entities
  BY <1>6, <1>7, LookedUp
<1>9. e \in v.entities /\ e \notin ToSet(a.seeds) /\ e # b
  BY <1>5, <1>8 DEF Candidates
<1>10. BridgeBy(p, x, a, u, v, seed, b, e)
  BY <1>1, <1>3, <1>4, <1>5, <1>6, <1>7, <1>8, <1>9 DEF BridgeBy
<1>11. seed \in Name /\ b \in Name /\ e \in Name
  BY <1>1, <1>7, <1>9, UnitHas, SeedsAreNames
<1>12. QED
  BY <1>10, <1>11 DEF MadeBy

\* From a seed to another name of its sentence.
LEMMA FactoidsMade ==
  ASSUME NEW U, NEW chunks, UnitsFit(U, chunks), NEW x, NEW a, IndexOf(x, U, a), AnalysisFits(a),
         NEW p \in FactoidPaths(x, a)
  PROVE  MadeBy(p, "factoid", x, U, a)
<1>1. PICK seed \in ToSet(a.seeds) : \E s \in AnchoredBy(x, seed) :
             \E e \in Candidates(x, s, ToSet(a.seeds)) :
               p = Path(x, a, "factoid", <<s>>, <<seed, e>>, 0)
  BY DEF FactoidPaths
<1>2. PICK s \in AnchoredBy(x, seed) : \E e \in Candidates(x, s, ToSet(a.seeds)) :
               p = Path(x, a, "factoid", <<s>>, <<seed, e>>, 0)
  BY <1>1
<1>3. PICK e \in Candidates(x, s, ToSet(a.seeds)) : p = Path(x, a, "factoid", <<s>>, <<seed, e>>, 0)
  BY <1>2
<1>4. PICK u \in U : u.id = s /\ seed \in u.entities \cup u.names
  BY <1>2, LookedUp
<1>5. e \in u.entities /\ e \notin ToSet(a.seeds)
  BY <1>3, <1>4, LookedUp DEF Candidates
<1>6. FactoidBy(p, x, a, u, seed, e)
  BY <1>1, <1>3, <1>4, <1>5 DEF FactoidBy
<1>7. seed \in Name /\ e \in Name
  BY <1>1, <1>5, UnitHas, SeedsAreNames
<1>8. QED
  BY <1>6, <1>7 DEF MadeBy

\* Two seeds in one sentence.
LEMMA YesNosMade ==
  ASSUME NEW U, NEW chunks, UnitsFit(U, chunks), NEW x, NEW a, IndexOf(x, U, a), AnalysisFits(a),
         NEW p \in YesNoPaths(x, a)
  PROVE  MadeBy(p, "yes_no", x, U, a)
<1>1. PICK k \in (DOMAIN a.seeds) \X (DOMAIN a.seeds) :
        /\ k[1] < k[2]
        /\ \E s \in SentencesOf(x, a.seeds[k[1]]) \cap SentencesOf(x, a.seeds[k[2]]) :
             p = YesNoPath(x, s, a.seeds[k[1]], a.seeds[k[2]])
  BY DEF YesNoPaths
<1>2. PICK l \in DOMAIN a.seeds, r \in DOMAIN a.seeds : l = k[1] /\ r = k[2]
  BY <1>1
<1>3. PICK s \in SentencesOf(x, a.seeds[l]) \cap SentencesOf(x, a.seeds[r]) :
        p = YesNoPath(x, s, a.seeds[l], a.seeds[r])
  BY <1>1, <1>2
<1>4. l < r /\ l \in Nat /\ r \in Nat
  BY <1>1, <1>2, ElementsFinite DEF AnalysisFits
<1>5. a.seeds[l] # a.seeds[r]
  BY <1>4 DEF AnalysisFits
<1>6. PICK u \in U : u.id = s /\ a.seeds[l] \in u.entities
  BY <1>3, LookedUp
<1>7. PICK v \in U : v.id = s /\ a.seeds[r] \in v.entities
  BY <1>3, LookedUp
<1>8. u = v
  BY <1>6, <1>7 DEF UnitsFit
<1>9. a.seeds[l] \in ToSet(a.seeds) /\ a.seeds[r] \in ToSet(a.seeds)
  BY DEF ToSet
<1>10. YesNoBy(p, x, a, u, a.seeds[l], a.seeds[r])
  BY <1>3, <1>5, <1>6, <1>7, <1>8, <1>9 DEF YesNoBy
<1>11. a.seeds[l] \in Name /\ a.seeds[r] \in Name
  BY <1>9, SeedsAreNames
<1>12. QED
  BY <1>10, <1>11 DEF MadeBy

\* _rank_answer_candidates: there is a best one of finitely many.
LEMMA BestExists ==
  ASSUME NEW x, NEW s, NEW excluded, NEW expected,
         IsFiniteSet(Candidates(x, s, excluded)), Candidates(x, s, excluded) # {},
         Candidates(x, s, excluded) \subseteq Name
  PROVE  BestCandidate(x, s, excluded, expected) \in Candidates(x, s, excluded)
<1> DEFINE C == Candidates(x, s, excluded)
           rank == [e \in C |-> CandidateRank(x, s, expected, e)]
           R == {k \in C \X C : rank[k[1]] > rank[k[2]] \/ (rank[k[1]] = rank[k[2]] /\ k[1] < k[2])}
           placed == {<<Cardinality(Under(R, C, e)), e>> : e \in C}
           seq == [i \in 1..Cardinality(C) |-> (CHOOSE k \in placed : k[1] = i - 1)[2]]
<1>1. \A e \in C : rank[e] = CandidateRank(x, s, expected, e) /\ rank[e] \in Nat
  BY DEF CandidateRank, CandidateBonus
<1>2. IsFiniteSet(C) /\ C # {} /\ C \subseteq Nat
  BY DEF Name
<1> HIDE DEF C, rank
<1>3. \A e, f \in C : <<e, f>> \in R <=> rank[e] > rank[f] \/ (rank[e] = rank[f] /\ e < f)
  OBVIOUS
<1>4. Listing(seq, placed, C, R)
  BY DEF Listing
<1> HIDE DEF R, seq, placed
<1>5. Orders(R, C)
  BY <1>1, <1>2, <1>3 DEF Orders
<1>6. /\ seq \in Seq(C) /\ Len(seq) = Cardinality(C) /\ Cardinality(C) \in Nat
      /\ \A i, j \in 1..Cardinality(C) : i < j <=> <<seq[i], seq[j]>> \in R
      /\ \A e \in C : \E i \in 1..Cardinality(C) : seq[i] = e
  BY <1>2, <1>4, <1>5, Listed
<1>7. 1 \in 1..Cardinality(C) /\ seq[1] \in C
  <2>1. PICK e \in C : TRUE
    BY <1>2
  <2>2. PICK i \in 1..Cardinality(C) : seq[i] = e
    BY <1>6
  <2>3. 1 \in 1..Cardinality(C)
    BY <1>6, <2>2
  <2>4. DOMAIN seq = 1..Cardinality(C)
    BY <1>6
  <2>5. QED
    BY <1>6, <2>3, <2>4
<1>8. \A f \in C : rank[seq[1]] > rank[f] \/ (rank[seq[1]] = rank[f] /\ seq[1] <= f)
  <2>1. TAKE f \in C
  <2>2. PICK i \in 1..Cardinality(C) : seq[i] = f
    BY <1>6
  <2>3. CASE i = 1
    BY <1>1, <1>2, <2>2, <2>3
  <2>4. CASE i # 1
    <3>1. 1 < i
      BY <1>6, <2>4
    <3>2. <<seq[1], f>> \in R
      BY <1>6, <1>7, <2>2, <3>1
    <3>3. rank[seq[1]] > rank[f] \/ (rank[seq[1]] = rank[f] /\ seq[1] < f)
      BY <1>3, <1>7, <3>2
    <3>4. seq[1] \in Nat /\ f \in Nat
      BY <1>2, <1>7
    <3>5. QED
      BY <3>3, <3>4
  <2>5. QED
    BY <2>3, <2>4
<1>9. \E e \in C : \A f \in C :
        LET re == CandidateRank(x, s, expected, e)  rf == CandidateRank(x, s, expected, f)
        IN re > rf \/ (re = rf /\ e <= f)
  <2>1. \A f \in C : CandidateRank(x, s, expected, f) = rank[f]
    BY <1>1
  <2>2. QED
    BY <1>7, <1>8, <2>1
<1>10. QED
  BY <1>9 DEF BestCandidate, C

\* The best name besides a target, in each sentence that mentions the target.
LEMMA ComparisonsMade ==
  ASSUME NEW U, NEW chunks, UnitsFit(U, chunks), NEW x, NEW a, IndexOf(x, U, a), AnalysisFits(a),
         NEW g, NEW p \in ComparisonPaths(x, g, a)
  PROVE  MadeBy(p, "comparison", x, U, a)
<1>1. PICK target \in ComparisonTargets(g, a) :
        \E s \in SentencesOf(x, target) :
          /\ Candidates(x, s, {target}) # {}
          /\ p = Path(x, a, "comparison", <<s>>,
                      <<target, BestCandidate(x, s, {target}, a.expected)>>, 0)
  BY DEF ComparisonPaths
<1>2. PICK s \in SentencesOf(x, target) :
          /\ Candidates(x, s, {target}) # {}
          /\ p = Path(x, a, "comparison", <<s>>,
                      <<target, BestCandidate(x, s, {target}, a.expected)>>, 0)
  BY <1>1
<1> DEFINE e == BestCandidate(x, s, {target}, a.expected)
<1>3. PICK u \in U : u.id = s /\ target \in u.entities
  BY <1>2, LookedUp
<1>4. Candidates(x, s, {target}) = u.entities \ {target}
  BY <1>3, LookedUp DEF Candidates
<1>5. IsFiniteSet(u.entities) /\ u.entities \subseteq Name
  BY UnitHas
<1>6. IsFiniteSet(u.entities \ {target})
  BY <1>5, FS_Subset
<1>7. e \in Candidates(x, s, {target})
  BY <1>2, <1>4, <1>5, <1>6, BestExists
<1> HIDE DEF e
<1>8. p = Path(x, a, "comparison", <<s>>, <<target, e>>, 0)
  BY <1>2 DEF e
<1>9. ComparisonBy(p, x, a, u, target, e)
  BY <1>3, <1>4, <1>7, <1>8 DEF ComparisonBy
<1>10. target \in Name /\ e \in Name
  BY <1>3, <1>4, <1>5, <1>7
<1>11. QED
  BY <1>9, <1>10 DEF MadeBy

\* The kind of paths that a question is searched for.
KindSought(a) == IF a.type = "yes_no" /\ Len(a.seeds) < 2 THEN "factoid" ELSE a.type

\* search_paths: every path is of that kind.
LEMMA PathsMade ==
  ASSUME NEW U, NEW chunks, UnitsFit(U, chunks), NEW x, NEW a, IndexOf(x, U, a), AnalysisFits(a),
         NEW g, NEW p \in PathsByType(x, g, a)
  PROVE  MadeBy(p, KindSought(a), x, U, a)
<1>1. Len(a.seeds) \in Nat
  BY ElementsFinite DEF AnalysisFits
<1>2. CASE a.type = "bridge"
  BY <1>2, BridgesMade DEF PathsByType, KindSought
<1>3. CASE a.type = "comparison"
  BY <1>3, ComparisonsMade DEF PathsByType, KindSought
<1>4. CASE a.type = "yes_no" /\ Len(a.seeds) >= 2
  <2>1. KindSought(a) = "yes_no"
    BY <1>1, <1>4 DEF KindSought
  <2>2. QED
    BY <1>4, <2>1, YesNosMade DEF PathsByType
<1>5. CASE a.type = "factoid" \/ (a.type = "yes_no" /\ ~(Len(a.seeds) >= 2))
  <2>1. KindSought(a) = "factoid"
    BY <1>1, <1>5 DEF KindSought
  <2>2. QED
    BY <1>5, <2>1, FactoidsMade DEF PathsByType
<1>6. QED
  BY <1>2, <1>3, <1>4, <1>5 DEF AnalysisFits

\* Joining tuples.
LEMMA PairsJoined ==
  ASSUME NEW w, NEW y, NEW z, NEW q
  PROVE  <<w, y>> \o <<z, q>> = <<w, y, z, q>>
<1> DEFINE S == {w, y, z, q}
           l == <<w, y>> \o <<z, q>>
           r == <<w, y, z, q>>
<1>1. w \in S /\ y \in S /\ z \in S /\ q \in S
  OBVIOUS
<1> HIDE DEF S
<1>2. l \in Seq(S) /\ r \in Seq(S)
  BY <1>1
<1>3. Len(l) = 4 /\ Len(r) = 4
  OBVIOUS
<1>4. \A i \in 1..4 : l[i] = r[i]
  OBVIOUS
<1>5. QED
  BY <1>2, <1>3, <1>4, SeqEqual

\* Three nodes and what follows them.
LEMMA TripleJoined ==
  ASSUME NEW c, NEW b, NEW e, NEW w, NEW y, NEW z, NEW q
  PROVE  <<c, b, e>> \o <<w, y, z, q>> = <<c, b, e, w, y, z, q>>
<1> DEFINE S == {c, b, e, w, y, z, q}
           l == <<c, b, e>> \o <<w, y, z, q>>
           r == <<c, b, e, w, y, z, q>>
<1>1. c \in S /\ b \in S /\ e \in S /\ w \in S /\ y \in S /\ z \in S /\ q \in S
  OBVIOUS
<1> HIDE DEF S
<1>2. l \in Seq(S) /\ r \in Seq(S)
  BY <1>1
<1>3. Len(l) = 7 /\ Len(r) = 7
  OBVIOUS
<1>4. \A i \in 1..7 : l[i] = r[i]
  OBVIOUS
<1>5. QED
  BY <1>2, <1>3, <1>4, SeqEqual

\* The elements, the end and the flattening of one or two pairs.
IsPair(s) == s = <<s[1], s[2]>>

\* The nodes of one sentence s between the names c and e.
OneInRow(s, c, e) ==
  /\ ToSet(<<s>>) = {s} /\ Last(<<s>>) = s /\ <<s>>[1] = s /\ <<s>> # <<>>
  /\ Last(<<c, e>>) = e /\ <<c, e>>[1] = c
  /\ <<c, e>> \o FlattenSeq(<<s>>) = <<c, e, s[1], s[2]>>

\* The nodes of two sentences over the names c, b and e.
TwoInRow(s, t, c, b, e) ==
  /\ ToSet(<<s, t>>) = {s, t} /\ Last(<<s, t>>) = t /\ <<s, t>>[1] = s /\ <<s, t>> # <<>>
  /\ Last(<<c, b, e>>) = e /\ <<c, b, e>>[1] = c
  /\ <<c, b, e>> \o FlattenSeq(<<s, t>>) = <<c, b, e, s[1], s[2], t[1], t[2]>>

\* The nodes of a path of one sentence.
LEMMA OneSentence ==
  ASSUME NEW s, IsPair(s), NEW c, NEW e
  PROVE  OneInRow(s, c, e)
<1>1. ToSet(<<s>>) = {s} /\ <<s>>[1] = s /\ <<s>> # <<>>
  BY DEF ToSet
<1>2. Last(<<s>>) = s /\ Last(<<c, e>>) = e /\ <<c, e>>[1] = c
  BY DEF Last
<1>3. FlattenSeq(<<s>>) = s
  <2>1. Short(<<s>>) /\ Len(<<s>>) = 1 /\ <<s>>[1] = s
    BY DEF Short
  <2>2. QED
    BY <2>1, FlatOneOrTwo DEF FlatIsWhole
<1>4. <<c, e>> \o <<s[1], s[2]>> = <<c, e, s[1], s[2]>>
  BY PairsJoined
<1>5. QED
  BY <1>1, <1>2, <1>3, <1>4 DEF IsPair, OneInRow

\* The nodes of a path of two sentences.
LEMMA TwoSentences ==
  ASSUME NEW s, IsPair(s), NEW t, IsPair(t), NEW c, NEW b, NEW e
  PROVE  TwoInRow(s, t, c, b, e)
<1>1. ToSet(<<s, t>>) = {s, t} /\ <<s, t>>[1] = s /\ <<s, t>> # <<>>
  BY DEF ToSet
<1>2. Last(<<s, t>>) = t /\ Last(<<c, b, e>>) = e /\ <<c, b, e>>[1] = c
  BY DEF Last
<1>3. FlattenSeq(<<s, t>>) = s \o t
  <2>1. Short(<<s, t>>) /\ Len(<<s, t>>) = 2 /\ <<s, t>>[1] = s /\ <<s, t>>[2] = t
    BY DEF Short
  <2>2. QED
    BY <2>1, FlatOneOrTwo DEF FlatIsWhole
<1>4. <<s[1], s[2]>> \o <<t[1], t[2]>> = <<s[1], s[2], t[1], t[2]>>
  BY PairsJoined
<1>5. <<c, b, e>> \o <<s[1], s[2], t[1], t[2]>> = <<c, b, e, s[1], s[2], t[1], t[2]>>
  BY TripleJoined
<1>6. s \o t = <<s[1], s[2], t[1], t[2]>>
  BY <1>4 DEF IsPair
<1>7. QED
  BY <1>1, <1>2, <1>3, <1>5, <1>6 DEF TwoInRow

\* _make_path: the parts of a path.
LEMMA PathParts ==
  ASSUME NEW x, NEW a, NEW kind, NEW sentences, NEW chain, NEW bridge, NEW p,
         p = Path(x, a, kind, sentences, chain, bridge)
  PROVE  /\ p.kind = kind /\ p.sentences = sentences /\ p.chain = chain /\ p.bridge = bridge
         /\ p.relations = RelationsOn(x, ToSet(sentences)) /\ p.answer = Last(chain)
         /\ p.answer_type = a.expected
         /\ p.score = PathScore(x, a, ToSet(sentences), Last(sentences), Last(chain), bridge)
BY DEF Path

\* A path over a bridge.
LEMMA BridgeParts ==
  ASSUME NEW U, NEW chunks, UnitsFit(U, chunks), NEW x, NEW a, IndexOf(x, U, a), AnalysisFits(a),
         NEW u \in U, NEW v \in U, NEW seed, NEW b, NEW e, NEW p, BridgeBy(p, x, a, u, v, seed, b, e)
  PROVE  /\ p.kind = "bridge" /\ p.sentences = <<u.id, v.id>> /\ p.chain = <<seed, b, e>>
         /\ p.bridge = b /\ p.relations = u.relations \cup v.relations /\ p.answer = e
         /\ p.answer_type = a.expected /\ p.score \in Nat
         /\ PathNodes(p) = <<seed, b, e, u.id[1], u.id[2], v.id[1], v.id[2]>>
<1>1. IsPair(u.id) /\ IsPair(v.id)
  BY UnitHas DEF IsPair
<1>2. p = Path(x, a, "bridge", <<u.id, v.id>>, <<seed, b, e>>, b)
  BY DEF BridgeBy
<1>3. /\ ToSet(<<u.id, v.id>>) = {u.id, v.id} /\ Last(<<seed, b, e>>) = e
      /\ <<seed, b, e>> \o FlattenSeq(<<u.id, v.id>>)
           = <<seed, b, e, u.id[1], u.id[2], v.id[1], v.id[2]>>
  <2>1. TwoInRow(u.id, v.id, seed, b, e)
    BY <1>1, TwoSentences
  <2>2. QED
    BY <2>1 DEF TwoInRow
<1>4. SentencesKnown({u.id, v.id}, U)
  <2>1. IsFiniteSet({u.id}) /\ IsFiniteSet({v.id})
    BY FS_Singleton
  <2>2. \A S, T : IsFiniteSet(S) /\ IsFiniteSet(T) => IsFiniteSet(S \cup T)
    BY FS_Union
  <2>3. {u.id, v.id} = {u.id} \cup {v.id}
    OBVIOUS
  <2>4. IsFiniteSet({u.id, v.id})
    BY <2>1, <2>2, <2>3
  <2>5. QED
    BY <2>4 DEF SentencesKnown
<1>5. x.units = U
  BY DEF IndexOf
<1>6. PathScore(x, a, {u.id, v.id}, Last(<<u.id, v.id>>), e, b) \in Nat
  BY <1>4, <1>5, PathScoreFits
<1>7. RelationsOn(x, {u.id, v.id}) = u.relations \cup v.relations
  BY RelationsLookedUp
<1>8. /\ p.kind = "bridge" /\ p.sentences = <<u.id, v.id>> /\ p.chain = <<seed, b, e>> /\ p.bridge = b
      /\ p.relations = RelationsOn(x, ToSet(<<u.id, v.id>>)) /\ p.answer = Last(<<seed, b, e>>)
      /\ p.answer_type = a.expected
      /\ p.score = PathScore(x, a, ToSet(<<u.id, v.id>>), Last(<<u.id, v.id>>), Last(<<seed, b, e>>), b)
  BY <1>2, PathParts
<1>9. QED
  BY <1>3, <1>6, <1>7, <1>8 DEF PathNodes

\* A path of one sentence.
LEMMA SingleParts ==
  ASSUME NEW U, NEW chunks, UnitsFit(U, chunks), NEW x, NEW a, IndexOf(x, U, a), AnalysisFits(a),
         NEW u \in U, NEW kind, NEW c, NEW e, NEW p, p = Path(x, a, kind, <<u.id>>, <<c, e>>, 0)
  PROVE  /\ p.kind = kind /\ p.sentences = <<u.id>> /\ p.chain = <<c, e>>
         /\ p.bridge = 0 /\ p.relations = u.relations /\ p.answer = e
         /\ p.answer_type = a.expected /\ p.score \in Nat
         /\ PathNodes(p) = <<c, e, u.id[1], u.id[2]>>
<1>1. IsPair(u.id)
  BY UnitHas DEF IsPair
<1>2. /\ ToSet(<<u.id>>) = {u.id} /\ Last(<<c, e>>) = e
      /\ <<c, e>> \o FlattenSeq(<<u.id>>) = <<c, e, u.id[1], u.id[2]>>
  BY <1>1, OneSentence DEF OneInRow
<1>3. SentencesKnown({u.id}, U)
  BY FS_Singleton DEF SentencesKnown
<1>4. x.units = U
  BY DEF IndexOf
<1>5. PathScore(x, a, {u.id}, Last(<<u.id>>), e, 0) \in Nat
  BY <1>3, <1>4, PathScoreFits
<1>6. RelationsOn(x, {u.id}) = u.relations
  <2>1. RelationsOn(x, {u.id, u.id}) = u.relations \cup u.relations
    BY RelationsLookedUp
  <2>2. {u.id, u.id} = {u.id}
    OBVIOUS
  <2>3. QED
    BY <2>1, <2>2
<1>7. /\ p.kind = kind /\ p.sentences = <<u.id>> /\ p.chain = <<c, e>> /\ p.bridge = 0
      /\ p.relations = RelationsOn(x, ToSet(<<u.id>>)) /\ p.answer = Last(<<c, e>>)
      /\ p.answer_type = a.expected
      /\ p.score = PathScore(x, a, ToSet(<<u.id>>), Last(<<u.id>>), Last(<<c, e>>), 0)
  BY PathParts
<1>8. QED
  BY <1>2, <1>5, <1>6, <1>7 DEF PathNodes

\* A path that compares two seeds in one sentence.
LEMMA YesNoParts ==
  ASSUME NEW U, NEW chunks, UnitsFit(U, chunks), NEW x, NEW a, IndexOf(x, U, a),
         AnalysisFits(a), NEW u \in U, NEW left, NEW right, NEW p, YesNoBy(p, x, a, u, left, right)
  PROVE  /\ p.kind = "yes_no" /\ p.sentences = <<u.id>> /\ p.chain = <<left, right>>
         /\ p.bridge = 0 /\ p.relations = u.relations /\ p.answer = 0
         /\ p.answer_type = "BOOLEAN" /\ p.score \in Nat
         /\ PathNodes(p) = <<left, right, u.id[1], u.id[2]>>
<1>1. IsPair(u.id)
  BY UnitHas DEF IsPair
<1>2. <<left, right>> \o FlattenSeq(<<u.id>>) = <<left, right, u.id[1], u.id[2]>>
  BY <1>1, OneSentence DEF OneInRow
<1>3. RelationsOn(x, {u.id}) = u.relations
  <2>1. RelationsOn(x, {u.id, u.id}) = u.relations \cup u.relations
    BY RelationsLookedUp
  <2>2. {u.id, u.id} = {u.id}
    OBVIOUS
  <2>3. QED
    BY <2>1, <2>2
<1>4. UnitOf(x, u.id).score \in Nat
  BY UnitNamed, UnitHas DEF IndexOf
<1>5. /\ p.kind = "yes_no" /\ p.sentences = <<u.id>> /\ p.chain = <<left, right>> /\ p.bridge = 0
      /\ p.relations = RelationsOn(x, {u.id}) /\ p.answer = 0 /\ p.answer_type = "BOOLEAN"
      /\ p.score = 2 * UnitOf(x, u.id).score + Bonus.yes_no
  BY DEF YesNoBy, YesNoPath
<1>6. 2 * UnitOf(x, u.id).score + Bonus.yes_no \in Nat
  BY <1>4, Bonuses
<1>7. QED
  BY <1>2, <1>3, <1>5, <1>6 DEF PathNodes

\* What every path says: it connects units u and v of the graph, one or two.
Ends(p, u, v) ==
  /\ p.sentences # <<>> /\ p.sentences[1] = u.id /\ Last(p.sentences) = v.id
  /\ ToSet(p.sentences) = {u.id, v.id}

\* What p tells is on the units u and v of its ends.
Tells(p, kind, a, u, v) ==
  /\ p.kind = kind /\ p.relations = u.relations \cup v.relations
  /\ p.chain[1] \in u.entities \cup u.names
  /\ Last(p.chain) \in v.entities /\ Last(p.chain) # p.chain[1]
  /\ p.score \in Nat /\ p.answer \in Nat
  /\ p.answer_type = a.expected \/ (kind = "yes_no" /\ p.answer_type = "BOOLEAN")
  /\ kind \in {"bridge", "factoid"} => p.answer \notin ToSet(a.seeds)
  /\ kind = "bridge" => /\ u.id # v.id /\ p.bridge \in u.entities \cap v.entities
                        /\ p.bridge # 0 /\ p.bridge # p.answer /\ p.bridge \notin ToSet(a.seeds)
  /\ kind # "bridge" => u = v
  /\ kind = "yes_no" => /\ p.answer = 0
                        /\ \E l, r \in ToSet(a.seeds) \cap u.entities : l # r

\* p is about two units of U, which may be the same.
Told(p, kind, U, a) == \E u, v \in U : Ends(p, u, v) /\ Tells(p, kind, a, u, v)

\* Every path tells of the units at its ends: relations, names and answer are theirs.
LEMMA MadeTold ==
  ASSUME NEW U, NEW chunks, UnitsFit(U, chunks), NEW x, NEW a, IndexOf(x, U, a), AnalysisFits(a),
         NEW kind \in {"bridge", "factoid", "comparison", "yes_no"}, NEW p, MadeBy(p, kind, x, U, a)
  PROVE  Told(p, kind, U, a)
<1>1. CASE kind = "bridge"
  <2>1. PICK u, v \in U : \E seed, b, e \in Name : BridgeBy(p, x, a, u, v, seed, b, e)
    BY <1>1 DEF MadeBy
  <2>2. PICK seed, b, e \in Name : BridgeBy(p, x, a, u, v, seed, b, e)
    BY <2>1
  <2>3. TwoInRow(u.id, v.id, seed, b, e)
    BY UnitHas, TwoSentences DEF IsPair
  <2>4. /\ p.kind = "bridge" /\ p.sentences = <<u.id, v.id>> /\ p.chain = <<seed, b, e>>
        /\ p.bridge = b /\ p.relations = u.relations \cup v.relations /\ p.answer = e
        /\ p.answer_type = a.expected /\ p.score \in Nat
    BY <2>2, BridgeParts
  <2>5. /\ seed \in ToSet(a.seeds) /\ seed \in u.entities \cup u.names
        /\ u.id # v.id /\ b \in u.entities \cap v.entities /\ b \notin ToSet(a.seeds)
        /\ e \in v.entities /\ e \notin ToSet(a.seeds) /\ e # b
    BY <2>2 DEF BridgeBy
  <2>6. Ends(p, u, v) /\ Last(p.chain) = e /\ p.chain[1] = seed
    BY <2>3, <2>4 DEF Ends, TwoInRow
  <2>7. b # 0 /\ e \in Nat
    BY DEF Name
  <2>8. Tells(p, kind, a, u, v)
    BY <1>1, <2>4, <2>5, <2>6, <2>7 DEF Tells
  <2>9. QED
    BY <2>6, <2>8 DEF Told
<1>2. CASE kind = "factoid"
  <2>1. PICK u \in U : \E seed, e \in Name : FactoidBy(p, x, a, u, seed, e)
    BY <1>2 DEF MadeBy
  <2>2. PICK seed, e \in Name : FactoidBy(p, x, a, u, seed, e)
    BY <2>1
  <2>3. OneInRow(u.id, seed, e)
    BY UnitHas, OneSentence DEF IsPair
  <2>4. /\ seed \in ToSet(a.seeds) /\ seed \in u.entities \cup u.names
        /\ e \in u.entities /\ e \notin ToSet(a.seeds)
        /\ p = Path(x, a, "factoid", <<u.id>>, <<seed, e>>, 0)
    BY <2>2 DEF FactoidBy
  <2>5. /\ p.kind = "factoid" /\ p.sentences = <<u.id>> /\ p.chain = <<seed, e>>
        /\ p.bridge = 0 /\ p.relations = u.relations /\ p.answer = e
        /\ p.answer_type = a.expected /\ p.score \in Nat
    BY <2>4, SingleParts
  <2>6. Ends(p, u, u) /\ Last(p.chain) = e /\ p.chain[1] = seed
    BY <2>3, <2>5 DEF Ends, OneInRow
  <2>7. e \in Nat
    BY DEF Name
  <2>8. Tells(p, kind, a, u, u)
    BY <1>2, <2>4, <2>5, <2>6, <2>7 DEF Tells
  <2>9. QED
    BY <2>6, <2>8 DEF Told
<1>3. CASE kind = "comparison"
  <2>1. PICK u \in U : \E target, e \in Name : ComparisonBy(p, x, a, u, target, e)
    BY <1>3 DEF MadeBy
  <2>2. PICK target, e \in Name : ComparisonBy(p, x, a, u, target, e)
    BY <2>1
  <2>3. OneInRow(u.id, target, e)
    BY UnitHas, OneSentence DEF IsPair
  <2>4. /\ target \in u.entities /\ e \in u.entities /\ e # target
        /\ p = Path(x, a, "comparison", <<u.id>>, <<target, e>>, 0)
    BY <2>2 DEF ComparisonBy
  <2>5. /\ p.kind = "comparison" /\ p.sentences = <<u.id>> /\ p.chain = <<target, e>>
        /\ p.bridge = 0 /\ p.relations = u.relations /\ p.answer = e
        /\ p.answer_type = a.expected /\ p.score \in Nat
    BY <2>4, SingleParts
  <2>6. Ends(p, u, u) /\ Last(p.chain) = e /\ p.chain[1] = target
    BY <2>3, <2>5 DEF Ends, OneInRow
  <2>7. e \in Nat
    BY DEF Name
  <2>8. Tells(p, kind, a, u, u)
    BY <1>3, <2>4, <2>5, <2>6, <2>7 DEF Tells
  <2>9. QED
    BY <2>6, <2>8 DEF Told
<1>4. CASE kind = "yes_no"
  <2>1. PICK u \in U : \E left, right \in Name : YesNoBy(p, x, a, u, left, right)
    BY <1>4 DEF MadeBy
  <2>2. PICK left, right \in Name : YesNoBy(p, x, a, u, left, right)
    BY <2>1
  <2>3. OneInRow(u.id, left, right)
    BY UnitHas, OneSentence DEF IsPair
  <2>4. /\ left \in ToSet(a.seeds) /\ right \in ToSet(a.seeds) /\ left # right
        /\ left \in u.entities /\ right \in u.entities /\ p = YesNoPath(x, u.id, left, right)
    BY <2>2 DEF YesNoBy
  <2>5. /\ p.kind = "yes_no" /\ p.sentences = <<u.id>> /\ p.chain = <<left, right>>
        /\ p.bridge = 0 /\ p.relations = u.relations /\ p.answer = 0
        /\ p.answer_type = "BOOLEAN" /\ p.score \in Nat
    BY <2>2, YesNoParts
  <2>6. Ends(p, u, u) /\ Last(p.chain) = right /\ p.chain[1] = left
    BY <2>3, <2>5 DEF Ends, OneInRow
  <2>7. Tells(p, kind, a, u, u)
    BY <1>4, <2>4, <2>5, <2>6 DEF Tells
  <2>8. QED
    BY <2>6, <2>7 DEF Told
<1>5. QED
  BY <1>1, <1>2, <1>3, <1>4
-----------------------------------------------------------------------------
(* Component 06: finitely many paths, ranked *)

\* The names that the paths over some units can have.
NamesIn(U, a) == (UNION {u.entities : u \in U}) \cup ToSet(a.seeds)

\* Some units mention finitely many names.
LEMMA NamesFinite ==
  ASSUME NEW U, NEW chunks, UnitsFit(U, chunks), NEW a, AnalysisFits(a)
  PROVE  /\ IsFiniteSet(NamesIn(U, a)) /\ \A u \in U : u.entities \subseteq NamesIn(U, a)
         /\ ToSet(a.seeds) \subseteq NamesIn(U, a)
<1> DEFINE entities == [u \in U |-> u.entities]
           sets == {entities[u] : u \in U}
<1>1. IsFiniteSet(sets)
  <2> HIDE DEF entities
  <2>1. IsFiniteSet(U)
    BY DEF UnitsFit
  <2>2. QED
    BY <2>1, ImageFinite
<1>2. sets = {u.entities : u \in U}
  OBVIOUS
<1>3. \A S \in sets : IsFiniteSet(S)
  BY <1>2, UnitHas
<1>4. IsFiniteSet(UNION sets)
  BY <1>1, <1>3, FS_UNION
<1>5. \A S, T : IsFiniteSet(S) /\ IsFiniteSet(T) => IsFiniteSet(S \cup T)
  BY FS_Union
<1>6. IsFiniteSet(NamesIn(U, a))
  BY <1>2, <1>4, <1>5, SeedsAreNames DEF NamesIn
<1>7. QED
  BY <1>6 DEF NamesIn

\* Products of finite sets.
LEMMA ProductFinite ==
  ASSUME NEW S, IsFiniteSet(S), NEW T, IsFiniteSet(T)
  PROVE  IsFiniteSet(S \X T)
BY FS_Product

\* There are finitely many paths over a bridge.
LEMMA BridgesFinite ==
  ASSUME NEW U, NEW chunks, UnitsFit(U, chunks), NEW x, NEW a, IndexOf(x, U, a), AnalysisFits(a),
         NEW S, \A p \in S : MadeBy(p, "bridge", x, U, a)
  PROVE  IsFiniteSet(S)
<1> DEFINE N == NamesIn(U, a)
           Z == (U \X U) \X (N \X (N \X N))
           f == [z \in Z |-> Path(x, a, "bridge", <<z[1][1].id, z[1][2].id>>,
                                  <<z[2][1], z[2][2][1], z[2][2][2]>>, z[2][2][1])]
<1>1. IsFiniteSet(N) /\ IsFiniteSet(U)
  BY NamesFinite DEF UnitsFit
<1>2. IsFiniteSet(U \X U) /\ IsFiniteSet(N \X N)
  BY <1>1, ProductFinite
<1>3. IsFiniteSet(N \X (N \X N))
  BY <1>1, <1>2, ProductFinite
<1>4. IsFiniteSet(Z)
  BY <1>2, <1>3, ProductFinite
<1>5. \A u, v \in U : \A c, b, e \in N :
        /\ <<<<u, v>>, <<c, <<b, e>>>>>> \in Z
        /\ f[<<<<u, v>>, <<c, <<b, e>>>>>>] = Path(x, a, "bridge", <<u.id, v.id>>, <<c, b, e>>, b)
  <2> HIDE DEF N
  <2>1. TAKE u, v \in U
  <2>2. TAKE c, b, e \in N
  <2>3. <<<<u, v>>, <<c, <<b, e>>>>>> \in Z
    OBVIOUS
  <2>4. QED
    BY <2>3
<1> HIDE DEF f, Z
<1>6. IsFiniteSet({f[z] : z \in Z})
  BY <1>4, ImageFinite
<1>7. ASSUME NEW p \in S
      PROVE  p \in {f[z] : z \in Z}
  <2>1. PICK u, v \in U : \E c, b, e \in Name : BridgeBy(p, x, a, u, v, c, b, e)
    BY <1>7 DEF MadeBy
  <2>2. PICK c, b, e \in Name : BridgeBy(p, x, a, u, v, c, b, e)
    BY <2>1
  <2>3. c \in N /\ b \in N /\ e \in N
    BY <2>2, NamesFinite DEF BridgeBy
  <2>4. p = Path(x, a, "bridge", <<u.id, v.id>>, <<c, b, e>>, b)
    BY <2>2 DEF BridgeBy
  <2>5. /\ <<<<u, v>>, <<c, <<b, e>>>>>> \in Z
        /\ f[<<<<u, v>>, <<c, <<b, e>>>>>>] = p
    BY <1>5, <2>3, <2>4
  <2>6. QED
    BY <2>5
<1>8. S \subseteq {f[z] : z \in Z}
  BY <1>7
<1>9. QED
  BY <1>6, <1>8, FS_Subset

\* Or in one sentence: a path with one unit and two names.
FromPairs(S, U, a, f) == \A p \in S : \E u \in U : \E c, e \in NamesIn(U, a) : p = f[<<u, <<c, e>>>>]

\* There are finitely many paths of one sentence.
LEMMA SinglesFinite ==
  ASSUME NEW U, NEW chunks, UnitsFit(U, chunks), NEW a, AnalysisFits(a), NEW f,
         NEW S, FromPairs(S, U, a, f)
  PROVE  IsFiniteSet(S)
<1> DEFINE N == NamesIn(U, a)
           Z == U \X (N \X N)
<1>1. IsFiniteSet(N) /\ IsFiniteSet(U)
  BY NamesFinite DEF UnitsFit
<1>2. IsFiniteSet(N \X N)
  BY <1>1, ProductFinite
<1>3. IsFiniteSet(Z)
  BY <1>1, <1>2, ProductFinite
<1>4. \A u \in U : \A c, e \in N : <<u, <<c, e>>>> \in Z
  OBVIOUS
<1> HIDE DEF Z
<1>5. IsFiniteSet({f[z] : z \in Z})
  BY <1>3, ImageFinite
<1>6. S \subseteq {f[z] : z \in Z}
  BY <1>4 DEF FromPairs
<1>7. QED
  BY <1>5, <1>6, FS_Subset

\* search_paths has finitely many candidates to rank.
LEMMA PathsFinite ==
  ASSUME NEW U, NEW chunks, UnitsFit(U, chunks), NEW x, NEW a, IndexOf(x, U, a), AnalysisFits(a),
         NEW kind \in {"bridge", "factoid", "comparison", "yes_no"},
         NEW S, \A p \in S : MadeBy(p, kind, x, U, a)
  PROVE  IsFiniteSet(S)
<1> DEFINE N == NamesIn(U, a)
           path == [z \in U \X (N \X N) |-> Path(x, a, kind, <<z[1].id>>, <<z[2][1], z[2][2]>>, 0)]
           yesno == [z \in U \X (N \X N) |-> YesNoPath(x, z[1].id, z[2][1], z[2][2])]
<1>1. \A u \in U : u.entities \subseteq N
  BY NamesFinite
<1>2. ToSet(a.seeds) \subseteq N
  BY NamesFinite
<1>3. \A u \in U : \A c, e \in N :
        /\ path[<<u, <<c, e>>>>] = Path(x, a, kind, <<u.id>>, <<c, e>>, 0)
        /\ yesno[<<u, <<c, e>>>>] = YesNoPath(x, u.id, c, e)
  <2> HIDE DEF N
  <2>1. TAKE u \in U
  <2>2. TAKE c, e \in N
  <2>3. <<u, <<c, e>>>> \in U \X (N \X N)
    OBVIOUS
  <2>4. QED
    BY <2>3
<1> HIDE DEF path, yesno
<1>4. CASE kind = "bridge"
  BY <1>4, BridgesFinite
<1>5. CASE kind = "factoid"
  <2>1. ASSUME NEW p \in S
        PROVE  \E u \in U : \E c, e \in N : p = path[<<u, <<c, e>>>>]
    <3>1. PICK u \in U : \E c, e \in Name : FactoidBy(p, x, a, u, c, e)
      BY <1>5 DEF MadeBy
    <3>2. PICK c, e \in Name : FactoidBy(p, x, a, u, c, e)
      BY <3>1
    <3>3. c \in N /\ e \in N /\ p = Path(x, a, kind, <<u.id>>, <<c, e>>, 0)
      BY <1>1, <1>2, <1>5, <3>2 DEF FactoidBy
    <3>4. QED
      BY <1>3, <3>3
  <2>2. FromPairs(S, U, a, path)
    BY <2>1 DEF FromPairs
  <2>3. QED
    BY <2>2, SinglesFinite
<1>6. CASE kind = "comparison"
  <2>1. ASSUME NEW p \in S
        PROVE  \E u \in U : \E c, e \in N : p = path[<<u, <<c, e>>>>]
    <3>1. PICK u \in U : \E c, e \in Name : ComparisonBy(p, x, a, u, c, e)
      BY <1>6 DEF MadeBy
    <3>2. PICK c, e \in Name : ComparisonBy(p, x, a, u, c, e)
      BY <3>1
    <3>3. c \in N /\ e \in N /\ p = Path(x, a, kind, <<u.id>>, <<c, e>>, 0)
      BY <1>1, <1>6, <3>2 DEF ComparisonBy
    <3>4. QED
      BY <1>3, <3>3
  <2>2. FromPairs(S, U, a, path)
    BY <2>1 DEF FromPairs
  <2>3. QED
    BY <2>2, SinglesFinite
<1>7. CASE kind = "yes_no"
  <2>1. ASSUME NEW p \in S
        PROVE  \E u \in U : \E c, e \in N : p = yesno[<<u, <<c, e>>>>]
    <3>1. PICK u \in U : \E c, e \in Name : YesNoBy(p, x, a, u, c, e)
      BY <1>7 DEF MadeBy
    <3>2. PICK c, e \in Name : YesNoBy(p, x, a, u, c, e)
      BY <3>1
    <3>3. c \in N /\ e \in N /\ p = YesNoPath(x, u.id, c, e)
      BY <1>1, <3>2 DEF YesNoBy
    <3>4. QED
      BY <1>3, <3>3
  <2>2. FromPairs(S, U, a, yesno)
    BY <2>1 DEF FromPairs
  <2>3. QED
    BY <2>2, SinglesFinite
<1>8. QED
  BY <1>4, <1>5, <1>6, <1>7

\* How many numbers name a path.
Nodes(kind) == IF kind = "bridge" THEN 7 ELSE 4

\* The nodes of a path, all of them numbers here.
LEMMA NodesFit ==
  ASSUME NEW U, NEW chunks, UnitsFit(U, chunks), NEW x, NEW a, IndexOf(x, U, a), AnalysisFits(a),
         NEW kind \in {"bridge", "factoid", "comparison", "yes_no"}, NEW p, MadeBy(p, kind, x, U, a)
  PROVE  PathNodes(p) \in [1..Nodes(kind) -> Nat]
<1>1. \A u \in U : u.id[1] \in Nat /\ u.id[2] \in Nat
  BY UnitHas
<1>2. Name \subseteq Nat
  BY DEF Name
<1>3. \A c, e, i, j \in Nat : <<c, e, i, j>> \in [1..4 -> Nat]
  OBVIOUS
<1>4. CASE kind = "bridge"
  <2>1. PICK u, v \in U : \E c, b, e \in Name : BridgeBy(p, x, a, u, v, c, b, e)
    BY <1>4 DEF MadeBy
  <2>2. PICK c, b, e \in Name : BridgeBy(p, x, a, u, v, c, b, e)
    BY <2>1
  <2>3. PathNodes(p) = <<c, b, e, u.id[1], u.id[2], v.id[1], v.id[2]>>
    BY <2>2, BridgeParts
  <2>4. QED
    BY <1>1, <1>2, <1>4, <2>3 DEF Nodes
<1>5. CASE kind = "factoid"
  <2>1. PICK u \in U : \E c, e \in Name : FactoidBy(p, x, a, u, c, e)
    BY <1>5 DEF MadeBy
  <2>2. PICK c, e \in Name : FactoidBy(p, x, a, u, c, e)
    BY <2>1
  <2>3. PathNodes(p) = <<c, e, u.id[1], u.id[2]>>
    BY <2>2, SingleParts DEF FactoidBy
  <2>4. QED
    BY <1>1, <1>2, <1>3, <1>5, <2>3 DEF Nodes
<1>6. CASE kind = "comparison"
  <2>1. PICK u \in U : \E c, e \in Name : ComparisonBy(p, x, a, u, c, e)
    BY <1>6 DEF MadeBy
  <2>2. PICK c, e \in Name : ComparisonBy(p, x, a, u, c, e)
    BY <2>1
  <2>3. PathNodes(p) = <<c, e, u.id[1], u.id[2]>>
    BY <2>2, SingleParts DEF ComparisonBy
  <2>4. QED
    BY <1>1, <1>2, <1>3, <1>6, <2>3 DEF Nodes
<1>7. CASE kind = "yes_no"
  <2>1. PICK u \in U : \E c, e \in Name : YesNoBy(p, x, a, u, c, e)
    BY <1>7 DEF MadeBy
  <2>2. PICK c, e \in Name : YesNoBy(p, x, a, u, c, e)
    BY <2>1
  <2>3. PathNodes(p) = <<c, e, u.id[1], u.id[2]>>
    BY <2>2, YesNoParts
  <2>4. QED
    BY <1>1, <1>2, <1>3, <1>7, <2>3 DEF Nodes
<1>8. QED
  BY <1>4, <1>5, <1>6, <1>7

\* The nodes of a path name it.
LEMMA PairNamed ==
  ASSUME NEW U, NEW chunks, UnitsFit(U, chunks), NEW u \in U, NEW w \in U,
         u.id[1] = w.id[1], u.id[2] = w.id[2]
  PROVE  u.id = w.id
<1>1. u.id = <<u.id[1], u.id[2]>> /\ w.id = <<w.id[1], w.id[2]>>
  BY UnitHas
<1>2. QED
  BY <1>1

\* Four nodes.
AreFour(n, c, e, i, j) == n = <<c, e, i, j>>

\* Seven nodes.
AreSeven(n, c, b, e, i, j, k, l) == n = <<c, b, e, i, j, k, l>>

\* What four nodes are.
LEMMA FourAt ==
  ASSUME NEW n, NEW c, NEW e, NEW i, NEW j, AreFour(n, c, e, i, j)
  PROVE  c = n[1] /\ e = n[2] /\ i = n[3] /\ j = n[4]
BY DEF AreFour

\* What seven nodes are.
LEMMA SevenAt ==
  ASSUME NEW n, NEW c, NEW b, NEW e, NEW i, NEW j, NEW k, NEW l, AreSeven(n, c, b, e, i, j, k, l)
  PROVE  c = n[1] /\ b = n[2] /\ e = n[3] /\ i = n[4] /\ j = n[5] /\ k = n[6] /\ l = n[7]
BY DEF AreSeven

\* Candidates with the same nodes are the same: a path ID names one path.
LEMMA NodesName ==
  ASSUME NEW U, NEW chunks, UnitsFit(U, chunks), NEW x, NEW a, IndexOf(x, U, a), AnalysisFits(a),
         NEW kind \in {"bridge", "factoid", "comparison", "yes_no"},
         NEW p, MadeBy(p, kind, x, U, a), NEW q, MadeBy(q, kind, x, U, a),
         PathNodes(p) = PathNodes(q)
  PROVE  p = q
<1>1. CASE kind = "bridge"
  <2>1. PICK u, v \in U : \E c, b, e \in Name : BridgeBy(p, x, a, u, v, c, b, e)
    BY <1>1 DEF MadeBy
  <2>2. PICK c, b, e \in Name : BridgeBy(p, x, a, u, v, c, b, e)
    BY <2>1
  <2>3. PICK w, y \in U : \E d, h, f \in Name : BridgeBy(q, x, a, w, y, d, h, f)
    BY <1>1 DEF MadeBy
  <2>4. PICK d, h, f \in Name : BridgeBy(q, x, a, w, y, d, h, f)
    BY <2>3
  <2>5. /\ AreSeven(PathNodes(p), c, b, e, u.id[1], u.id[2], v.id[1], v.id[2])
        /\ AreSeven(PathNodes(p), d, h, f, w.id[1], w.id[2], y.id[1], y.id[2])
    BY <2>2, <2>4, BridgeParts DEF AreSeven
  <2>6. /\ c = d /\ b = h /\ e = f /\ u.id[1] = w.id[1] /\ u.id[2] = w.id[2]
        /\ v.id[1] = y.id[1] /\ v.id[2] = y.id[2]
    BY <2>5, SevenAt
  <2>7. u.id = w.id /\ v.id = y.id
    BY <2>6, PairNamed
  <2>8. /\ p = Path(x, a, "bridge", <<u.id, v.id>>, <<c, b, e>>, b)
        /\ q = Path(x, a, "bridge", <<w.id, y.id>>, <<d, h, f>>, h)
    BY <2>2, <2>4 DEF BridgeBy
  <2>9. QED
    BY <2>6, <2>7, <2>8
<1>2. CASE kind = "factoid"
  <2>1. PICK u \in U : \E c, e \in Name : FactoidBy(p, x, a, u, c, e)
    BY <1>2 DEF MadeBy
  <2>2. PICK c, e \in Name : FactoidBy(p, x, a, u, c, e)
    BY <2>1
  <2>3. PICK w \in U : \E d, f \in Name : FactoidBy(q, x, a, w, d, f)
    BY <1>2 DEF MadeBy
  <2>4. PICK d, f \in Name : FactoidBy(q, x, a, w, d, f)
    BY <2>3
  <2>5. /\ p = Path(x, a, "factoid", <<u.id>>, <<c, e>>, 0)
        /\ q = Path(x, a, "factoid", <<w.id>>, <<d, f>>, 0)
    BY <2>2, <2>4 DEF FactoidBy
  <2>6. /\ AreFour(PathNodes(p), c, e, u.id[1], u.id[2])
        /\ AreFour(PathNodes(p), d, f, w.id[1], w.id[2])
    BY <2>5, SingleParts DEF AreFour
  <2>7. c = d /\ e = f /\ u.id[1] = w.id[1] /\ u.id[2] = w.id[2]
    BY <2>6, FourAt
  <2>8. u.id = w.id
    BY <2>7, PairNamed
  <2>9. QED
    BY <2>5, <2>7, <2>8
<1>3. CASE kind = "comparison"
  <2>1. PICK u \in U : \E c, e \in Name : ComparisonBy(p, x, a, u, c, e)
    BY <1>3 DEF MadeBy
  <2>2. PICK c, e \in Name : ComparisonBy(p, x, a, u, c, e)
    BY <2>1
  <2>3. PICK w \in U : \E d, f \in Name : ComparisonBy(q, x, a, w, d, f)
    BY <1>3 DEF MadeBy
  <2>4. PICK d, f \in Name : ComparisonBy(q, x, a, w, d, f)
    BY <2>3
  <2>5. /\ p = Path(x, a, "comparison", <<u.id>>, <<c, e>>, 0)
        /\ q = Path(x, a, "comparison", <<w.id>>, <<d, f>>, 0)
    BY <2>2, <2>4 DEF ComparisonBy
  <2>6. /\ AreFour(PathNodes(p), c, e, u.id[1], u.id[2])
        /\ AreFour(PathNodes(p), d, f, w.id[1], w.id[2])
    BY <2>5, SingleParts DEF AreFour
  <2>7. c = d /\ e = f /\ u.id[1] = w.id[1] /\ u.id[2] = w.id[2]
    BY <2>6, FourAt
  <2>8. u.id = w.id
    BY <2>7, PairNamed
  <2>9. QED
    BY <2>5, <2>7, <2>8
<1>4. CASE kind = "yes_no"
  <2>1. PICK u \in U : \E c, e \in Name : YesNoBy(p, x, a, u, c, e)
    BY <1>4 DEF MadeBy
  <2>2. PICK c, e \in Name : YesNoBy(p, x, a, u, c, e)
    BY <2>1
  <2>3. PICK w \in U : \E d, f \in Name : YesNoBy(q, x, a, w, d, f)
    BY <1>4 DEF MadeBy
  <2>4. PICK d, f \in Name : YesNoBy(q, x, a, w, d, f)
    BY <2>3
  <2>5. p = YesNoPath(x, u.id, c, e) /\ q = YesNoPath(x, w.id, d, f)
    BY <2>2, <2>4 DEF YesNoBy
  <2>6. /\ AreFour(PathNodes(p), c, e, u.id[1], u.id[2])
        /\ AreFour(PathNodes(p), d, f, w.id[1], w.id[2])
    BY <2>2, <2>4, YesNoParts DEF AreFour
  <2>7. c = d /\ e = f /\ u.id[1] = w.id[1] /\ u.id[2] = w.id[2]
    BY <2>6, FourAt
  <2>8. u.id = w.id
    BY <2>7, PairNamed
  <2>9. QED
    BY <2>5, <2>7, <2>8
<1>5. QED
  BY <1>1, <1>2, <1>3, <1>4

\* Tuples of n naturals are in a strict total order.
LEMMA LexOrder ==
  ASSUME NEW n \in Nat
  PROVE  /\ \A s \in [1..n -> Nat] : ~LexBefore(s, s)
         /\ \A s, t, w \in [1..n -> Nat] :
              LexBefore(s, t) /\ LexBefore(t, w) => LexBefore(s, w)
         /\ \A s, t \in [1..n -> Nat] : s = t \/ LexBefore(s, t) \/ LexBefore(t, s)
<1>1. ASSUME NEW s \in [1..n -> Nat], LexBefore(s, s)
      PROVE  FALSE
  <2>1. PICK i \in 1..n : s[i] < s[i]
    BY <1>1 DEF LexBefore
  <2>2. QED
    BY <2>1
<1>2. ASSUME NEW s \in [1..n -> Nat], NEW t \in [1..n -> Nat], NEW w \in [1..n -> Nat],
             LexBefore(s, t), LexBefore(t, w)
      PROVE  LexBefore(s, w)
  <2>1. PICK i \in 1..n : s[i] < t[i] /\ \A j \in 1..(i - 1) : s[j] = t[j]
    BY <1>2 DEF LexBefore
  <2>2. PICK k \in 1..n : t[k] < w[k] /\ \A j \in 1..(k - 1) : t[j] = w[j]
    BY <1>2 DEF LexBefore
  <2>3. CASE i < k
    <3>1. t[i] = w[i] /\ \A j \in 1..(i - 1) : t[j] = w[j]
      BY <2>2, <2>3
    <3>2. s[i] < w[i] /\ \A j \in 1..(i - 1) : s[j] = w[j]
      BY <2>1, <3>1
    <3>3. QED
      BY <3>2 DEF LexBefore
  <2>4. CASE k < i
    <3>1. t[k] = s[k] /\ \A j \in 1..(k - 1) : s[j] = t[j]
      BY <2>1, <2>4
    <3>2. s[k] < w[k] /\ \A j \in 1..(k - 1) : s[j] = w[j]
      BY <2>2, <3>1
    <3>3. QED
      BY <3>2 DEF LexBefore
  <2>5. CASE i = k
    <3>1. s[i] < w[i] /\ \A j \in 1..(i - 1) : s[j] = w[j]
      BY <2>1, <2>2, <2>5
    <3>2. QED
      BY <3>1 DEF LexBefore
  <2>6. QED
    BY <2>3, <2>4, <2>5
<1>3. ASSUME NEW s \in [1..n -> Nat], NEW t \in [1..n -> Nat], s # t
      PROVE  LexBefore(s, t) \/ LexBefore(t, s)
  <2> DEFINE T == {i \in 1..n : s[i] # t[i]}
  <2>1. T \in SUBSET Nat /\ T # {}
    BY <1>3
  <2>2. PICK i \in T : \A j \in T : i <= j
    BY <2>1, LeastNat
  <2>3. i \in 1..n /\ s[i] # t[i] /\ \A j \in 1..(i - 1) : s[j] = t[j]
    BY <2>2
  <2>4. s[i] < t[i] \/ t[i] < s[i]
    BY <2>3
  <2>5. QED
    BY <2>3, <2>4 DEF LexBefore
<1>4. QED
  BY <1>1, <1>2, <1>3

\* PathBefore puts the paths of one kind in a strict total order.
PathOrder(idOrder, S) == {k \in S \X S : PathBefore(idOrder, k[1], k[2])}

\* One path ID before another, in the order of IDs that the run uses.
IdBefore(idOrder, p, q) ==
  IF idOrder = "up" THEN LexBefore(PathNodes(p), PathNodes(q))
  ELSE LexBefore(PathNodes(q), PathNodes(p))

\* Numbered paths, by score, answer and ID.
Numbered(S) ==
  \E n \in Nat :
    /\ \A p \in S : p.score \in Nat /\ p.answer \in Nat /\ PathNodes(p) \in [1..n -> Nat]
    /\ \A p, q \in S : PathNodes(p) = PathNodes(q) => p = q

\* Path IDs are strictly ordered, upwards and downwards.
LEMMA IdsOrder ==
  ASSUME NEW S, Numbered(S), NEW idOrder
  PROVE  /\ \A p \in S : ~IdBefore(idOrder, p, p)
         /\ \A p, q, r \in S : IdBefore(idOrder, p, q) /\ IdBefore(idOrder, q, r) => IdBefore(idOrder, p, r)
         /\ \A p, q \in S : p = q \/ IdBefore(idOrder, p, q) \/ IdBefore(idOrder, q, p)
<1>1. PICK n \in Nat :
        /\ \A p \in S : p.score \in Nat /\ p.answer \in Nat /\ PathNodes(p) \in [1..n -> Nat]
        /\ \A p, q \in S : PathNodes(p) = PathNodes(q) => p = q
  BY DEF Numbered
<1>2. /\ \A s \in [1..n -> Nat] : ~LexBefore(s, s)
      /\ \A s, t, w \in [1..n -> Nat] :
           LexBefore(s, t) /\ LexBefore(t, w) => LexBefore(s, w)
      /\ \A s, t \in [1..n -> Nat] : s = t \/ LexBefore(s, t) \/ LexBefore(t, s)
  BY LexOrder
<1>3. ASSUME NEW p \in S
      PROVE  ~IdBefore(idOrder, p, p)
  BY <1>1, <1>2 DEF IdBefore
<1>4. ASSUME NEW p \in S, NEW q \in S, NEW r \in S,
             IdBefore(idOrder, p, q), IdBefore(idOrder, q, r)
      PROVE  IdBefore(idOrder, p, r)
  <2>1. /\ PathNodes(p) \in [1..n -> Nat] /\ PathNodes(q) \in [1..n -> Nat]
        /\ PathNodes(r) \in [1..n -> Nat]
    BY <1>1
  <2>2. QED
    BY <1>2, <1>4, <2>1 DEF IdBefore
<1>5. ASSUME NEW p \in S, NEW q \in S, p # q
      PROVE  IdBefore(idOrder, p, q) \/ IdBefore(idOrder, q, p)
  <2>1. /\ PathNodes(p) \in [1..n -> Nat] /\ PathNodes(q) \in [1..n -> Nat]
        /\ PathNodes(p) # PathNodes(q)
    BY <1>1, <1>5
  <2>2. QED
    BY <1>2, <2>1 DEF IdBefore
<1>6. QED
  BY <1>3, <1>4, <1>5

\* The ranking of the candidates is a strict total order.
LEMMA PathsOrdered ==
  ASSUME NEW S, Numbered(S), NEW idOrder
  PROVE  Orders(PathOrder(idOrder, S), S)
<1> DEFINE R == PathOrder(idOrder, S)
<1>1. \A p \in S : p.score \in Nat /\ p.answer \in Nat
  BY DEF Numbered
<1>2. \A p, q \in S : <<p, q>> \in R <=>
        \/ p.score > q.score
        \/ p.score = q.score /\ (p.answer < q.answer \/ (p.answer = q.answer /\ IdBefore(idOrder, p, q)))
  BY DEF PathOrder, PathBefore, IdBefore
<1> HIDE DEF R
<1>3. ASSUME NEW p \in S
      PROVE  <<p, p>> \notin R
  BY <1>1, <1>2, IdsOrder
<1>4. ASSUME NEW p \in S, NEW q \in S, NEW r \in S, <<p, q>> \in R, <<q, r>> \in R
      PROVE  <<p, r>> \in R
  <2>1. /\ p.score \in Nat /\ q.score \in Nat /\ r.score \in Nat
        /\ p.answer \in Nat /\ q.answer \in Nat /\ r.answer \in Nat
    BY <1>1
  <2>2. IdBefore(idOrder, p, q) /\ IdBefore(idOrder, q, r) => IdBefore(idOrder, p, r)
    BY IdsOrder
  <2>3. \/ p.score > q.score
        \/ p.score = q.score /\ (p.answer < q.answer \/ (p.answer = q.answer /\ IdBefore(idOrder, p, q)))
    BY <1>2, <1>4
  <2>4. \/ q.score > r.score
        \/ q.score = r.score /\ (q.answer < r.answer \/ (q.answer = r.answer /\ IdBefore(idOrder, q, r)))
    BY <1>2, <1>4
  <2>5. \/ p.score > r.score
        \/ p.score = r.score /\ (p.answer < r.answer \/ (p.answer = r.answer /\ IdBefore(idOrder, p, r)))
    BY <2>1, <2>2, <2>3, <2>4
  <2>6. QED
    BY <1>2, <2>5
<1>5. ASSUME NEW p \in S, NEW q \in S, p # q
      PROVE  <<p, q>> \in R \/ <<q, p>> \in R
  <2>1. /\ p.score \in Nat /\ q.score \in Nat /\ p.answer \in Nat /\ q.answer \in Nat
    BY <1>1
  <2>2. IdBefore(idOrder, p, q) \/ IdBefore(idOrder, q, p)
    BY <1>5, IdsOrder
  <2>3. QED
    BY <1>2, <2>1, <2>2
<1>6. QED
  BY <1>3, <1>4, <1>5 DEF Orders, R

\* What the search finds: paths of the kind sought, by descending score, each once.
Finds(paths, x, U, a) ==
  /\ IsListed(paths)
  /\ \A i \in DOMAIN paths : MadeBy(paths[i], KindSought(a), x, U, a)
  /\ \A i, j \in DOMAIN paths : i < j => paths[i].score >= paths[j].score
  /\ \A i, j \in DOMAIN paths : PathNodes(paths[i]) = PathNodes(paths[j]) => i = j

\* The templates of the search.
LEMMA KindKnown ==
  ASSUME NEW a, AnalysisFits(a)
  PROVE  KindSought(a) \in {"bridge", "factoid", "comparison", "yes_no"}
BY DEF KindSought, AnalysisFits

\* Component 06: made paths, each once, by descending score.
LEMMA Searches ==
  ASSUME NEW U, NEW chunks, UnitsFit(U, chunks), NEW g, NEW a, IndexOf(Index(g), U, a),
         AnalysisFits(a), NEW idOrder
  PROVE  Finds(Search(idOrder, g, a), Index(g), U, a)
<1> DEFINE x == Index(g)
           S == PathsByType(x, g, a)
           kind == KindSought(a)
           places == {<<Cardinality({y \in S : PathBefore(idOrder, y, p)}), p>> : p \in S}
<1>1. /\ kind \in {"bridge", "factoid", "comparison", "yes_no"}
      /\ \A p \in S : MadeBy(p, kind, x, U, a)
  BY KindKnown, PathsMade
<1>2. places = {<<Cardinality(Under(PathOrder(idOrder, S), S, p)), p>> : p \in S}
  <2> HIDE DEF S
  <2>1. \A p \in S : {y \in S : PathBefore(idOrder, y, p)} = Under(PathOrder(idOrder, S), S, p)
    BY DEF Under, PathOrder
  <2>2. QED
    BY <2>1
<1>3. Search(idOrder, g, a) =
        FirstOf(MaxPaths, [i \in 1..Cardinality(S) |-> (CHOOSE p \in places : p[1] = i - 1)[2]])
  BY DEF Search, InOrder
<1> HIDE DEF places, S, x, kind
<1>4. PICK seq : Search(idOrder, g, a) = FirstOf(MaxPaths, seq)
                   /\ Listing(seq, places, S, PathOrder(idOrder, S))
  BY <1>2, <1>3 DEF Listing
<1>5. IndexOf(x, U, a)
  BY DEF x
<1>6. IsFiniteSet(S)
  BY <1>1, <1>5, PathsFinite
<1>7. \A p \in S : p.score \in Nat /\ p.answer \in Nat
  BY <1>1, <1>5, MadeTold DEF Told, Tells
<1>8. Numbered(S)
  <2>1. \A p \in S : PathNodes(p) \in [1..Nodes(kind) -> Nat]
    BY <1>1, <1>5, NodesFit
  <2>2. \A p, q \in S : PathNodes(p) = PathNodes(q) => p = q
    BY <1>1, <1>5, NodesName
  <2>3. Nodes(kind) \in Nat
    BY DEF Nodes
  <2>4. QED
    BY <1>7, <2>1, <2>2, <2>3 DEF Numbered
<1>9. Orders(PathOrder(idOrder, S), S)
  BY <1>8, PathsOrdered
<1>10. /\ seq \in Seq(S) /\ Len(seq) = Cardinality(S) /\ Cardinality(S) \in Nat
       /\ \A i, j \in 1..Cardinality(S) : i < j <=> <<seq[i], seq[j]>> \in PathOrder(idOrder, S)
  BY <1>4, <1>6, <1>9, Listed
<1> DEFINE paths == FirstOf(MaxPaths, seq)
<1>11. /\ paths \in Seq(S) /\ DOMAIN paths = 1..Len(paths) /\ Len(paths) \in Nat
       /\ Len(paths) <= Len(seq)
       /\ \A i \in 1..Len(paths) : i \in 1..Len(seq) /\ paths[i] = seq[i] /\ paths[i] \in S
  <2>1. MaxPaths \in Nat
    BY SearchAssumption
  <2>2. /\ paths \in Seq(S) /\ Len(seq) \in Nat
        /\ Len(paths) = IF MaxPaths <= Len(seq) THEN MaxPaths ELSE Len(seq)
        /\ \A i \in 1..Len(seq) : i <= MaxPaths => paths[i] = seq[i]
        /\ DOMAIN paths = 1..Len(paths)
    BY <1>10, <2>1, Firsts
  <2> HIDE DEF paths
  <2>3. Len(paths) \in Nat /\ Len(paths) <= Len(seq) /\ Len(paths) <= MaxPaths
    BY <2>1, <2>2
  <2>4. \A i \in 1..Len(paths) : i \in 1..Len(seq) /\ i <= MaxPaths
    BY <2>1, <2>2, <2>3
  <2>5. \A i \in 1..Len(paths) : paths[i] \in S
    BY <2>2
  <2>6. QED
    BY <2>2, <2>3, <2>4, <2>5
<1> HIDE DEF paths
<1>12. \A i, j \in 1..Len(paths) : i < j <=> <<paths[i], paths[j]>> \in PathOrder(idOrder, S)
  BY <1>10, <1>11
<1>13. IsListed(paths)
  <2>1. \A i \in 1..Len(paths) : paths[i] \in ToSet(paths)
    BY <1>11 DEF ToSet
  <2>2. paths = [i \in 1..Len(paths) |-> paths[i]]
    BY <1>11
  <2>3. paths \in [1..Len(paths) -> ToSet(paths)]
    BY <2>1, <2>2
  <2>4. QED
    BY <1>11, <2>3 DEF IsListed
<1>14. ASSUME NEW i \in DOMAIN paths, NEW j \in DOMAIN paths, i < j
       PROVE  paths[i].score >= paths[j].score
  <2>1. <<paths[i], paths[j]>> \in PathOrder(idOrder, S) /\ paths[i] \in S /\ paths[j] \in S
    BY <1>11, <1>12, <1>14
  <2>2. PathBefore(idOrder, paths[i], paths[j])
    BY <2>1 DEF PathOrder
  <2>3. paths[i].score \in Nat /\ paths[j].score \in Nat
    BY <1>7, <2>1
  <2>4. paths[i].score > paths[j].score \/ paths[i].score = paths[j].score
    BY <2>2 DEF PathBefore
  <2>5. QED
    BY <2>3, <2>4
<1>15. ASSUME NEW i \in DOMAIN paths, NEW j \in DOMAIN paths, PathNodes(paths[i]) = PathNodes(paths[j])
       PROVE  i = j
  <2>1. paths[i] \in S /\ paths[j] \in S /\ i \in Nat /\ j \in Nat
    BY <1>11
  <2>2. paths[i] = paths[j]
    BY <1>8, <1>15, <2>1 DEF Numbered
  <2>3. \A p \in S : <<p, p>> \notin PathOrder(idOrder, S)
    BY <1>9 DEF Orders
  <2>4. ~(i < j) /\ ~(j < i)
    BY <1>11, <1>12, <2>1, <2>2, <2>3
  <2>5. QED
    BY <2>1, <2>4
<1>16. \A i \in DOMAIN paths : MadeBy(paths[i], kind, x, U, a)
  BY <1>1, <1>11
<1>17. Finds(paths, x, U, a)
  BY <1>13, <1>14, <1>15, <1>16 DEF Finds, kind
<1>18. QED
  BY <1>4, <1>17 DEF paths, x
=============================================================================
