--------------------------- MODULE SystemRunProofs ---------------------------
(***************************************************************************)
(* Proofs about a system evaluation that one process at a time works on,   *)
(* for any plan, any number of crashes and any sequence of restarts.       *)
(*                                                                         *)
(* The safety properties rest on one invariant: the stored traces are a    *)
(* prefix of the campaign on disk, what the process remembers is an        *)
(* initial part of it, and once a summary is begun the prefix is the whole *)
(* campaign and is never written again.  The properties are not those of a *)
(* run two processes share: SystemRun's shared run shows how they fail.    *)
(***************************************************************************)
EXTENDS SystemRun, TLAPS, SequenceTheorems, FiniteSetTheorems, FunctionTheorems

\* One process works on the run at a time.
LoneWorker == \A u, w \in Workers : u = w

\* The pairs at some places of a campaign, and its first n.
At(m, I) == {Pair(m, i) : i \in I}
Prefix(m, n) == At(m, 1..n)

\* A worker is where its own metadata and the files let it be.
WorkerOK(w) ==
  /\ pc[w] \in Running => meta[w] \in Metas
  /\ pc[w] = "reserve" => metadata = None
  /\ pc[w] \in Running \ {"reserve"} => metadata = meta[w]
  /\ pc[w] \in {"reserve", "evaluate", "ask", "write", "replace", "summary.json"} =>
       summary = None
  /\ pc[w] = "manifest.json" => summary \notin {None, Torn} /\ manifest = None
  /\ pc[w] \in {"ask", "write", "replace"} =>
       Len(mem[w]) < Total(meta[w]) /\ traces[Due(w)] = None
  /\ pc[w] \in {"write", "replace"} => held[w] \in TraceType
  /\ pc[w] = "summary.json" => Len(mem[w]) = Total(meta[w]) /\ Paired(w)

\* The traces on disk are the first n of the campaign, and a worker remembers some of
\* the first of them.
Campaign(n) ==
  /\ Stored = Prefix(metadata, n)
  /\ \A w \in Workers :
       /\ Len(mem[w]) <= n
       /\ \A i \in 1..Len(mem[w]) : mem[w][i] = traces[Pair(metadata, i)]

\* Without readable metadata nothing else has been written.
DiskOK ==
  IF metadata \in Metas
  THEN \E n \in 0..Total(metadata) : Campaign(n)
  ELSE /\ Stored = {} /\ summary = None /\ manifest = None
       /\ \A w \in Workers : mem[w] = <<>>

Holding(status) == {k \in Stored : traces[k].status = status}

\* A run whose summary was begun is whole, and what was written of it is true.
Sealed ==
  /\ summary # None => metadata \in Metas /\ Stored = Pairs(metadata) /\ PairedHop1
  /\ summary \notin {None, Torn} =>
       /\ summary.meta = metadata
       /\ summary.completed = Cardinality(Holding("completed"))
       /\ summary.failed = Cardinality(Holding("failed"))
  /\ summary \in {None, Torn} => manifest = None
  /\ manifest \notin {None, Torn} =>
       /\ manifest.metadata = metadata /\ manifest.summary = summary
       /\ manifest.traces = traces

Inv ==
  /\ TypeOK
  /\ OneCallLostPerCrash
  /\ DiskOK
  /\ Sealed
  /\ \A w \in Workers : WorkerOK(w)
-----------------------------------------------------------------------------
(* The order of the campaign *)

\* Division with remainder.
LEMMA DivMod ==
  ASSUME NEW a \in Nat, NEW b \in Nat \ {0}
  PROVE  /\ a \div b \in Nat /\ a % b \in 0..(b - 1)
         /\ a = b * (a \div b) + (a % b)
OBVIOUS

\* A quotient below c.
LEMMA DivLess ==
  ASSUME NEW a \in Nat, NEW b \in Nat \ {0}, NEW c \in Nat, a < c * b
  PROVE  a \div b \in 0..(c - 1)
<1> DEFINE q == a \div b
<1>1. q \in Nat /\ a % b \in 0..(b - 1) /\ a = b * q + (a % b)
  BY DivMod
<1> HIDE DEF q
<1>2. ASSUME ~(q < c)
      PROVE  FALSE
  <2>1. b * q >= b * c
    BY <1>1, <1>2
  <2> QED
    BY <1>1, <2>1
<1>3. q \in 0..(c - 1)
  BY <1>1, <1>2
<1> QED
  BY <1>3 DEF q

\* The parts of a plan.
LEMMA PlanShape ==
  ASSUME NEW m \in Metas
  PROVE  /\ m.questions \in Seq(Questions) /\ Len(m.questions) \in Nat \ {0}
         /\ DOMAIN m.questions = 1..Len(m.questions)
         /\ m.systems \in Seq(Systems) /\ Len(m.systems) \in Nat \ {0}
         /\ DOMAIN m.systems = 1..Len(m.systems)
         /\ m.top_ks \in Seq(Nat \ {0}) /\ Len(m.top_ks) \in Nat \ {0}
         /\ DOMAIN m.top_ks = 1..Len(m.top_ks)
         /\ Len(m.systems) * Len(m.top_ks) \in Nat \ {0}
         /\ Total(m) \in Nat \ {0}
         /\ Total(m) = Len(m.questions) * (Len(m.systems) * Len(m.top_ks))
<1> DEFINE x == Len(m.questions)
           y == Len(m.systems)
           z == Len(m.top_ks)
<1>1. /\ m.questions \in Seq(Questions) /\ x > 0
      /\ m.systems \in Seq(Systems) /\ y > 0
      /\ m.top_ks \in Seq(Nat \ {0}) /\ z > 0
  BY MetaAssumption
<1>2. /\ x \in Nat /\ DOMAIN m.questions = 1..x
      /\ y \in Nat /\ DOMAIN m.systems = 1..y
      /\ z \in Nat /\ DOMAIN m.top_ks = 1..z
  BY <1>1, LenProperties
<1>3. Total(m) = x * y * z
  BY DEF Total
<1> HIDE DEF x, y, z
<1>4. y * z \in Nat \ {0} /\ x * y * z = x * (y * z) /\ x * (y * z) \in Nat \ {0}
  BY <1>1, <1>2
<1>5. /\ x \in Nat \ {0} /\ y \in Nat \ {0} /\ z \in Nat \ {0}
      /\ Total(m) \in Nat \ {0} /\ Total(m) = x * (y * z)
  BY <1>1, <1>2, <1>3, <1>4
<1>6. y * z \in Nat \ {0}
  BY <1>4
<1>7. /\ m.questions \in Seq(Questions) /\ DOMAIN m.questions = 1..x
      /\ m.systems \in Seq(Systems) /\ DOMAIN m.systems = 1..y
      /\ m.top_ks \in Seq(Nat \ {0}) /\ DOMAIN m.top_ks = 1..z
  BY <1>1, <1>2
<1> USE DEF x, y, z
<1> QED
  BY ONLY <1>5, <1>6, <1>7, Zenon

\* The n-th pair is made of a question, a system and a top_k, whose places give n back.
LEMMA PairPlace ==
  ASSUME NEW m \in Metas, NEW n \in 1..Total(m)
  PROVE  \E i \in DOMAIN m.questions, j \in DOMAIN m.systems, k \in DOMAIN m.top_ks :
           /\ Pair(m, n) = <<m.questions[i], m.systems[j], m.top_ks[k]>>
           /\ n = (Len(m.systems) * Len(m.top_ks)) * (i - 1) + (Len(m.systems) * (k - 1) + j)
<1> DEFINE x == Len(m.questions)
           y == Len(m.systems)
           z == Len(m.top_ks)
           c == (n - 1) % (y * z)
           i == ((n - 1) \div (y * z)) + 1
           j == (c % y) + 1
           k == (c \div y) + 1
<1>1. /\ x \in Nat \ {0} /\ y \in Nat \ {0} /\ z \in Nat \ {0}
      /\ y * z \in Nat \ {0} /\ Total(m) = x * (y * z) /\ Total(m) \in Nat
      /\ DOMAIN m.questions = 1..x /\ DOMAIN m.systems = 1..y /\ DOMAIN m.top_ks = 1..z
  BY PlanShape
<1>2. n - 1 \in Nat /\ n - 1 < Total(m) /\ n \in Nat
  <2>1. Total(m) \in Nat
    BY <1>1
  <2> QED
    BY <2>1
<1>3. Pair(m, n) = <<m.questions[i], m.systems[j], m.top_ks[k]>>
  BY DEF Pair
<1> HIDE DEF x, y, z
<1>4. i - 1 \in 0..(x - 1) /\ c \in 0..(y * z - 1) /\ n - 1 = (y * z) * (i - 1) + c
  <2> DEFINE b == y * z
  <2>1. b \in Nat \ {0} /\ n - 1 < x * b
    BY <1>1, <1>2
  <2>2. /\ (n - 1) % b \in 0..(b - 1) /\ n - 1 = b * ((n - 1) \div b) + ((n - 1) % b)
        /\ (n - 1) \div b \in 0..(x - 1)
    <3> HIDE DEF b
    <3> QED
      BY <1>1, <1>2, <2>1, DivMod, DivLess
  <2>3. i - 1 = (n - 1) \div b
    BY <1>1, <2>2
  <2> QED
    BY <2>2, <2>3
<1> HIDE DEF c, i
<1>5. c \in Nat /\ c < z * y
  BY <1>1, <1>4
<1>6. k - 1 \in 0..(z - 1) /\ j - 1 \in 0..(y - 1) /\ c = y * (k - 1) + (j - 1)
  <2>1. /\ c % y \in 0..(y - 1) /\ c = y * (c \div y) + (c % y)
        /\ c \div y \in 0..(z - 1)
    BY <1>1, <1>5, DivMod, DivLess
  <2>2. c \div y \in Int /\ c % y \in Int
    BY <2>1
  <2>3. \A e \in Int : (e + 1) - 1 = e
    OBVIOUS
  <2>4. k - 1 = c \div y /\ j - 1 = c % y
    BY <2>2, <2>3, Zenon
  <2> QED
    BY <2>1, <2>4
<1>7. i \in 1..x /\ j \in 1..y /\ k \in 1..z
  BY <1>1, <1>4, <1>6 DEF i
<1> HIDE DEF j, k
<1>8. n = (y * z) * (i - 1) + (y * (k - 1) + j)
  <2> DEFINE u == (y * z) * (i - 1)
             v == y * (k - 1)
  <2>1. n \in Int /\ c \in Int /\ j \in Int
    BY <1>1, <1>2, <1>5, <1>7
  <2>2. (y * z) \in Int /\ y \in Int /\ i - 1 \in Int /\ k - 1 \in Int
    BY <1>1, <1>7
  <2>3. u \in Int /\ v \in Int
    <3>1. \A a, b \in Int : a * b \in Int
      OBVIOUS
    <3> QED
      BY <2>2, <3>1
  <2>4. n - 1 = u + c /\ c = v + (j - 1)
    BY <1>4, <1>6
  <2> HIDE DEF u, v
  <2>5. n = u + (v + j)
    BY <2>1, <2>3, <2>4
  <2> QED
    BY <2>5 DEF u, v
<1> QED
  BY <1>1, <1>3, <1>7, <1>8 DEF y, z

\* No pair comes twice in a campaign.
LEMMA PairsDiffer ==
  ASSUME NEW m \in Metas, NEW n \in 1..Total(m), NEW o \in 1..Total(m),
         Pair(m, n) = Pair(m, o)
  PROVE  n = o
<1>1. PICK i \in DOMAIN m.questions, j \in DOMAIN m.systems, k \in DOMAIN m.top_ks :
        /\ Pair(m, n) = <<m.questions[i], m.systems[j], m.top_ks[k]>>
        /\ n = (Len(m.systems) * Len(m.top_ks)) * (i - 1) + (Len(m.systems) * (k - 1) + j)
  BY PairPlace
<1>2. PICK a \in DOMAIN m.questions, b \in DOMAIN m.systems, c \in DOMAIN m.top_ks :
        /\ Pair(m, o) = <<m.questions[a], m.systems[b], m.top_ks[c]>>
        /\ o = (Len(m.systems) * Len(m.top_ks)) * (a - 1) + (Len(m.systems) * (c - 1) + b)
  BY PairPlace
<1>0. <<m.questions[i], m.systems[j], m.top_ks[k]>> = <<m.questions[a], m.systems[b], m.top_ks[c]>>
  BY <1>1, <1>2, Zenon
<1>3. m.questions[i] = m.questions[a] /\ m.systems[j] = m.systems[b] /\ m.top_ks[k] = m.top_ks[c]
  BY <1>0
<1>4. i = a /\ j = b /\ k = c
  BY <1>3, MetaAssumption
<1> QED
  BY <1>1, <1>2, <1>4

\* A pair is a key of the run.
LEMMA PairIsKey ==
  ASSUME NEW m \in Metas, NEW n \in 1..Total(m)
  PROVE  Pair(m, n) \in Keys
<1>1. PICK i \in DOMAIN m.questions, j \in DOMAIN m.systems, k \in DOMAIN m.top_ks :
        Pair(m, n) = <<m.questions[i], m.systems[j], m.top_ks[k]>>
  BY PairPlace
<1>2. m.questions[i] \in Questions /\ m.systems[j] \in Systems
  BY PlanShape, ElementOfSeq
<1>3. m.top_ks[k] \in TopKs
  BY DEF TopKs
<1> QED
  BY <1>1, <1>2, <1>3 DEF Keys

\* As many pairs as places.
LEMMA PairsCount ==
  ASSUME NEW m \in Metas, NEW I \in SUBSET (1..Total(m))
  PROVE  IsFiniteSet(At(m, I)) /\ Cardinality(At(m, I)) = Cardinality(I)
<1> DEFINE T == At(m, I)
           f == [i \in I |-> Pair(m, i)]
<1>1. IsFiniteSet(I)
  <2>1. IsFiniteSet(1..Total(m))
    <3>1. Total(m) \in Nat \ {0}
      BY PlanShape, Zenon
    <3>2. Total(m) \in Int /\ 1 \in Int
      BY <3>1
    <3> QED
      BY <3>2, FS_Interval
  <2> QED
    BY <2>1, FS_Subset
<1>2. f \in [I -> T]
  BY DEF At
<1>3. \A a, b \in I : f[a] = f[b] => a = b
  BY PairsDiffer
<1>4. \A t \in T : \E s \in I : f[s] = t
  BY DEF At
<1>5. f \in Bijection(I, T)
  BY <1>2, <1>3, <1>4, Fun_IsBij
<1>6. ExistsBijection(I, T)
  BY <1>5 DEF ExistsBijection
<1> QED
  BY <1>1, <1>6, FS_Bijection

\* A prefix grows by the next pair, up to the whole campaign.
LEMMA PrefixShape ==
  ASSUME NEW m \in Metas, NEW n \in 0..Total(m)
  PROVE  /\ Prefix(m, 0) = {}
         /\ Prefix(m, Total(m)) = Pairs(m)
         /\ n < Total(m) => Prefix(m, n + 1) = Prefix(m, n) \cup {Pair(m, n + 1)}
         /\ Prefix(m, n) \subseteq Keys
         /\ IsFiniteSet(Prefix(m, n)) /\ Cardinality(Prefix(m, n)) = n
         /\ \A i \in 1..Total(m) : Pair(m, i) \in Prefix(m, n) => i <= n
<1>1. Total(m) \in Nat /\ n \in Nat /\ n <= Total(m)
  <2>1. Total(m) \in Nat \ {0}
    BY PlanShape, Zenon
  <2> QED
    BY <2>1
<1>2. 1..n \in SUBSET (1..Total(m)) /\ 1..0 = {}
  BY <1>1
<1>3. n < Total(m) => 1..(n + 1) = (1..n) \cup {n + 1}
  BY <1>1
<1>4. Prefix(m, n) \subseteq Keys
  BY <1>2, PairIsKey DEF Prefix, At
<1>5. IsFiniteSet(Prefix(m, n)) /\ Cardinality(Prefix(m, n)) = n
  <2>1. /\ IsFiniteSet(Prefix(m, n))
        /\ Cardinality(Prefix(m, n)) = Cardinality(1..n)
    BY <1>2, PairsCount DEF Prefix
  <2>2. Cardinality(1..n) = n
    <3>1. 1 \in Int /\ n \in Int /\ (IF 1 > n THEN 0 ELSE n - 1 + 1) = n
      BY <1>1
    <3> QED
      BY <3>1, FS_Interval
  <2> QED
    BY <2>1, <2>2
<1>6. ASSUME NEW i \in 1..Total(m), Pair(m, i) \in Prefix(m, n)
      PROVE  i <= n
  <2>1. PICK j \in 1..n : Pair(m, i) = Pair(m, j)
    BY <1>6 DEF Prefix, At
  <2>2. i = j
    BY <1>2, <2>1, PairsDiffer
  <2> QED
    BY <1>1, <2>2
<1> QED
  BY <1>2, <1>3, <1>4, <1>5, <1>6 DEF Prefix, At, Pairs
-----------------------------------------------------------------------------
(* The invariant *)

InFlight == {w \in Workers : pc[w] \in {"write", "replace"}}

\* One worker has at most one evaluation in flight.
LEMMA InFlightCount ==
  ASSUME LoneWorker, NEW w \in Workers
  PROVE  Cardinality(InFlight) = IF pc[w] \in {"write", "replace"} THEN 1 ELSE 0
<1>1. InFlight = IF pc[w] \in {"write", "replace"} THEN {w} ELSE {}
  BY DEF InFlight, LoneWorker
<1> QED
  BY <1>1, FS_Singleton, FS_EmptySet

\* The stored traces can be counted.
LEMMA StoredCount ==
  ASSUME Inv
  PROVE  IsFiniteSet(Stored) /\ Cardinality(Stored) \in Nat
<1>1. CASE metadata \in Metas
  <2>1. PICK n \in 0..Total(metadata) : Stored = Prefix(metadata, n)
    BY <1>1 DEF Inv, DiskOK, Campaign
  <2> QED
    BY <1>1, <2>1, PrefixShape, FS_CardinalityType
<1>2. CASE metadata \notin Metas
  <2>1. Stored = {}
    BY <1>2 DEF Inv, DiskOK
  <2> QED
    BY <2>1, FS_EmptySet
<1> QED
  BY <1>1, <1>2

\* The stored traces stay a prefix that covers what is remembered while neither grows.
LEMMA DiskStays ==
  ASSUME LoneWorker, Inv, NEW w \in Workers, metadata \in Metas, UNCHANGED <<metadata, traces>>,
         mem'[w] \in {mem[w], <<>>}
  PROVE  DiskOK'
<1>1. PICK n \in 0..Total(metadata) : Campaign(n)
  BY DEF Inv, DiskOK
<1>2. n \in Nat
  OBVIOUS
<1>3. Len(mem'[w]) <= n /\ \A i \in 1..Len(mem'[w]) : mem'[w][i] = traces[Pair(metadata, i)]
  <2>1. CASE mem'[w] = mem[w]
    BY <1>1, <2>1 DEF Campaign
  <2>2. CASE mem'[w] = <<>>
    BY <1>2, <2>2
  <2> QED
    BY <2>1, <2>2
<1>4. Campaign(n)'
  BY <1>1, <1>3 DEF Campaign, Stored, LoneWorker
<1> QED
  BY <1>4 DEF DiskOK

\* A step that leaves the files alone, and no worker with more than it remembered, is
\* judged by what it does to its worker and to the count of the evaluations.
LEMMA QuietStep ==
  ASSUME LoneWorker, Inv, NEW w \in Workers, UNCHANGED <<metadata, summary, manifest, traces>>,
         mem'[w] \in {mem[w], <<>>},
         TypeOK', OneCallLostPerCrash', WorkerOK(w)'
  PROVE  Inv'
<1>1. DiskOK'
  <2>1. CASE metadata \in Metas
    BY <2>1, DiskStays
  <2>2. CASE metadata \notin Metas
    BY <2>2 DEF Inv, DiskOK, Stored, LoneWorker
  <2> QED
    BY <2>1, <2>2
<1>2. Sealed'
  BY DEF Inv, Sealed, PairedHop1, Holding, Stored
<1> QED
  BY <1>1, <1>2 DEF Inv, LoneWorker

\* The empty directory with no worker under way satisfies the invariant.
LEMMA InitInv == Init => Inv
<1> SUFFICES ASSUME Init
             PROVE  Inv
  OBVIOUS
<1>1. Stored = {} /\ {w \in Workers : pc[w] \in {"write", "replace"}} = {}
  BY DEF Init, Stored
<1>2. OneCallLostPerCrash
  <2>1. Cardinality(Stored) = 0 /\ Cardinality({w \in Workers : pc[w] \in {"write", "replace"}}) = 0
    BY <1>1, FS_EmptySet
  <2> QED
    BY <2>1 DEF OneCallLostPerCrash, Init
<1>3. TypeOK
  <2>1. <<>> \in Seq(TraceType)
    BY EmptySeq
  <2>2. mem \in [Workers -> Seq(TraceType)]
    BY <2>1 DEF Init
  <2>3. 0 \in 0..MaxCrashes /\ 0 \in Nat
    BY BoundAssumption
  <2> QED
    BY <2>2, <2>3 DEF Init, TypeOK
<1>4. DiskOK
  BY <1>1, NoneAssumption DEF Init, DiskOK
<1>5. Sealed
  BY DEF Init, Sealed
<1>6. \A w \in Workers : WorkerOK(w)
  BY DEF Init, WorkerOK, Running
<1> QED
  BY <1>2, <1>3, <1>4, <1>5, <1>6 DEF Inv

\* A restart takes up the run where the files say it is.
LEMMA OpenInv ==
  ASSUME LoneWorker, Inv, NEW w \in Workers, Open(w)
  PROVE  Inv'
<1>1. PICK m \in Metas :
        /\ meta' = [meta EXCEPT ![w] = m]
        /\ pc' = [pc EXCEPT ![w] = Opening(m)]
        /\ dir' = (dir \/ Opening(m) = "reserve")
  BY DEF Open, Goto
<1>2. pc[w] = "idle" /\ UNCHANGED <<metadata, summary, manifest, traces, mem, held, calls, crashes>>
  BY DEF Open, Keep
<1>3. /\ Opening(m) \in {"completed", "evaluate", "error", "conflict", "reserve"}
      /\ Opening(m) = "evaluate" => summary = None /\ metadata = m
      /\ Opening(m) = "reserve" => summary = None /\ metadata = None
  BY NoneAssumption DEF Opening
<1>4. pc'[w] = Opening(m) /\ meta'[w] = m
  BY <1>1 DEF Inv, TypeOK
<1>5. TypeOK'
  BY <1>1, <1>2, <1>3 DEF Inv, TypeOK, Running, Ended
<1>6. OneCallLostPerCrash'
  BY <1>2, <1>3, <1>4, InFlightCount DEF Inv, OneCallLostPerCrash, Stored, LoneWorker, InFlight
<1>7. WorkerOK(w)'
  BY <1>2, <1>3, <1>4 DEF WorkerOK, Running
<1> QED
  BY <1>2, <1>5, <1>6, <1>7, QuietStep

\* A new run gets its metadata before anything else.
LEMMA WriteMetadataInv ==
  ASSUME LoneWorker, Inv, NEW w \in Workers, WriteMetadata(w)
  PROVE  Inv'
<1>1. /\ pc[w] = "reserve" /\ metadata' = meta[w] /\ pc' = [pc EXCEPT ![w] = "evaluate"]
      /\ UNCHANGED <<dir, summary, manifest, traces, meta, mem, held, calls, crashes>>
  BY DEF WriteMetadata, Goto, Keep
<1>2. meta[w] \in Metas /\ metadata = None /\ summary = None
  BY <1>1 DEF Inv, WorkerOK, Running
<1>3. /\ metadata \notin Metas /\ Stored = {} /\ manifest = None
      /\ \A u \in Workers : mem[u] = <<>>
  BY <1>2, NoneAssumption DEF Inv, DiskOK
<1>4. TypeOK'
  BY <1>1, <1>2, <1>3 DEF Inv, TypeOK, Running
<1>5. OneCallLostPerCrash'
  BY <1>1, <1>4, InFlightCount DEF Inv, OneCallLostPerCrash, Stored, LoneWorker, InFlight, TypeOK
<1>6. DiskOK'
  <2>1. Len(<<>>) = 0 /\ 0 \in 0..Total(metadata')
    <3>1. Total(meta[w]) \in Nat \ {0}
      BY <1>2, PlanShape, Zenon
    <3> QED
      BY <1>1, <3>1
  <2>2. Prefix(metadata', 0) = {}
    BY <1>1, <1>2, <2>1, PrefixShape
  <2>3. Campaign(0)'
    BY <1>1, <1>3, <2>1, <2>2 DEF Campaign, Stored
  <2> QED
    BY <1>1, <1>2, <2>1, <2>3 DEF DiskOK
<1>7. Sealed'
  BY <1>1, <1>2, <1>3 DEF Sealed
<1>8. WorkerOK(w)'
  BY <1>1, <1>2, <1>4 DEF WorkerOK, Running, TypeOK
<1> QED
  BY <1>4, <1>5, <1>6, <1>7, <1>8 DEF Inv, LoneWorker

\* What a worker in the loop over the pairs knows: the prefix is as long as the files say,
\* and the pair that is due is the next one or one of them.
LEMMA LoopFacts ==
  ASSUME Inv, NEW w \in Workers, pc[w] \in Running \ {"reserve"}
  PROVE  /\ meta[w] = metadata /\ metadata \in Metas /\ Total(metadata) \in Nat \ {0}
         /\ mem[w] \in Seq(TraceType) /\ Len(mem[w]) \in Nat
         /\ Due(w) = Pair(metadata, Len(mem[w]) + 1)
         /\ \E n \in 0..Total(metadata) : Campaign(n) /\ Len(mem[w]) <= n
<1>1. meta[w] = metadata /\ metadata \in Metas
  BY DEF Inv, WorkerOK
<1>2. Total(metadata) \in Nat \ {0}
  BY <1>1, PlanShape, Zenon
<1>3. mem[w] \in Seq(TraceType) /\ Len(mem[w]) \in Nat
  BY LenProperties DEF Inv, TypeOK
<1>4. \E n \in 0..Total(metadata) : Campaign(n)
  BY <1>1 DEF Inv, DiskOK
<1> QED
  BY <1>1, <1>2, <1>3, <1>4 DEF Due, Campaign

\* A pair that is found is one of those stored, and is remembered as it is stored.
LEMMA ResumeInv ==
  ASSUME LoneWorker, Inv, NEW w \in Workers, Resume(w)
  PROVE  Inv'
<1> DEFINE len == Len(mem[w])
<1>1. /\ pc[w] = "evaluate" /\ ~Complete(w) /\ Found(w)
      /\ mem' = [mem EXCEPT ![w] = Append(mem[w], traces[Due(w)])]
      /\ UNCHANGED <<dir, metadata, summary, manifest, traces, pc, meta, held, calls, crashes>>
  BY DEF Resume, files
<1>2. /\ meta[w] = metadata /\ metadata \in Metas /\ Total(metadata) \in Nat \ {0}
      /\ mem[w] \in Seq(TraceType) /\ len \in Nat
      /\ Due(w) = Pair(metadata, len + 1)
  BY <1>1, LoopFacts DEF Running
<1>3. PICK n \in 0..Total(metadata) : Campaign(n) /\ len <= n
  BY <1>1, LoopFacts DEF Running
<1>4. len + 1 \in 1..Total(metadata)
  BY <1>1, <1>2, <1>3 DEF Complete
<1>5. Due(w) \in Keys /\ Due(w) \in Stored /\ traces[Due(w)] \in TraceType
  BY <1>1, <1>2, <1>4, PairIsKey DEF Found, Stored, Inv, TypeOK
<1>6. len + 1 <= n
  BY <1>2, <1>3, <1>4, <1>5, PrefixShape DEF Campaign
<1>7. /\ mem'[w] \in Seq(TraceType) /\ Len(mem'[w]) = len + 1
      /\ \A i \in 1..len : mem'[w][i] = mem[w][i]
      /\ mem'[w][len + 1] = traces[Due(w)]
  BY <1>1, <1>2, <1>5, AppendProperties DEF Inv, TypeOK
<1>8. TypeOK'
  BY <1>1, <1>7 DEF Inv, TypeOK
<1>9. Campaign(n)'
  <2>1. \A i \in 1..(len + 1) : i = len + 1 \/ i \in 1..len
    BY <1>2
  <2>2. \A i \in 1..len : mem[w][i] = traces[Pair(metadata, i)]
    BY <1>3 DEF Campaign
  <2>3. \A i \in 1..(len + 1) : mem'[w][i] = traces[Pair(metadata, i)]
    BY <1>2, <1>7, <2>1, <2>2
  <2> QED
    BY <1>1, <1>3, <1>6, <1>7, <2>3 DEF Campaign, Stored, LoneWorker
<1>10. DiskOK'
  BY <1>1, <1>2, <1>9 DEF DiskOK
<1>11. Sealed' /\ OneCallLostPerCrash'
  BY <1>1 DEF Inv, Sealed, PairedHop1, Holding, Stored, OneCallLostPerCrash
<1>12. WorkerOK(w)'
  BY <1>1 DEF Inv, WorkerOK, Running
<1> QED
  BY <1>8, <1>10, <1>11, <1>12 DEF Inv, LoneWorker

\* A pair that is not found will be evaluated.
LEMMA MissInv ==
  ASSUME LoneWorker, Inv, NEW w \in Workers, Miss(w)
  PROVE  Inv'
<1>1. /\ pc[w] = "evaluate" /\ ~Complete(w) /\ ~Found(w)
      /\ pc' = [pc EXCEPT ![w] = "ask"]
      /\ UNCHANGED <<dir, metadata, summary, manifest, traces, meta, mem, held, calls, crashes>>
  BY DEF Miss, Goto, Keep, files
<1>2. /\ meta[w] = metadata /\ Total(metadata) \in Nat \ {0} /\ Len(mem[w]) \in Nat
      /\ \E n \in 0..Total(metadata) : Campaign(n) /\ Len(mem[w]) <= n
  BY <1>1, LoopFacts DEF Running
<1>3. Len(mem[w]) < Total(meta[w])
  BY <1>1, <1>2 DEF Complete
<1>4. TypeOK' /\ pc'[w] = "ask"
  BY <1>1 DEF Inv, TypeOK, Running
<1>5. WorkerOK(w)'
  BY <1>1, <1>3, <1>4 DEF Inv, WorkerOK, Running, Found, Due
<1>6. OneCallLostPerCrash'
  BY <1>1, <1>4, InFlightCount DEF Inv, OneCallLostPerCrash, Stored, LoneWorker, InFlight
<1> QED
  BY <1>1, <1>4, <1>5, <1>6, QuietStep

\* The evaluation is paid for, and is in flight.
LEMMA AskInv ==
  ASSUME LoneWorker, Inv, NEW w \in Workers, Ask(w)
  PROVE  Inv'
<1>1. PICK trace \in Outcomes(w) : held' = [held EXCEPT ![w] = trace]
  BY DEF Ask
<1>2. /\ pc[w] = "ask" /\ calls' = calls + 1 /\ pc' = [pc EXCEPT ![w] = "write"]
      /\ UNCHANGED <<dir, metadata, summary, manifest, traces, meta, mem, crashes>>
  BY DEF Ask, Goto, files
<1>3. trace \in TraceType
  BY DEF Outcomes, TraceType
<1>4. TypeOK' /\ pc'[w] = "write" /\ held'[w] \in TraceType
  BY <1>1, <1>2, <1>3 DEF Inv, TypeOK, Running
<1>5. WorkerOK(w)'
  BY <1>2, <1>4 DEF Inv, WorkerOK, Running, Due
<1>6. OneCallLostPerCrash'
  <2>1. Cardinality(InFlight) = 0 /\ Cardinality(InFlight') = 1 /\ Cardinality(Stored) \in Nat
    <3>1. InFlight = {} /\ InFlight' = {w}
      BY <1>2, <1>4 DEF LoneWorker, InFlight
    <3> QED
      BY <3>1, StoredCount, FS_EmptySet, FS_Singleton
  <2>2. calls <= Cardinality(Stored) + crashes + 0 /\ calls \in Nat /\ crashes \in Nat
    BY <2>1, BoundAssumption DEF Inv, OneCallLostPerCrash, InFlight, TypeOK
  <2>3. calls + 1 <= Cardinality(Stored) + crashes + 1
    BY <2>1, <2>2
  <2> QED
    BY <1>2, <2>1, <2>3 DEF OneCallLostPerCrash, Stored, InFlight
<1> QED
  BY <1>2, <1>4, <1>5, <1>6, QuietStep

\* The pair of an evaluation in flight is not stored, so that the write is not refused.
LEMMA StageInv ==
  ASSUME LoneWorker, Inv, NEW w \in Workers, Stage(w)
  PROVE  Inv'
<1>1. traces[Due(w)] = None
  BY DEF Stage, Inv, WorkerOK
<1>2. /\ pc[w] = "write" /\ pc' = [pc EXCEPT ![w] = "replace"]
      /\ UNCHANGED <<dir, metadata, summary, manifest, traces, meta, mem, held, calls, crashes>>
  BY <1>1 DEF Stage, Goto, files
<1>3. TypeOK' /\ pc'[w] = "replace"
  BY <1>2 DEF Inv, TypeOK, Running
<1>4. WorkerOK(w)'
  BY <1>2, <1>3 DEF Inv, WorkerOK, Running, Due
<1>5. OneCallLostPerCrash'
  <2>1. Cardinality(InFlight') = Cardinality(InFlight)
    BY <1>2, <1>3, InFlightCount DEF LoneWorker, InFlight
  <2> QED
    BY <1>2, <2>1 DEF Inv, OneCallLostPerCrash, Stored, InFlight
<1> QED
  BY <1>2, <1>3, <1>4, <1>5, QuietStep

\* The trace that is put in place is that of the next pair, and replaces nothing.
LEMMA ReplaceInv ==
  ASSUME LoneWorker, Inv, NEW w \in Workers, Replace(w)
  PROVE  Inv'
<1> DEFINE n == Len(mem[w])
<1>1. /\ pc[w] = "replace" /\ pc' = [pc EXCEPT ![w] = "evaluate"]
      /\ traces' = [traces EXCEPT ![Due(w)] = held[w]]
      /\ mem' = [mem EXCEPT ![w] = Append(mem[w], held[w])]
      /\ held' = [held EXCEPT ![w] = None]
      /\ UNCHANGED <<dir, metadata, summary, manifest, meta, calls, crashes>>
  BY DEF Replace, Remember, Goto
<1>2. /\ meta[w] = metadata /\ metadata \in Metas /\ Total(metadata) \in Nat \ {0}
      /\ mem[w] \in Seq(TraceType) /\ n \in Nat
      /\ Due(w) = Pair(metadata, n + 1)
  BY <1>1, LoopFacts DEF Running
<1>3. /\ n < Total(metadata) /\ traces[Due(w)] = None
      /\ held[w] \in TraceType /\ held[w] # None /\ summary = None /\ manifest = None
  BY <1>1, <1>2, NoneAssumption DEF Inv, WorkerOK, Sealed
<1>4. n + 1 \in 1..Total(metadata) /\ n \in 0..Total(metadata) /\ n + 1 \in 0..Total(metadata)
  BY <1>2, <1>3
<1>5. Due(w) \in Keys /\ Due(w) \notin Stored
  BY <1>2, <1>3, <1>4, PairIsKey DEF Stored
<1>6. PICK c \in 0..Total(metadata) : Campaign(c) /\ n <= c
  BY <1>1, LoopFacts DEF Running
<1>7. c = n
  <2>1. ASSUME n + 1 <= c
        PROVE  FALSE
    <3>1. Pair(metadata, n + 1) \in Prefix(metadata, c)
      BY <1>2, <2>1 DEF Prefix, At
    <3> QED
      BY <1>2, <1>5, <1>6, <3>1 DEF Campaign
  <2> QED
    BY <1>2, <1>6, <2>1
<1>8. Stored' = Stored \cup {Due(w)}
  <2>1. \A k \in Keys : traces'[k] = IF k = Due(w) THEN held[w] ELSE traces[k]
    BY <1>1 DEF Inv, TypeOK
  <2> QED
    BY <1>3, <1>5, <2>1 DEF Stored
<1>9. /\ mem'[w] \in Seq(TraceType) /\ Len(mem'[w]) = n + 1
      /\ \A i \in 1..n : mem'[w][i] = mem[w][i]
      /\ mem'[w][n + 1] = held[w]
  BY <1>1, <1>2, <1>3, AppendProperties DEF Inv, TypeOK
<1>10. TypeOK'
  <2>1. traces' \in [Keys -> TraceType \cup {None}]
    BY <1>1, <1>3, <1>5 DEF Inv, TypeOK
  <2>2. mem' \in [Workers -> Seq(TraceType)]
    BY <1>1, <1>9 DEF Inv, TypeOK
  <2> QED
    BY <1>1, <1>3, <2>1, <2>2 DEF Inv, TypeOK, Running
<1>11. Campaign(c + 1)'
  <2>1. Stored' = Prefix(metadata, n + 1)
    BY <1>2, <1>3, <1>4, <1>6, <1>7, <1>8, PrefixShape DEF Campaign
  <2>2. \A i \in 1..(n + 1) : i = n + 1 \/ i \in 1..n
    BY <1>2
  <2>3. \A i \in 1..n : mem[w][i] = traces[Pair(metadata, i)] /\ Pair(metadata, i) \in Stored
    BY <1>6, <1>7 DEF Campaign, Prefix, At
  <2>4. \A i \in 1..n : traces'[Pair(metadata, i)] = traces[Pair(metadata, i)]
    BY <1>1, <1>5, <2>3 DEF Inv, TypeOK, Stored
  <2>5. traces'[Due(w)] = held[w]
    BY <1>1, <1>5 DEF Inv, TypeOK
  <2>6. \A i \in 1..(n + 1) : mem'[w][i] = traces'[Pair(metadata, i)]
    BY <1>2, <1>9, <2>2, <2>3, <2>4, <2>5
  <2>7. Len(mem'[w]) <= n + 1
    BY <1>2, <1>9
  <2> QED
    BY <1>1, <1>7, <1>9, <2>1, <2>6, <2>7 DEF Campaign, LoneWorker
<1>12. DiskOK'
  BY <1>1, <1>2, <1>4, <1>7, <1>11 DEF DiskOK
<1>13. Sealed'
  BY <1>1, <1>3 DEF Sealed
<1>14. OneCallLostPerCrash'
  <2>1. Cardinality(InFlight) = 1 /\ Cardinality(InFlight') = 0
    <3>1. pc'[w] = "evaluate"
      BY <1>1 DEF Inv, TypeOK
    <3>2. InFlight = {w} /\ InFlight' = {}
      BY <1>1, <3>1 DEF LoneWorker, InFlight
    <3> QED
      BY <3>2, FS_EmptySet, FS_Singleton
  <2>2. Cardinality(Stored') = Cardinality(Stored) + 1 /\ Cardinality(Stored) \in Nat
    BY <1>5, <1>8, StoredCount, FS_AddElement
  <2>3. calls <= Cardinality(Stored) + crashes + 1 /\ calls \in Nat /\ crashes \in Nat
    BY <2>1, BoundAssumption DEF Inv, OneCallLostPerCrash, InFlight, TypeOK
  <2>4. calls <= (Cardinality(Stored) + 1) + crashes + 0
    BY <2>2, <2>3
  <2> QED
    BY <1>1, <2>1, <2>2, <2>4 DEF OneCallLostPerCrash, InFlight
<1>15. WorkerOK(w)'
  BY <1>1, <1>2, <1>3, <1>10 DEF Inv, WorkerOK, Running, TypeOK
<1> QED
  BY <1>10, <1>12, <1>13, <1>14, <1>15 DEF Inv, LoneWorker

\* After the last pair a paired campaign is finalized, another is given up.
LEMMA ValidateInv ==
  ASSUME LoneWorker, Inv, NEW w \in Workers, Validate(w)
  PROVE  Inv'
<1>1. /\ pc[w] = "evaluate" /\ Complete(w)
      /\ pc' = [pc EXCEPT ![w] = IF Paired(w) THEN "summary.json" ELSE "unpaired"]
      /\ UNCHANGED <<dir, metadata, summary, manifest, traces, meta, mem, held, calls, crashes>>
  BY DEF Validate, Goto, Keep, files
<1>2. /\ TypeOK' /\ pc'[w] \in {"summary.json", "unpaired"}
      /\ pc'[w] = "summary.json" => Paired(w)
  BY <1>1 DEF Inv, TypeOK, Running, Ended
<1>3. Paired(w)' = Paired(w)
  BY <1>1 DEF Paired, Completed
<1>4. WorkerOK(w)'
  BY <1>1, <1>2, <1>3 DEF Inv, WorkerOK, Running, Complete
<1>5. OneCallLostPerCrash'
  <2>1. Cardinality(InFlight') = Cardinality(InFlight)
    BY <1>1, <1>2, InFlightCount DEF LoneWorker, InFlight
  <2> QED
    BY <1>1, <2>1 DEF Inv, OneCallLostPerCrash, Stored, InFlight
<1> QED
  BY <1>1, <1>2, <1>4, <1>5, QuietStep

\* The completed traces of one question and top_k have the same Hop-1 results.
Agreed ==
  \A j, k \in Stored :
    /\ j[1] = k[1] /\ j[3] = k[3]
    /\ traces[j].status = "completed" /\ traces[k].status = "completed"
    => traces[j].hop1 = traces[k].hop1

\* At the summary the campaign is whole and paired, and the counts over what the worker
\* remembers are those over what is stored: every place of the campaign is one trace.
LEMMA SummaryHolds ==
  ASSUME Inv, NEW w \in Workers, pc[w] = "summary.json"
  PROVE  /\ metadata \in Metas /\ Stored = Pairs(metadata) /\ Agreed
         /\ summary = None /\ manifest = None
         /\ Summary(w) \in SummaryType /\ Summary(w).meta = metadata
         /\ Summary(w).completed = Cardinality(Holding("completed"))
         /\ Summary(w).failed = Cardinality(Holding("failed"))
<1> DEFINE total == Total(metadata)
           failed == (1..total) \ Completed(w)
<1>1. /\ meta[w] = metadata /\ metadata \in Metas /\ total \in Nat \ {0}
      /\ mem[w] \in Seq(TraceType)
  BY LoopFacts DEF Running
<1>2. Len(mem[w]) = total /\ Paired(w) /\ summary = None /\ manifest = None
  BY <1>1 DEF Inv, WorkerOK, Sealed
<1>3. PICK c \in 0..total : Campaign(c) /\ Len(mem[w]) <= c
  BY LoopFacts DEF Running
<1>4. c = total
  BY <1>1, <1>2, <1>3
<1>5. Stored = Pairs(metadata)
  BY <1>1, <1>3, <1>4 DEF Campaign, Prefix, At, Pairs
<1>6. /\ DOMAIN mem[w] = 1..total
      /\ \A i \in 1..total : mem[w][i] = traces[Pair(metadata, i)] /\ mem[w][i] \in TraceType
  BY <1>1, <1>2, <1>3, LenProperties, ElementOfSeq DEF Campaign
<1>7. Agreed
  <2>1. ASSUME NEW j \in Stored, NEW k \in Stored, j[1] = k[1], j[3] = k[3],
               traces[j].status = "completed", traces[k].status = "completed"
        PROVE  traces[j].hop1 = traces[k].hop1
    <3>1. PICK a \in 1..total : j = Pair(metadata, a)
      BY <1>5 DEF Pairs
    <3>2. PICK b \in 1..total : k = Pair(metadata, b)
      BY <1>5 DEF Pairs
    <3>3. a \in Completed(w) /\ b \in Completed(w)
      BY <1>6, <2>1, <3>1, <3>2 DEF Completed
    <3>4. mem[w][a].hop1 = mem[w][b].hop1
      BY <1>1, <1>2, <2>1, <3>1, <3>2, <3>3 DEF Paired
    <3> QED
      BY <1>6, <3>1, <3>2, <3>4
  <2> QED
    BY <2>1 DEF Agreed
<1>8. Completed(w) \in SUBSET (1..total) /\ failed \in SUBSET (1..total)
  BY <1>6 DEF Completed
<1>9. Holding("completed") = At(metadata, Completed(w))
  BY <1>5, <1>6 DEF Holding, Pairs, At, Completed
<1>10. Holding("failed") = At(metadata, failed)
  <2>1. \A t \in TraceType : t.status \in {"completed", "failed"}
    BY DEF TraceType
  <2>2. \A i \in 1..total : i \in failed <=> traces[Pair(metadata, i)].status = "failed"
    BY <1>6, <2>1 DEF Completed
  <2> QED
    BY <1>5, <1>8, <2>2 DEF Holding, Pairs, At
<1>11. Cardinality(Holding("completed")) = Cardinality(Completed(w))
  BY <1>1, <1>8, <1>9, PairsCount
<1>12. Cardinality(Holding("failed")) = Cardinality(failed)
  <2> HIDE DEF failed
  <2> QED
    BY <1>1, <1>8, <1>10, PairsCount
<1>13. /\ Cardinality(Completed(w)) \in Nat
       /\ Cardinality(failed) \in Nat
       /\ Cardinality(failed) = total - Cardinality(Completed(w))
  <2>1. 1 \in Int /\ total \in Int /\ (IF 1 > total THEN 0 ELSE total - 1 + 1) = total
    BY <1>1
  <2>2. IsFiniteSet(1..total) /\ Cardinality(1..total) = total
    <3> HIDE DEF total
    <3> QED
      BY <2>1, FS_Interval
  <2>3. (1..total) \cap Completed(w) = Completed(w)
    BY <1>8
  <2>4. Cardinality(failed) = total - Cardinality(Completed(w))
    <3> DEFINE all == 1..total
               done == Completed(w)
    <3>1. failed = all \ done
      OBVIOUS
    <3> HIDE DEF all, done, failed
    <3>2. Cardinality(failed) = Cardinality(all) - Cardinality(all \cap done)
      BY <2>2, <3>1, FS_Difference DEF all
    <3> QED
      BY <2>2, <2>3, <3>2, Zenon DEF all, done
  <2>5. IsFiniteSet(Completed(w)) /\ IsFiniteSet(failed)
    <3> HIDE DEF failed
    <3> QED
      BY <1>8, <2>2, FS_Subset
  <2> QED
    BY <2>4, <2>5, FS_CardinalityType
<1>14. /\ Summary(w).meta = metadata /\ Summary(w).completed = Cardinality(Completed(w))
       /\ Summary(w).failed = total - Cardinality(Completed(w))
  BY <1>1, <1>2 DEF Summary
<1>15. Summary(w) \in SummaryType
  <2>1. total - Cardinality(Completed(w)) \in Nat
    BY <1>13
  <2> QED
    BY <1>1, <1>2, <1>13, <2>1 DEF Summary, SummaryType
<1> QED
  BY <1>1, <1>2, <1>5, <1>7, <1>11, <1>12, <1>13, <1>14, <1>15

\* The summary seals a whole and paired campaign, completely written or torn.
LEMMA SummarySeals ==
  ASSUME Inv, NEW w \in Workers, pc[w] = "summary.json", summary' \in {Torn, Summary(w)},
         UNCHANGED <<metadata, manifest, traces>>
  PROVE  Sealed' /\ summary' \in SummaryType \cup {Torn}
<1>1. /\ metadata \in Metas /\ Stored = Pairs(metadata) /\ Agreed /\ manifest = None
      /\ Summary(w) \in SummaryType /\ Summary(w).meta = metadata
      /\ Summary(w).completed = Cardinality(Holding("completed"))
      /\ Summary(w).failed = Cardinality(Holding("failed"))
  BY SummaryHolds
<1>2. /\ Stored' = Stored /\ PairedHop1'
      /\ Holding("completed")' = Holding("completed")
      /\ Holding("failed")' = Holding("failed")
  BY <1>1 DEF Stored, PairedHop1, Agreed, Holding
<1>3. Pairs(metadata)' = Pairs(metadata)
  BY DEF Pairs
<1>4. Torn # None /\ summary' \in SummaryType \cup {Torn} /\ summary' # None
  BY <1>1, NoneAssumption
<1>5. summary' # Torn => summary' = Summary(w)
  OBVIOUS
<1> QED
  BY <1>1, <1>2, <1>3, <1>4, <1>5 DEF Sealed

\* The summary is written.
LEMMA WriteSummaryInv ==
  ASSUME LoneWorker, Inv, NEW w \in Workers, WriteSummary(w)
  PROVE  Inv'
<1>1. /\ pc[w] = "summary.json" /\ summary = None /\ manifest = None
      /\ metadata \in Metas /\ Summary(w) \in SummaryType
  BY SummaryHolds DEF WriteSummary
<1>2. /\ summary' = Summary(w) /\ pc' = [pc EXCEPT ![w] = "manifest.json"]
      /\ UNCHANGED <<dir, metadata, manifest, traces, meta, mem, held, calls, crashes>>
  BY <1>1 DEF WriteSummary, Goto, Keep
<1>3. Sealed'
  BY <1>1, <1>2, SummarySeals
<1>4. TypeOK' /\ pc'[w] = "manifest.json"
  BY <1>1, <1>2 DEF Inv, TypeOK, Running
<1>5. DiskOK'
  BY <1>1, <1>2, DiskStays
<1>6. OneCallLostPerCrash'
  <2>1. InFlight' = InFlight
    BY <1>1, <1>2, <1>4 DEF LoneWorker, InFlight
  <2> QED
    BY <1>2, <2>1 DEF Inv, OneCallLostPerCrash, Stored, InFlight
<1>7. WorkerOK(w)'
  BY <1>1, <1>2, <1>4, NoneAssumption DEF Inv, WorkerOK, Running
<1> QED
  BY <1>3, <1>4, <1>5, <1>6, <1>7 DEF Inv, LoneWorker

\* The manifest lists what is stored, completely written or torn.
LEMMA ManifestLists ==
  ASSUME LoneWorker, Inv, NEW w \in Workers, pc[w] = "manifest.json",
         manifest' \in {Torn, Inventory}, UNCHANGED <<metadata, summary, traces>>
  PROVE  /\ Sealed' /\ metadata \in Metas
         /\ manifest' \in {None, Torn} \cup
              [metadata : {metadata}, summary : {summary}, traces : [Keys -> TraceType \cup {None}]]
<1>1. metadata \in Metas /\ summary \notin {None, Torn}
  BY LoopFacts DEF Running, Inv, WorkerOK
<1>2. Sealed'
  BY <1>1 DEF Inv, Sealed, PairedHop1, Holding, Stored, Inventory
<1> QED
  BY <1>1, <1>2 DEF Inv, TypeOK, Inventory

\* The manifest is written.
LEMMA WriteManifestInv ==
  ASSUME LoneWorker, Inv, NEW w \in Workers, WriteManifest(w)
  PROVE  Inv'
<1>1. pc[w] = "manifest.json" /\ manifest = None
  BY DEF Inv, WorkerOK, WriteManifest
<1>2. /\ manifest' = Inventory /\ pc' = [pc EXCEPT ![w] = "load"]
      /\ UNCHANGED <<dir, metadata, summary, traces, meta, mem, held, calls, crashes>>
  BY <1>1 DEF WriteManifest, Goto, Keep
<1>3. /\ Sealed' /\ metadata \in Metas
      /\ manifest' \in {None, Torn} \cup
           [metadata : {metadata}, summary : {summary}, traces : [Keys -> TraceType \cup {None}]]
  BY <1>1, <1>2, ManifestLists
<1>4. TypeOK' /\ pc'[w] = "load"
  BY <1>2, <1>3 DEF Inv, TypeOK, Running
<1>5. OneCallLostPerCrash'
  <2>1. InFlight' = InFlight
    BY <1>1, <1>4 DEF LoneWorker, InFlight
  <2> QED
    BY <1>2, <2>1 DEF Inv, OneCallLostPerCrash, Stored, InFlight
<1>6. WorkerOK(w)'
  BY <1>1, <1>2, <1>4 DEF Inv, WorkerOK, Running
<1>7. DiskOK'
  BY <1>2, <1>3, DiskStays
<1> QED
  BY <1>3, <1>4, <1>5, <1>6, <1>7 DEF Inv, LoneWorker

\* The export is loaded, or refused.
LEMMA LoadInv ==
  ASSUME LoneWorker, Inv, NEW w \in Workers, Load(w)
  PROVE  Inv'
<1>1. /\ pc[w] = "load" /\ pc' = [pc EXCEPT ![w] = IF Loadable THEN "done" ELSE "error"]
      /\ UNCHANGED <<dir, metadata, summary, manifest, traces, meta, mem, held, calls, crashes>>
  BY DEF Load, Goto, Keep, files
<1>2. TypeOK' /\ pc'[w] \in {"done", "error"}
  BY <1>1 DEF Inv, TypeOK, Ended
<1>3. OneCallLostPerCrash'
  <2>1. InFlight' = InFlight
    BY <1>1, <1>2 DEF LoneWorker, InFlight
  <2> QED
    BY <1>1, <2>1 DEF Inv, OneCallLostPerCrash, Stored, InFlight
<1>4. WorkerOK(w)'
  BY <1>2 DEF WorkerOK, Running
<1> QED
  BY <1>1, <1>2, <1>3, <1>4, QuietStep

\* A process that has ended is started again with nothing in its memory.
LEMMA RestartInv ==
  ASSUME LoneWorker, Inv, NEW w \in Workers, Restart(w)
  PROVE  Inv'
<1>1. /\ pc[w] \in Ended /\ pc' = [pc EXCEPT ![w] = "idle"]
      /\ meta' = [meta EXCEPT ![w] = None]
      /\ mem' = [mem EXCEPT ![w] = <<>>]
      /\ held' = [held EXCEPT ![w] = None]
      /\ UNCHANGED <<dir, metadata, summary, manifest, traces, calls, crashes>>
  BY DEF Restart, Goto, files
<1>2. <<>> \in Seq(TraceType)
  BY EmptySeq
<1>3. TypeOK' /\ pc'[w] = "idle" /\ mem'[w] = <<>>
  BY <1>1, <1>2 DEF Inv, TypeOK
<1>4. OneCallLostPerCrash'
  <2>1. InFlight' = InFlight
    BY <1>1, <1>3 DEF LoneWorker, InFlight, Ended
  <2> QED
    BY <1>1, <2>1 DEF Inv, OneCallLostPerCrash, Stored, InFlight
<1>5. WorkerOK(w)'
  BY <1>3 DEF WorkerOK, Running
<1> QED
  BY <1>1, <1>3, <1>4, <1>5, QuietStep

\* The evaluation in flight, if there is one, is lost.
LEMMA CrashCounts ==
  ASSUME LoneWorker, Inv, NEW w \in Workers, crashes' = crashes + 1, UNCHANGED <<calls, traces>>,
         pc'[w] = "idle"
  PROVE  OneCallLostPerCrash'
<1>1. InFlight' = {}
  BY DEF LoneWorker, InFlight
<1>2. Cardinality(InFlight') = 0 /\ Cardinality(InFlight) \in {0, 1}
  BY <1>1, FS_EmptySet, InFlightCount
<1>3. /\ Cardinality(Stored) \in Nat /\ calls \in Nat /\ crashes \in Nat
      /\ calls <= Cardinality(Stored) + crashes + Cardinality(InFlight)
  BY StoredCount, BoundAssumption DEF Inv, OneCallLostPerCrash, InFlight, TypeOK
<1>4. calls <= Cardinality(Stored) + (crashes + 1) + 0
  BY <1>2, <1>3
<1> QED
  BY <1>2, <1>4 DEF OneCallLostPerCrash, Stored, InFlight

\* A crash loses the memory of the process and leaves the file it was writing absent,
\* torn or whole.
LEMMA CrashInv ==
  ASSUME LoneWorker, Inv, NEW w \in Workers, Crash(w)
  PROVE  Inv'
<1>1. /\ crashes < MaxCrashes /\ crashes' = crashes + 1
      /\ pc' = [pc EXCEPT ![w] = "idle"]
      /\ meta' = [meta EXCEPT ![w] = None]
      /\ mem' = [mem EXCEPT ![w] = <<>>]
      /\ held' = [held EXCEPT ![w] = None]
      /\ UNCHANGED <<calls, traces, dir>>
  BY DEF Crash, Goto, files
<1>2. <<>> \in Seq(TraceType)
  BY EmptySeq
<1>3. pc'[w] = "idle" /\ mem'[w] = <<>>
  BY <1>1 DEF Inv, TypeOK
<1>4. /\ pc' \in [Workers -> Running \cup Ended \cup {"idle"}]
      /\ meta' \in [Workers -> Metas \cup {None}]
      /\ mem' \in [Workers -> Seq(TraceType)]
      /\ held' \in [Workers -> TraceType \cup {None}]
      /\ crashes' \in 0..MaxCrashes
  BY <1>1, <1>2, BoundAssumption DEF Inv, TypeOK
<1>5. OneCallLostPerCrash' /\ WorkerOK(w)'
  BY <1>1, <1>3, CrashCounts DEF WorkerOK, Running
<1>6. CASE UNCHANGED files
  <2>1. TypeOK'
    BY <1>1, <1>4, <1>6 DEF Inv, TypeOK, files
  <2> QED
    BY <1>3, <1>5, <1>6, <2>1, QuietStep DEF files
<1>7. CASE /\ pc[w] = "reserve" /\ metadata' \in {Torn, meta[w]}
           /\ UNCHANGED <<dir, summary, manifest, traces>>
  <2>1. meta[w] \in Metas /\ metadata = None /\ summary = None
    BY <1>7 DEF Inv, WorkerOK, Running
  <2>2. Stored = {} /\ manifest = None
    BY <2>1, NoneAssumption DEF Inv, DiskOK
  <2>3. TypeOK'
    BY <1>1, <1>4, <1>7, <2>1, <2>2 DEF Inv, TypeOK
  <2>4. Stored' = {} /\ \A u \in Workers : mem'[u] = <<>>
    BY <1>1, <1>3, <2>2 DEF Stored, LoneWorker
  <2>5. DiskOK'
    <3>1. CASE metadata' \in Metas
      <4>1. Total(metadata') \in Nat \ {0}
        BY <3>1, PlanShape, Zenon
      <4>2. 0 \in 0..Total(metadata') /\ Len(<<>>) = 0
        BY <4>1
      <4>3. Prefix(metadata', 0) = {}
        BY <3>1, <4>2, PrefixShape
      <4>4. Campaign(0)'
        BY <2>4, <4>2, <4>3 DEF Campaign
      <4> QED
        BY <3>1, <4>2, <4>4 DEF DiskOK
    <3>2. CASE metadata' \notin Metas
      BY <1>7, <2>1, <2>2, <2>4, <3>2 DEF DiskOK
    <3> QED
      BY <3>1, <3>2
  <2>6. Sealed'
    BY <1>7, <2>1, <2>2 DEF Sealed
  <2> QED
    BY <1>5, <2>3, <2>5, <2>6 DEF Inv, LoneWorker
<1>8. CASE /\ pc[w] = "summary.json" /\ summary' \in {Torn, Summary(w)}
           /\ UNCHANGED <<dir, metadata, manifest, traces>>
  <2>1. Sealed' /\ summary' \in SummaryType \cup {Torn} /\ metadata \in Metas /\ manifest = None
    BY <1>8, SummarySeals, SummaryHolds
  <2>2. TypeOK'
    BY <1>1, <1>4, <1>8, <2>1 DEF Inv, TypeOK
  <2>3. DiskOK'
    BY <1>3, <1>8, <2>1, DiskStays
  <2> QED
    BY <1>5, <2>1, <2>2, <2>3 DEF Inv, LoneWorker
<1>9. CASE /\ pc[w] = "manifest.json" /\ manifest' \in {Torn, Inventory}
           /\ UNCHANGED <<dir, metadata, summary, traces>>
  <2>1. /\ Sealed' /\ metadata \in Metas
        /\ manifest' \in {None, Torn} \cup
             [metadata : {metadata}, summary : {summary}, traces : [Keys -> TraceType \cup {None}]]
    BY <1>9, ManifestLists
  <2>2. TypeOK'
    BY <1>1, <1>4, <1>9, <2>1 DEF Inv, TypeOK
  <2>3. DiskOK'
    BY <1>3, <1>9, <2>1, DiskStays
  <2> QED
    BY <1>5, <2>1, <2>2, <2>3 DEF Inv, LoneWorker
<1> QED
  BY <1>6, <1>7, <1>8, <1>9 DEF Crash

\* Every step keeps the invariant.
LEMMA InvStep ==
  ASSUME LoneWorker
  PROVE  Inv /\ [Next]_vars => Inv'
<1> SUFFICES ASSUME Inv, [Next]_vars
             PROVE  Inv'
  OBVIOUS
<1>1. ASSUME NEW w \in Workers, Open(w) \/ Proceed(w) \/ Crash(w) \/ Restart(w)
      PROVE  Inv'
  BY <1>1, OpenInv, CrashInv, RestartInv, WriteMetadataInv, ResumeInv, MissInv, AskInv, StageInv,
     ReplaceInv, ValidateInv, WriteSummaryInv, WriteManifestInv, LoadInv DEF Proceed
<1>2. CASE UNCHANGED vars
  BY <1>2 DEF vars, files, Inv, TypeOK, OneCallLostPerCrash, DiskOK, Campaign, Stored, Sealed,
              PairedHop1, Holding, WorkerOK, Due, Paired, Completed
<1> QED
  BY <1>1, <1>2 DEF Next
-----------------------------------------------------------------------------
(* The theorems *)

\* The invariant holds in every state of a run that one process at a time works on.
THEOREM Invariance ==
  ASSUME LoneWorker
  PROVE  Spec => []Inv
<1> QED
  BY InitInv, InvStep, PTL DEF Spec

\* Every variable keeps its type, and no file of a trace is ever torn (os.replace).
THEOREM TypeCorrect ==
  ASSUME LoneWorker
  PROVE  Spec => []TypeOK
<1>1. Inv => TypeOK
  BY DEF Inv
<1> QED
  BY <1>1, Invariance, PTL

\* Crashes and restarts, also with other metadata, leave a prefix of one campaign.
THEOREM PrefixStored ==
  ASSUME LoneWorker
  PROVE  Spec => []StoredIsPrefix
<1>1. ASSUME Inv
      PROVE  StoredIsPrefix
  <2>1. CASE metadata \in Metas
    <3>1. PICK n \in 0..Total(metadata) : Campaign(n)
      BY <1>1, <2>1 DEF Inv, DiskOK
    <3>2. CASE n = 0
      BY <3>1, <3>2, <2>1, PrefixShape DEF Campaign, StoredIsPrefix
    <3>3. CASE n # 0
      <4>1. n \in 1..Total(metadata)
        BY <3>3
      <4>2. Stored = {Pair(metadata, i) : i \in 1..n}
        BY <3>1 DEF Campaign, Prefix, At
      <4>3. ASSUME NEW w \in Workers, NEW i \in DOMAIN mem[w]
            PROVE  mem[w][i] = traces[Pair(metadata, i)]
        <5>1. DOMAIN mem[w] = 1..Len(mem[w])
          BY <1>1, LenProperties DEF Inv, TypeOK
        <5> QED
          BY <3>1, <4>3, <5>1 DEF Campaign
      <4> QED
        BY <2>1, <4>1, <4>2, <4>3 DEF StoredIsPrefix
    <3> QED
      BY <3>2, <3>3
  <2>2. CASE metadata \notin Metas
    BY <1>1, <2>2 DEF Inv, DiskOK, StoredIsPrefix
  <2> QED
    BY <2>1, <2>2
<1> QED
  BY <1>1, Invariance, PTL

\* "Persist each question-condition result before moving to the next API call": every
\* evaluation that was paid for is stored, but for one lost in each crash and the one in
\* flight.
THEOREM CallsAreKept ==
  ASSUME LoneWorker
  PROVE  Spec => []OneCallLostPerCrash
<1>1. Inv => OneCallLostPerCrash
  BY DEF Inv
<1> QED
  BY <1>1, Invariance, PTL

\* A run whose summary was begun is paired in its Hop-1 results.
THEOREM SummaryIsPaired ==
  ASSUME LoneWorker
  PROVE  Spec => []PairedHop1
<1>1. Inv => PairedHop1
  BY DEF Inv, Sealed, PairedHop1
<1> QED
  BY <1>1, Invariance, PTL

\* A manifest means a whole campaign that can be loaded and whose summary counts it.
THEOREM ManifestMeansWhole ==
  ASSUME LoneWorker
  PROVE  Spec => []ManifestCovers
<1>1. ASSUME Inv, manifest \notin {None, Torn}
      PROVE  /\ Loadable /\ summary.meta = metadata /\ Stored = Pairs(metadata)
             /\ summary.completed = Cardinality(Holding("completed"))
             /\ summary.failed = Cardinality(Holding("failed"))
  <2>1. /\ summary \notin {None, Torn} /\ metadata \in Metas /\ Stored = Pairs(metadata)
        /\ summary.meta = metadata
        /\ summary.completed = Cardinality(Holding("completed"))
        /\ summary.failed = Cardinality(Holding("failed"))
        /\ manifest.metadata = metadata /\ manifest.summary = summary
        /\ manifest.traces = traces
    BY <1>1 DEF Inv, Sealed
  <2>2. Cardinality(Stored) = Total(metadata)
    <3>1. Total(metadata) \in Nat \ {0}
      BY <2>1, PlanShape, Zenon
    <3>2. Total(metadata) \in 0..Total(metadata)
      BY <3>1
    <3>3. Cardinality(Prefix(metadata, Total(metadata))) = Total(metadata)
      BY <2>1, <3>2, PrefixShape
    <3>4. Prefix(metadata, Total(metadata)) = Pairs(metadata)
      BY DEF Prefix, At, Pairs
    <3> QED
      BY <2>1, <3>3, <3>4
  <2> QED
    BY <1>1, <2>1, <2>2 DEF Loadable, Stored
<1>2. Inv => ManifestCovers
  BY <1>1 DEF ManifestCovers, Holding
<1> QED
  BY <1>2, Invariance, PTL

\* A trace that was stored is never replaced, whatever crashes and restarts intervene.
THEOREM TracesStay ==
  ASSUME LoneWorker
  PROVE  Spec => TracesAreFinal
<1>1. ASSUME Inv, [Next]_vars, NEW k \in Stored
      PROVE  traces'[k] = traces[k]
  <2>1. ASSUME NEW w \in Workers, Replace(w)
        PROVE  traces'[k] = traces[k]
    <3>1. traces[Due(w)] = None
      BY <1>1, <2>1 DEF Inv, WorkerOK, Replace
    <3> QED
      BY <1>1, <2>1, <3>1 DEF Replace, Stored, Inv, TypeOK
  <2>2. ASSUME NEW w \in Workers, Proceed(w), ~Replace(w)
        PROVE  traces'[k] = traces[k]
    BY <2>2 DEF Proceed, WriteMetadata, Resume, Miss, Ask, Stage, Validate, WriteSummary,
                WriteManifest, Load, files
  <2>3. ASSUME NEW w \in Workers, Open(w) \/ Crash(w) \/ Restart(w)
        PROVE  traces'[k] = traces[k]
    BY <2>3 DEF Open, Crash, Restart, files
  <2>4. CASE UNCHANGED vars
    BY <2>4 DEF vars, files
  <2> QED
    BY <1>1, <2>1, <2>2, <2>3, <2>4 DEF Next
<1>2. Inv /\ [Next]_vars => [\A k \in Stored : traces'[k] = traces[k]]_vars
  BY <1>1
<1> QED
  BY <1>2, Invariance, PTL DEF Spec, TracesAreFinal
=============================================================================
