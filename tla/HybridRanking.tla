----------------------------- MODULE HybridRanking -----------------------------
(***************************************************************************)
(* Hybrid retrieval: the hits of the lexical and of the dense index, their *)
(* weighted reciprocal rank fusion, and the merge of two retrieval hops.   *)
(*                                                                         *)
(* What a query scores in an index is an input: a function from chunks to  *)
(* naturals, in which 0 is a chunk that shares no token with the query.    *)
(* Chunks are numbered in the order of their IDs.  Fused scores are exact: *)
(* the code's fractions over a common denominator.                         *)
(***************************************************************************)
EXTENDS Ordering

CONSTANTS
  NumChunks,
  CandidateK,   \* hits each branch contributes
  TopK,         \* results of one retrieval
  RankConstant,
  Weight        \* Weight[b]: the weight of branch b

Chunk == 1..NumChunks
Branches == {"bm25", "dense"}

ASSUME RankingAssumption ==
  /\ NumChunks \in Nat \ {0} /\ TopK \in Nat \ {0} /\ RankConstant \in Nat \ {0}
  /\ CandidateK \in Nat /\ CandidateK >= TopK
  /\ Weight \in [Branches -> Nat \ {0}]

-----------------------------------------------------------------------------
\* The CandidateK best of the chunks cs by score and ID.
Best(cs, score) ==
  FirstOf(CandidateK,
          InOrder(cs, LAMBDA c, d : score[c] > score[d] \/ (score[c] = score[d] /\ c < d)))

\* BM25Index.search: only chunks that share a token with the query are scored.
LexicalHits(score) == Best({c \in Chunk : score[c] > 0}, score)

\* FaissFlatIPIndex.search_vector: every chunk is scored.
DenseHits(score) == Best(Chunk, score)

\* The hits of both branches, as the ranks of the chunks each of them found.
RanksIn(hits) == [c \in ToSet(hits) |-> CHOOSE r \in DOMAIN hits : hits[r] = c]

Denominator == ProductSet({RankConstant + r : r \in 1..CandidateK})
Share(b, r) == Weight[b] * (Denominator \div (RankConstant + r))

FoundBy(ranks, c) == {b \in Branches : c \in DOMAIN ranks[b]}

\* Fault: the mean of the branches that found a chunk instead of their sum.
MeanScore(ranks, c) ==
  MapThenSumSet(LAMBDA b : Share(b, ranks[b][c]), FoundBy(ranks, c))
    \div Cardinality(FoundBy(ranks, c))

FusedScore(ranks, c) ==
  MapThenSumSet(LAMBDA b : Share(b, ranks[b][c]), FoundBy(ranks, c))

BestRank(ranks, c) == Min({ranks[b][c] : b \in FoundBy(ranks, c)})

\* reciprocal_rank_fusion: by fused score, then best rank in a branch, then ID.
FusedBefore(ranks, c, d) ==
  LET sc == FusedScore(ranks, c)  sd == FusedScore(ranks, d)
      bc == BestRank(ranks, c)    bd == BestRank(ranks, d)
  IN \/ sc > sd
     \/ sc = sd /\ bc < bd
     \/ sc = sd /\ bc = bd /\ c < d

Fused(ranks) ==
  FirstOf(TopK, InOrder(DOMAIN ranks.bm25 \cup DOMAIN ranks.dense,
                        LAMBDA c, d : FusedBefore(ranks, c, d)))

\* HybridRetriever.retrieve: the query, what each branch found, and the results.
Retrieve(query, lexical, dense) ==
  LET ranks == [bm25 |-> RanksIn(LexicalHits(lexical)), dense |-> RanksIn(DenseHits(dense))]
  IN [query |-> query, ranks |-> ranks, results |-> Fused(ranks)]
-----------------------------------------------------------------------------
\* Hits of all hops in the order in which merge_retrieval_hops meets them.
HitsOf(hops) ==
  FlattenSeq([h \in DOMAIN hops |->
    [r \in DOMAIN hops[h].results |-> [chunk |-> hops[h].results[r], hop |-> h, rank |-> r]]])

Occurrence(hit) == [hop |-> hit.hop, rank |-> hit.rank]

\* Fault: a repeated hit is skipped and not added to the occurrences of its chunk.
AddUnseenHit(merged, hit) ==
  IF \E i \in DOMAIN merged : merged[i].chunk = hit.chunk THEN merged
  ELSE Append(merged, [chunk |-> hit.chunk, first |-> hit.hop, occurrences |-> <<Occurrence(hit)>>])

\* One hit of the loop: a chunk keeps its first place and all its appearances.
AddHit(merged, hit) ==
  IF \E i \in DOMAIN merged : merged[i].chunk = hit.chunk
  THEN [i \in DOMAIN merged |->
          IF merged[i].chunk # hit.chunk THEN merged[i]
          ELSE [merged[i] EXCEPT !.occurrences = Append(@, Occurrence(hit))]]
  ELSE Append(merged, [chunk |-> hit.chunk, first |-> hit.hop, occurrences |-> <<Occurrence(hit)>>])

\* merge_retrieval_hops, and the chunks of its result in merged order.
Merge(hops) == FoldLeft(AddHit, <<>>, HitsOf(hops))
MergedChunks(merged) == [i \in DOMAIN merged |-> merged[i].chunk]

\* MergedChunkProvenance, HopMergeDiagnostics and HopMergeResult.
MergeValid(hops, merged) ==
  /\ \A i, j \in DOMAIN merged : merged[i].chunk = merged[j].chunk => i = j
  /\ \A i \in DOMAIN merged :
       LET o == merged[i].occurrences IN
       o # <<>> /\ merged[i].first = o[1].hop /\ \A k, l \in DOMAIN o : k < l => o[k].hop <= o[l].hop
  /\ Len(merged) <= Len(HitsOf(hops))
=============================================================================
