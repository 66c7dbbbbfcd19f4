----------------------------- MODULE RankFusion -----------------------------
(***************************************************************************)
(* Ranked lists and reciprocal rank fusion                                 *)
(* (ordinaldb-hybrid/src/fusion.rs).  Pure: no state.                      *)
(*                                                                         *)
(* A RankedBatch is a sequence of lists, one per query; a list is a        *)
(* sequence of [row_id, score].  An f32 score is an integer here, or the   *)
(* model value NonFinite.  A call that returns Err has the value Err.      *)
(***************************************************************************)
EXTENDS Integers, Sequences, FiniteSetsExt

SeqExt == INSTANCE SequencesExt

CONSTANTS
  Err,        \* the call returned Err
  None,       \* an Option that is None
  NonFinite   \* a score that is NaN or infinite

AllFinite(list) == \A i \in DOMAIN list : list[i].score # NonFinite

\* rank_row_order: score descending, then row_id ascending
RanksBefore(a, b) ==
  a.score > b.score \/ (a.score = b.score /\ a.row_id < b.row_id)

\* S in increasing order: a member stands after all the smaller ones.
InOrder(S) ==
  [i \in 1..Cardinality(S) |-> CHOOSE s \in S : Cardinality({t \in S : t < s}) = i - 1]

\* The items of a list at these places, in the order of the list
Kept(list, places) ==
  LET order == InOrder(places) IN [i \in DOMAIN order |-> list[order[i]]]

\* The rows S in rank order
RankOrder(S) ==
  [i \in 1..Cardinality(S) |->
     CHOOSE row \in S : Cardinality({t \in S : RanksBefore(t, row)}) = i - 1]

\* normalize_ranked_list: rank order, and of the rows of one row_id the first
NormalizeRankedList(list) ==
  LET rows == {list[i] : i \in DOMAIN list}
      Repeats(row) == \E t \in rows : t.row_id = row.row_id /\ RanksBefore(t, row)
  IN IF AllFinite(list) THEN RankOrder({row \in rows : ~Repeats(row)}) ELSE Err

\* validate_sorted_ranked_slice, validate_no_duplicate_rows
IsRankedSlice(list) ==
  /\ AllFinite(list)
  /\ \A i \in 1..(Len(list) - 1) : ~RanksBefore(list[i + 1], list[i])
  /\ \A i, j \in DOMAIN list : list[i].row_id = list[j].row_id => i = j

FromRankedLists(lists) ==
  LET normalized == [q \in DOMAIN lists |-> NormalizeRankedList(lists[q])] IN
  IF \E q \in DOMAIN lists : normalized[q] = Err THEN Err ELSE normalized

\* The hits of query q are hits[offsets[q]..offsets[q + 1]].
ValidOffsets(offsets, n) ==
  /\ offsets # <<>>
  /\ offsets[1] = 0 /\ SeqExt!Last(offsets) = n
  /\ \A i \in 1..(Len(offsets) - 1) : offsets[i] <= offsets[i + 1]

HitLists(offsets, hits) ==
  [q \in 1..(Len(offsets) - 1) |-> SubSeq(hits, offsets[q] + 1, offsets[q + 1])]

FromSortedOffsetsHits(offsets, hits) ==
  IF /\ ValidOffsets(offsets, Len(hits))
     /\ \A q \in 1..(Len(offsets) - 1) : IsRankedSlice(HitLists(offsets, hits)[q])
  THEN HitLists(offsets, hits) ELSE Err

SumOf(seq) ==
  LET sum[i \in 0..Len(seq)] == IF i = 0 THEN 0 ELSE sum[i - 1] + seq[i] IN sum[Len(seq)]
SumBefore(seq, i) == SumOf(SubSeq(seq, 1, i - 1))

\* A batch of results laid end to end: the offsets each list ends at
OffsetsOf(lists) ==
  [q \in 1..(Len(lists) + 1) |-> SumBefore([i \in DOMAIN lists |-> Len(lists[i])], q)]

\* Mutant: the padding is ranked with the rows.
CellsWithPadding(q, k, scores, indices) ==
  [i \in 1..k |-> [row_id |-> indices[(q - 1) * k + i], score |-> scores[(q - 1) * k + i]]]

\* from_flat_scores_i64_indices: nq rows of k cells; a negative index is padding.
\* from_flat_scores_ids and _slots are the case without negative indices.
CellsOfQuery(q, k, scores, indices) ==
  LET At(i) == (q - 1) * k + i
      filled == InOrder({i \in 1..k : indices[At(i)] >= 0})
  IN [i \in DOMAIN filled |-> [row_id |-> indices[At(filled[i])], score |-> scores[At(filled[i])]]]

\* The offsets are made from the lists, and from_offsets_hits takes the same
\* lists from them again.
FromFlat(nq, k, scores, indices) ==
  IF Len(scores) = Len(indices) /\ Len(scores) = nq * k
  THEN FromRankedLists([q \in 1..nq |-> CellsOfQuery(q, k, scores, indices)])
  ELSE Err

-----------------------------------------------------------------------------
(* rrf_fuse_batch *)

NoRank == 0       \* dense_rank or sparse_rank: None, to keep ranks integers
Unlimited == -1   \* usize::MAX: every window and top_k longer than the list

\* RrfConfig, as validate accepts it
Windows == Nat \cup {Unlimited}
RrfConfigs ==
  [rank_constant : Nat \ {0}, dense_window : Windows, sparse_window : Windows, top_k : Windows]

Take(list, n) == IF n = Unlimited \/ n >= Len(list) THEN list ELSE SubSeq(list, 1, n)

\* The rank add_rrf_source gives row id: its first place inside the window
RankIn(list, window, id) ==
  LET places == {i \in DOMAIN Take(list, window) : list[i].row_id = id} IN
  IF places = {} THEN NoRank ELSE Min(places)

\* 1 / (rank_constant + rank), over the common denominator of ranks 1..longest
Denominator(c, longest) ==
  LET product[r \in 0..longest] == IF r = 0 THEN 1 ELSE product[r - 1] * (c + r)
  IN product[longest]

\* Mutant: the reciprocal rank forgets the rank constant's own denominator.
ContributionByRank(c, rank, longest) ==
  IF rank = NoRank THEN 0 ELSE c + rank

Contribution(c, rank, longest) ==
  IF rank = NoRank THEN 0 ELSE Denominator(c, longest) \div (c + rank)

ScoreAt(list, rank) == IF rank = NoRank THEN None ELSE list[rank].score

FusedRow(dense, sparse, config, id) ==
  LET dr == RankIn(dense, config.dense_window, id)
      sr == RankIn(sparse, config.sparse_window, id)
      longest == Max({Len(dense), Len(sparse)})
  IN [row_id |-> id, dense_rank |-> dr, sparse_rank |-> sr,
      dense_score |-> ScoreAt(dense, dr), sparse_score |-> ScoreAt(sparse, sr),
      score |-> Contribution(config.rank_constant, dr, longest)
                + Contribution(config.rank_constant, sr, longest)]

FuseLists(dense, sparse, config) ==
  LET ids == {Take(dense, config.dense_window)[i].row_id :
                i \in DOMAIN Take(dense, config.dense_window)}
             \cup {Take(sparse, config.sparse_window)[i].row_id :
                     i \in DOMAIN Take(sparse, config.sparse_window)}
  IN Take(RankOrder({FusedRow(dense, sparse, config, id) : id \in ids}), config.top_k)

RrfFuseBatch(dense, sparse, config) ==
  IF config.rank_constant > 0 /\ Len(dense) = Len(sparse)
  THEN [q \in DOMAIN dense |-> FuseLists(dense[q], sparse[q], config)]
  ELSE Err
=============================================================================
