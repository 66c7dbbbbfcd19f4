---------------------------- MODULE DenseSearch ----------------------------
(***************************************************************************)
(* The searches of OrdinalIndex and IdMapIndex (ordinaldb/src/ordinal.rs,  *)
(* id_map.rs) over the rows and tables of IdMapIndex: exact, two-stage,    *)
(* allowlisted and batched.  A search changes nothing, so it is an         *)
(* operator on the state and the properties quantify over the searches.    *)
(*                                                                         *)
(* ordvec ranks the rows by RankScore, and preselects them by SignScore;   *)
(* which of several rows with one score it takes is its own choice, so a   *)
(* search yields a set of possible results.  A result is a sequence of     *)
(* [slot, score], one cell per k; Padding is a cell ordvec did not fill.   *)
(* f32 scores are integers.                                                *)
(***************************************************************************)
EXTENDS IdMapIndex, RankFusion

CONSTANTS
  Queries,     \* query vectors whose coordinates are valid
  RankScore,   \* RankScore[q][v]: RankQuant score of vector v for query q
  SignScore,   \* SignScore[q][v]: sign agreement
  MaxK,        \* bound: k
  MaxAllowed,  \* bound: entries of an allowlist
  TwoStage     \* TwoStageOptions: [min, multiplier, max]; max NoMax is None

NoMax == -1
SearchOptions == [min : Nat, multiplier : Nat, max : Nat \cup {NoMax}]

ASSUME SearchScores == /\ RankScore \in [Queries -> [Vectors -> Int]]
                       /\ SignScore \in [Queries -> [Vectors -> Nat]]
\* Row IDs are u64, f32 scores other than NaN and infinity are numbers, and the
\* value of a failed search is not that of a search without hits.
ASSUME SearchRows == Ids \subseteq Int /\ NonFinite \notin Int
ASSUME SearchErr ==
  /\ \A n \in 0..MaxK : /\ Err \notin [1..n -> [slot : Int, score : Int \cup {NonFinite}]]
                        /\ Err \notin [1..n -> [row_id : Int, score : Int]]
  /\ Err \notin [1..2 -> Seq([row_id : Int, score : Int])]
ASSUME SearchNone == \A mask \in SUBSET Slots(MaxRows) : mask # None
ASSUME SearchBounds == MaxK \in Nat /\ MaxAllowed \in Nat /\ TwoStage \subseteq SearchOptions

DenseSearchModes == {"Auto", "ExactRankQuant", "SignTwoStage"}
Padding == [slot |-> -1, score |-> NonFinite]

-----------------------------------------------------------------------------
(* ordvec *)

\* The sequences of the n best members of S by score, best first
Rankings(S, n, score) ==
  {r \in [1..n -> S] :
     /\ \A i, j \in 1..n : i < j => r[i] # r[j] /\ score[r[i]] >= score[r[j]]
     /\ \A s \in S \ Range(r) : \A i \in 1..n : score[s] <= score[r[i]]}

\* search_asymmetric_subset: k cells for a list of candidate slots, padded
\* when the list is shorter.  A slot listed twice is scored twice.
RankSubset(q, candidates, k) ==
  LET score == [c \in DOMAIN candidates |-> RankScore[q][rows.at[candidates[c]]]]
      n == Min({k, Len(candidates)})
  IN {[i \in 1..k |-> IF i <= n THEN [slot |-> candidates[r[i]], score |-> score[r[i]]]
                      ELSE Padding] :
        r \in Rankings(DOMAIN candidates, n, score)}

SearchAsymmetric(q, k) == RankSubset(q, InOrder(Slots(rows.len)), k)

\* top_m_candidates: m slots of the sidecar with the best sign agreement
TopCandidates(q, m) ==
  LET agreement == [s \in Slots(sign.len) |-> SignScore[q][sign.at[s]]]
  IN {InOrder(Range(r)) : r \in Rankings(Slots(sign.len), m, agreement)}

-----------------------------------------------------------------------------
(* OrdinalIndex *)

\* TwoStageOptions::candidate_count
CandidateCount(o, k, n) ==
  IF k = 0 \/ n = 0 THEN 0
  ELSE LET wanted == Max({o.min, k * o.multiplier})
       IN Min({n, IF o.max = NoMax THEN wanted ELSE Min({wanted, o.max})})

FixedCandidates(n) == [min |-> n, multiplier |-> 0, max |-> n]

UsesSign(mode) == hasSign /\ mode # "ExactRankQuant"

\* Mutant: as many results are promised as the search space has rows.
EffectiveKUncapped(k, mode, o) == Min({k, rows.len})

\* DenseSearchPlan.effective_k
EffectiveK(k, mode, o) ==
  LET exact == Min({k, rows.len}) IN
  IF UsesSign(mode) THEN Min({exact, CandidateCount(o, exact, rows.len)}) ELSE exact

\* search_two_stage
SearchTwoStage(q, k, m) ==
  UNION {RankSubset(q, candidates, k) : candidates \in TopCandidates(q, m)}

\* search_checked_with_options: a set of results, or {Err}
SearchChecked(q, k, mode, o) ==
  LET exact == Min({k, rows.len})
      m == CandidateCount(o, exact, rows.len)
  IN IF dim = Lazy THEN {<<>>}
     ELSE IF mode = "SignTwoStage" /\ ~hasSign THEN {Err}       \* MissingSignSidecar
     ELSE IF ~UsesSign(mode) THEN SearchAsymmetric(q, exact)
     ELSE IF exact > 0 /\ m = 0 THEN {Err}                      \* Limit
     ELSE SearchTwoStage(q, EffectiveK(k, mode, o), m)

\* search_with_options: the missing sidecar falls back to the exact search,
\* any other error panics (Err).
SearchPanicking(q, k, mode, o) ==
  IF mode = "SignTwoStage" /\ ~hasSign /\ dim # Lazy
  THEN SearchChecked(q, k, "ExactRankQuant", o)
  ELSE SearchChecked(q, k, mode, o)

\* search_with_candidates: candidates are a sequence of slots
SearchWithCandidates(q, k, candidates) ==
  IF dim = Lazy THEN {<<>>}
  ELSE IF \E i \in DOMAIN candidates : candidates[i] \notin Slots(rows.len) THEN {Err}
  ELSE RankSubset(q, candidates, Min({k, Len(candidates)}))

\* search_checked_with_allowlist: without IDs the row IDs are the slots
SlotAllowlistResults(q, k, slots) == SearchWithCandidates(q, k, InOrder(Range(slots)))

DefaultOptions == [min |-> 256, multiplier |-> 32, max |-> NoMax]

\* search_with_mask: the set of slots the mask allows, or None
SearchWithMask(q, k, mask) ==
  IF mask = None THEN SearchPanicking(q, k, "Auto", DefaultOptions)
  ELSE SearchWithCandidates(q, k, InOrder(mask))

-----------------------------------------------------------------------------
(* IdMapIndex *)

\* candidate_slots_from_allowlist: sort and dedup
CandidateSlots(ids) ==
  InOrder({id_to_slot[ids[i]] : i \in DOMAIN ids})

AllowlistMissing(ids) == \E i \in DOMAIN ids : id_to_slot[ids[i]] = NoSlot

\* search_results_checked with an allowlist
AllowlistResults(q, k, ids) ==
  IF AllowlistMissing(ids) THEN {Err}
  ELSE SearchWithCandidates(q, k, CandidateSlots(ids))

\* scores_ids_from_results, row_id_for_slot: padding is skipped
ScoresIds(result) ==
  LET filled == InOrder({i \in DOMAIN result : result[i].slot >= 0})
  IN [i \in DOMAIN filled |->
        [row_id |-> slot_to_id.at[result[filled[i]].slot], score |-> result[filled[i]].score]]

SearchIds(results) == {IF r = Err THEN Err ELSE ScoresIds(r) : r \in results}

\* search_batch_rows_with_allowlists: one allowlist per query, and a query
SearchBatchRows(qs, k, allowlists) ==
  IF dim = Lazy \/ Len(allowlists) # Len(qs) THEN {Err}
  ELSE LET perQuery == [i \in DOMAIN qs |-> SearchIds(AllowlistResults(qs[i], k, allowlists[i]))]
       IN {IF \E i \in DOMAIN lists : lists[i] = Err THEN Err ELSE FromRankedLists(lists) :
             lists \in {l \in [DOMAIN qs -> UNION Range(perQuery)] :
                          \A i \in DOMAIN qs : l[i] \in perQuery[i]}}

-----------------------------------------------------------------------------
(* OrdinalIndex::search_batch_rows_with_allowlists: the slots themselves    *)
(* are the row IDs, and all queries share one CSR search whose k is that of *)
(* the longest candidate list, so the shorter ones are padded.              *)

SlotBatchRows(qs, k, allowlists) ==
  LET candidates == [i \in DOMAIN qs |-> InOrder(Range(allowlists[i]))]
      width == Min({k, Max({Len(candidates[i]) : i \in DOMAIN qs})})
      perQuery == [i \in DOMAIN qs |-> RankSubset(qs[i], candidates[i], width)]
      Cells(choice) == [c \in 1..(Len(qs) * width) |->
                          choice[1 + ((c - 1) \div width)][1 + ((c - 1) % width)]]
      Batch(cells) == FromFlat(Len(qs), width, [c \in DOMAIN cells |-> cells[c].score],
                               [c \in DOMAIN cells |-> cells[c].slot])
  IN IF \/ dim = Lazy \/ Len(allowlists) # Len(qs)
        \/ \E i \in DOMAIN qs : ~(Range(allowlists[i]) \subseteq Slots(rows.len))
     THEN {Err}
     ELSE {Batch(Cells(choice)) :
             choice \in {l \in [DOMAIN qs -> UNION Range(perQuery)] :
                           \A i \in DOMAIN qs : l[i] \in perQuery[i]}}

-----------------------------------------------------------------------------
(* Properties.  A hit is correct when it carries the score of the vector    *)
(* its ID holds now, whatever moved between the slots before.               *)

\* A row of a slot batch, by the ID its slot holds
ScoresIdsOfRows(hits) ==
  [i \in DOMAIN hits |-> [row_id |-> slot_to_id.at[hits[i].row_id], score |-> hits[i].score]]

LiveIds == {id \in Ids : id_to_slot[id] # NoSlot}
ScoreOfId(q, id) == RankScore[q][rows.at[id_to_slot[id]]]
AgreementOfId(q, id) == SignScore[q][rows.at[id_to_slot[id]]]

\* hits are the n best of the IDs S, best first
AreBest(q, hits, S, n) ==
  LET returned == {hits[i].row_id : i \in DOMAIN hits} IN
  /\ Len(hits) = Min({n, Cardinality(S)})
  /\ Cardinality(returned) = Len(hits) /\ returned \subseteq S
  /\ \A i \in DOMAIN hits : hits[i].score = ScoreOfId(q, hits[i].row_id)
  /\ \A i \in 2..Len(hits) : hits[i - 1].score >= hits[i].score
  /\ \A id \in S \ returned : \A i \in DOMAIN hits : ScoreOfId(q, id) <= hits[i].score

\* Searches do not read saved and a write changes nothing else, so what holds
\* of them just after a write or a load holds of them in every state.
JustSaved ==
  /\ saved.dim = dim /\ saved.rows = rows /\ saved.hasSign = hasSign
  /\ saved.ids = slot_to_id

\* No row is left out by the preselection of the default options.
ScoresEveryRow(mode) == UsesSign(mode) => rows.len <= DefaultOptions.min

\* A search that scores every row returns the best k live IDs with the scores
\* of their current vectors, and search never panics under its default
\* options; with no sidecar an explicit two-stage search falls back to it.
SearchFindsBest ==
  JustSaved => \A q \in Queries, k \in 0..MaxK, mode \in DenseSearchModes :
    \A hits \in SearchIds(SearchPanicking(q, k, mode, DefaultOptions)) :
      hits # Err /\ (ScoresEveryRow(mode) => AreBest(q, hits, LiveIds, k))

\* A two-stage search returns as many hits as its plan reports, none of them
\* padding, and never prefers an ID to one it leaves out that has both the
\* better sign agreement and the better score; it fails only without a
\* sidecar or with no candidates to look at.
TwoStageKeepsPromise ==
  JustSaved /\ hasSign => \A q \in Queries, k \in 0..MaxK, o \in TwoStage :
    \A hits \in SearchIds(SearchChecked(q, k, "SignTwoStage", o)) :
      IF hits = Err THEN o.max = 0 \/ (o.min = 0 /\ o.multiplier = 0)
      ELSE /\ Len(hits) = EffectiveK(k, "SignTwoStage", o)
           /\ \A i \in DOMAIN hits : hits[i].score = ScoreOfId(q, hits[i].row_id)
           /\ \A i \in DOMAIN hits, id \in LiveIds \ {hits[j].row_id : j \in DOMAIN hits} :
                ~(/\ ScoreOfId(q, id) > hits[i].score
                  /\ AgreementOfId(q, id) > AgreementOfId(q, hits[i].row_id))

\* However rows were appended, swap-removed and loaded, each search of the
\* whole index, exact or two-stage, gives live IDs the scores of their own
\* vectors and returns the best of what its plan looks at.
SearchKeepsPromise == SearchFindsBest /\ TwoStageKeepsPromise

\* An allowlist of live IDs, in any order and with repeats, gives the best of
\* exactly those IDs, and so does one of their slots or a mask over the slots;
\* one unknown ID fails the whole search.
AllowlistIsFilter ==
  JustSaved => \A q \in Queries, k \in 0..MaxK, n \in 0..MaxAllowed :
    \A ids \in [1..n -> Ids] :
      LET slots == [i \in 1..n |-> id_to_slot[ids[i]]] IN
      IF ~(Range(ids) \subseteq LiveIds) THEN AllowlistResults(q, k, ids) = {Err}
      ELSE \A hits \in SearchIds(AllowlistResults(q, k, ids)
                                \cup SlotAllowlistResults(q, k, slots)
                                \cup SearchWithMask(q, k, Range(slots))) :
             hits # Err /\ AreBest(q, hits, Range(ids), k)

\* A batch answers each query as if it were alone, although the queries have
\* different allowlists: the cells padding the shorter results never surface,
\* neither as a row nor as a refused batch.
BatchAnswersEachQuery ==
  JustSaved /\ dim # Lazy =>
   \A p, q \in Queries, k \in 0..MaxK, T \in SUBSET LiveIds :
    LET SlotsOf(ids) == InOrder({id_to_slot[id] : id \in ids})
    IN /\ \A batch \in SearchBatchRows(<<p, q>>, k, <<InOrder(LiveIds), InOrder(T)>>) :
            /\ batch # Err
            /\ AreBest(p, batch[1], LiveIds, k) /\ AreBest(q, batch[2], T, k)
       /\ \A batch \in SlotBatchRows(<<p, q>>, k, <<SlotsOf(LiveIds), SlotsOf(T)>>) :
            /\ batch # Err
            /\ AreBest(p, ScoresIdsOfRows(batch[1]), LiveIds, k)
            /\ AreBest(q, ScoresIdsOfRows(batch[2]), T, k)

\* Restricting a search to some rows, by IDs, slots or a mask, for one query
\* or for each of a batch, is the same as ranking only these rows.
FilteredSearchKeepsPromise == AllowlistIsFilter /\ BatchAnswersEachQuery
=============================================================================
