---------------------------- MODULE SearchProofs ----------------------------
(***************************************************************************)
(* Proofs about DenseSearch and RecordSearch for any vectors, scores,      *)
(* queries, options and bounds.  What ordvec returns is Ranked by slot; the *)
(* tables of IdMapIndex, and above them those of RecordMap, turn it into   *)
(* hits that are best by ID and by name.                                   *)
(***************************************************************************)
EXTENDS RecordSearch, RecordMapProofs, RankFusionProofs

-----------------------------------------------------------------------------
(* Results of ordvec                                                       *)

\* r holds k of the slots G, each once and with its score, best first, and no
\* slot left out has a better score.
Ranked(q, r, G, k) ==
  /\ r \in [1..k -> [slot : G, score : Int]]
  /\ \A i \in 1..k : r[i].score = RankScore[q][rows.at[r[i].slot]]
  /\ \A i, j \in 1..k : r[i].slot = r[j].slot => i = j
  /\ \A i, j \in 1..k : i < j => r[i].score >= r[j].score
  /\ \A s \in G : (\A i \in 1..k : r[i].slot # s) =>
       \A i \in 1..k : RankScore[q][rows.at[s]] <= r[i].score

\* The score of a row is an integer.
LEMMA ScoreType ==
  ASSUME TypeOK, NEW q \in Queries, NEW s \in Slots(rows.len)
  PROVE  RankScore[q][rows.at[s]] \in Int
BY SearchScores DEF TypeOK, IsVec

\* Whatever choice ordvec makes between equal scores, a list of distinct
\* candidates of which at most all are asked for is ranked without padding.
LEMMA SubsetIsRanked ==
  ASSUME TypeOK, NEW q \in Queries, NEW m \in Nat, NEW G \in SUBSET Slots(rows.len),
         NEW c \in [1..m -> G], \A s \in G : \E x \in 1..m : c[x] = s,
         \A x, y \in 1..m : c[x] = c[y] => x = y,
         NEW k \in Nat, k <= m, NEW r \in RankSubset(q, c, k)
  PROVE  Ranked(q, r, G, k)
<1> DEFINE score == [x \in 1..m |-> RankScore[q][rows.at[c[x]]]]
<1>1. DOMAIN c = 1..m /\ Len(c) = m
  BY LenOfFunction
<1>2. Min({k, m}) = k
  BY MinOfTwo
<1> DEFINE asked(c0, n0, D, sc) ==
             {[i \in 1..k |-> IF i <= n0 THEN [slot |-> c0[w[i]], score |-> sc[w[i]]]
                              ELSE Padding] : w \in Rankings(D, n0, sc)}
<1>3. PICK p \in Rankings(1..m, k, score) :
        r = [i \in 1..k |-> IF i <= k THEN [slot |-> c[p[i]], score |-> score[p[i]]]
                            ELSE Padding]
  <2>1. score = [x \in DOMAIN c |-> RankScore[q][rows.at[c[x]]]]
    BY <1>1
  <2>2. r \in asked(c, Min({k, Len(c)}), DOMAIN c,
                    [x \in DOMAIN c |-> RankScore[q][rows.at[c[x]]]])
    BY Zenon DEF RankSubset
  <2> HIDE DEF asked
  <2>3. r \in asked(c, k, 1..m, score)
    BY <2>1, <2>2, <1>1, <1>2, Zenon
  <2> HIDE DEF score
  <2> QED BY <2>3 DEF asked
<1>4. /\ p \in [1..k -> 1..m]
      /\ \A i, j \in 1..k : i < j => p[i] # p[j] /\ score[p[i]] >= score[p[j]]
      /\ \A x \in (1..m) \ Range(p) : \A i \in 1..k : score[x] <= score[p[i]]
  BY <1>3 DEF Rankings
<1>5. \A i \in 1..k : /\ r[i] = [slot |-> c[p[i]], score |-> score[p[i]]]
                      /\ p[i] \in 1..m /\ c[p[i]] \in G
                      /\ score[p[i]] = RankScore[q][rows.at[c[p[i]]]]
                      /\ score[p[i]] \in Int
  <2>1. \A i \in 1..k : i <= k /\ p[i] \in 1..m /\ c[p[i]] \in G
    <3>1. p \in [1..k -> 1..m]
      BY <1>4
    <3> HIDE DEF score
    <3> QED BY <3>1
  <2>2. \A x \in 1..m : score[x] = RankScore[q][rows.at[c[x]]] /\ c[x] \in Slots(rows.len)
    OBVIOUS
  <2>3. \A x \in 1..m : score[x] \in Int
    BY <2>2, ScoreType
  <2> HIDE DEF score
  <2> QED BY <1>3, <2>1, <2>2, <2>3
<1> HIDE DEF score
<1>6. \A i \in 1..k : r[i].slot = c[p[i]] /\ r[i].score = score[p[i]]
  <2> SUFFICES ASSUME NEW i \in 1..k
               PROVE  r[i].slot = c[p[i]] /\ r[i].score = score[p[i]]
    OBVIOUS
  <2>1. r[i] = [slot |-> c[p[i]], score |-> score[p[i]]]
    BY <1>5
  <2> QED BY <2>1
<1>7. r \in [1..k -> [slot : G, score : Int]]
  BY <1>3, <1>5
<1>8. \A i, j \in 1..k : r[i].slot = r[j].slot => i = j
  <2> SUFFICES ASSUME NEW i \in 1..k, NEW j \in 1..k, r[i].slot = r[j].slot
               PROVE  i = j
    OBVIOUS
  <2>1. c[p[i]] = c[p[j]] /\ p[i] \in 1..m /\ p[j] \in 1..m
    BY <1>5, <1>6
  <2>1a. p[i] = p[j]
    BY <2>1
  <2>2. ~(i < j) /\ ~(j < i)
    BY <2>1a, <1>4
  <2> QED BY <2>2
<1>9. \A s \in G : (\A i \in 1..k : r[i].slot # s) =>
        \A i \in 1..k : RankScore[q][rows.at[s]] <= r[i].score
  <2> SUFFICES ASSUME NEW s \in G, \A i \in 1..k : r[i].slot # s, NEW i \in 1..k
               PROVE  RankScore[q][rows.at[s]] <= r[i].score
    OBVIOUS
  <2>1. PICK x \in 1..m : c[x] = s
    OBVIOUS
  <2>2. x \notin Range(p)
    BY <2>1, <1>4, <1>6 DEF Range
  <2>3. score[x] = RankScore[q][rows.at[s]]
    BY <2>1 DEF score
  <2> QED BY <2>2, <2>3, <1>4, <1>6
<1>10. \A i, j \in 1..k : i < j => r[i].score >= r[j].score
  BY <1>4, <1>6
<1>11. \A i \in 1..k : r[i].score = RankScore[q][rows.at[r[i].slot]]
  <2> SUFFICES ASSUME NEW i \in 1..k
               PROVE  r[i].score = RankScore[q][rows.at[r[i].slot]]
    OBVIOUS
  <2>1. r[i].slot = c[p[i]] /\ r[i].score = score[p[i]]
    BY <1>6
  <2>2. score[p[i]] = RankScore[q][rows.at[c[p[i]]]]
    BY <1>5
  <2> QED BY <2>1, <2>2
<1> QED BY <1>7, <1>8, <1>9, <1>10, <1>11 DEF Ranked

\* The same for the candidates of a set of slots
LEMMA SlotsAreRanked ==
  ASSUME TypeOK, NEW q \in Queries, NEW G \in SUBSET Slots(rows.len),
         NEW k \in Nat, k <= Cardinality(G), NEW r \in RankSubset(q, InOrder(G), k)
  PROVE  Ranked(q, r, G, k)
<1>1. IsFiniteSet(Slots(rows.len)) /\ Slots(rows.len) \subseteq Int
  <2>1. rows.len - 1 \in Int
    BY DEF TypeOK, IsVec
  <2> QED BY <2>1, FS_Interval DEF Slots
<1>2. IsFiniteSet(G) /\ G \subseteq Int
  BY <1>1, FS_Subset
<1>3. /\ Cardinality(G) \in Nat /\ InOrder(G) \in [1..Cardinality(G) -> G]
      /\ \A s \in G : \E x \in 1..Cardinality(G) : InOrder(G)[x] = s
      /\ \A x, y \in 1..Cardinality(G) : x < y => InOrder(G)[x] < InOrder(G)[y]
  BY <1>2, InOrderLists
<1>4. \A x, y \in 1..Cardinality(G) : InOrder(G)[x] = InOrder(G)[y] => x = y
  <2> SUFFICES ASSUME NEW x \in 1..Cardinality(G), NEW y \in 1..Cardinality(G),
                      InOrder(G)[x] = InOrder(G)[y]
               PROVE  x = y
    OBVIOUS
  <2>1. InOrder(G)[x] \in Int
    BY <1>2, <1>3
  <2>2. ~(x < y) /\ ~(y < x)
    BY <2>1, <1>3
  <2> QED BY <2>2, <1>3
<1> QED BY <1>3, <1>4, SubsetIsRanked

-----------------------------------------------------------------------------
(* Results by ID                                                           *)

\* The slots of the IDs T
SlotsOfIds(T) == {id_to_slot[id] : id \in T}

\* h holds k of the live IDs T, each once and with the score of the vector it
\* has now, best first, and no ID left out has a better score.
RankedIds(q, h, T, k) ==
  /\ h \in [1..k -> [row_id : T, score : Int]]
  /\ \A i \in 1..k : h[i].score = ScoreOfId(q, h[i].row_id)
  /\ \A i, j \in 1..k : h[i].row_id = h[j].row_id => i = j
  /\ \A i, j \in 1..k : i < j => h[i].score >= h[j].score
  /\ \A id \in T : (\A i \in 1..k : h[i].row_id # id) =>
       \A i \in 1..k : ScoreOfId(q, id) <= h[i].score

\* The tables are inverse to each other on live IDs and slots.
LEMMA LiveFacts ==
  ASSUME IInv
  PROVE  /\ \A id \in LiveIds : /\ id \in Ids /\ id_to_slot[id] \in Slots(rows.len)
                                /\ slot_to_id.at[id_to_slot[id]] = id
         /\ \A s \in Slots(rows.len) : /\ slot_to_id.at[s] \in LiveIds
                                       /\ id_to_slot[slot_to_id.at[s]] = s
<1>1. TypeOK /\ TablesAgree
  BY DEF IInv
<1>2. \A s \in Slots(rows.len) : slot_to_id.at[s] \in Ids /\ id_to_slot[slot_to_id.at[s]] = s
  BY <1>1 DEF TypeOK, TablesAgree, IsVec
<1>3. \A s \in Slots(rows.len) : s # NoSlot
  BY <1>1 DEF Slots, NoSlot
<1>4. \A s \in Slots(rows.len) : slot_to_id.at[s] \in LiveIds
  BY <1>2, <1>3 DEF LiveIds
<1>5. \A id \in LiveIds : /\ id \in Ids /\ id_to_slot[id] \in Slots(rows.len)
                          /\ slot_to_id.at[id_to_slot[id]] = id
  BY <1>1 DEF LiveIds, TablesAgree
<1> QED BY <1>2, <1>4, <1>5

\* A set of live IDs is finite and has as many members as slots.
LEMMA IdsAndSlots ==
  ASSUME IInv, NEW T \in SUBSET LiveIds
  PROVE  /\ SlotsOfIds(T) \in SUBSET Slots(rows.len)
         /\ IsFiniteSet(T) /\ Cardinality(T) \in Nat
         /\ Cardinality(SlotsOfIds(T)) = Cardinality(T)
<1> DEFINE G == SlotsOfIds(T)
           idAt == [s \in G |-> slot_to_id.at[s]]
<1>1. G \in SUBSET Slots(rows.len)
  BY LiveFacts DEF SlotsOfIds
<1>2. IsFiniteSet(Slots(rows.len))
  <2>1. rows.len - 1 \in Int
    BY DEF IInv, TypeOK, IsVec
  <2> QED BY <2>1, FS_Interval DEF Slots
<1>3. IsFiniteSet(G)
  BY <1>1, <1>2, FS_Subset
<1>4. \A s \in G : \E id \in T : s = id_to_slot[id] /\ slot_to_id.at[s] = id
  <2> SUFFICES ASSUME NEW s \in G
               PROVE  \E id \in T : s = id_to_slot[id] /\ slot_to_id.at[s] = id
    OBVIOUS
  <2>1. PICK id \in T : s = id_to_slot[id]
    BY DEF SlotsOfIds
  <2>2. slot_to_id.at[id_to_slot[id]] = id
    BY LiveFacts
  <2> QED BY <2>1, <2>2
<1>5. \A id \in T : id_to_slot[id] \in G /\ idAt[id_to_slot[id]] = id
  BY LiveFacts DEF SlotsOfIds
<1>6. idAt \in [G -> T] /\ \A s, t \in G : idAt[s] = idAt[t] => s = t
  <2> HIDE DEF G
  <2> QED BY <1>4
<1>7. idAt \in Bijection(G, T)
  <2>1. idAt \in Injection(G, T)
    <3> HIDE DEF idAt, G
    <3> QED BY <1>6 DEF Injection, IsInjective
  <2>2. idAt \in Surjection(G, T)
    <3> HIDE DEF idAt, G
    <3> QED BY <1>5, <1>6 DEF Surjection
  <2> QED BY <2>1, <2>2 DEF Bijection
<1>8. ExistsBijection(G, T)
  BY <1>7 DEF ExistsBijection
<1>9. IsFiniteSet(T) /\ Cardinality(T) = Cardinality(G)
  BY <1>3, <1>8, FS_Bijection
<1> QED BY <1>1, <1>9, FS_CardinalityType

\* ScoresIds of cells that are all filled
LEMMA FilledCells ==
  ASSUME NEW k \in Nat, NEW r \in [1..k -> [slot : Nat, score : Int]]
  PROVE  \E o \in [1..k -> 1..k] :
           /\ \A i \in 1..k : \E j \in 1..k : o[j] = i
           /\ \A i, j \in 1..k : i < j => o[i] < o[j]
           /\ ScoresIds(r) = [i \in 1..k |-> [row_id |-> slot_to_id.at[r[o[i]].slot],
                                             score |-> r[o[i]].score]]
<1> DEFINE o == InOrder(1..k)
<1>1. {i \in DOMAIN r : r[i].slot >= 0} = 1..k
  OBVIOUS
<1>2. IsFiniteSet(1..k) /\ Cardinality(1..k) = k /\ 1..k \subseteq Int
  BY FS_Interval
<1>3. /\ o \in [1..k -> 1..k]
      /\ \A i \in 1..k : \E j \in 1..k : o[j] = i
      /\ \A i, j \in 1..k : i < j => o[i] < o[j]
  BY <1>2, InOrderLists
<1>4. DOMAIN o = 1..k
  BY <1>3
<1> HIDE DEF o
<1>5. ScoresIds(r) = [i \in DOMAIN o |-> [row_id |-> slot_to_id.at[r[o[i]].slot],
                                         score |-> r[o[i]].score]]
  BY <1>1 DEF ScoresIds, o
<1> QED BY <1>3, <1>4, <1>5

LEMMA RankedGivesIds ==
  ASSUME IInv, NEW q \in Queries, NEW T \in SUBSET LiveIds, NEW k \in Nat,
         NEW r, Ranked(q, r, SlotsOfIds(T), k)
  PROVE  RankedIds(q, ScoresIds(r), T, k)
<1> DEFINE h == ScoresIds(r)
           G == SlotsOfIds(T)
<1>1. /\ r \in [1..k -> [slot : G, score : Int]]
      /\ \A i \in 1..k : r[i].score = RankScore[q][rows.at[r[i].slot]]
      /\ \A i, j \in 1..k : r[i].slot = r[j].slot => i = j
      /\ \A i, j \in 1..k : i < j => r[i].score >= r[j].score
      /\ \A s \in G : (\A i \in 1..k : r[i].slot # s) =>
           \A i \in 1..k : RankScore[q][rows.at[s]] <= r[i].score
  BY DEF Ranked
<1>2. G \in SUBSET Slots(rows.len) /\ G \subseteq Nat
  BY IdsAndSlots DEF Slots
<1>3. \A s \in G : /\ slot_to_id.at[s] \in T /\ id_to_slot[slot_to_id.at[s]] = s
                   /\ ScoreOfId(q, slot_to_id.at[s]) = RankScore[q][rows.at[s]]
  <2> SUFFICES ASSUME NEW s \in G
               PROVE  /\ slot_to_id.at[s] \in T /\ id_to_slot[slot_to_id.at[s]] = s
                      /\ ScoreOfId(q, slot_to_id.at[s]) = RankScore[q][rows.at[s]]
    OBVIOUS
  <2>1. PICK id \in T : s = id_to_slot[id]
    BY DEF SlotsOfIds
  <2>2. slot_to_id.at[s] = id /\ id_to_slot[slot_to_id.at[s]] = s
    BY <2>1, LiveFacts
  <2> QED BY <2>1, <2>2 DEF ScoreOfId
<1>4. \A id \in T : id_to_slot[id] \in G /\ slot_to_id.at[id_to_slot[id]] = id
  BY LiveFacts DEF SlotsOfIds
<1> HIDE DEF G
<1>5. r \in [1..k -> [slot : Nat, score : Int]]
  BY <1>1, <1>2
<1>6. PICK o \in [1..k -> 1..k] :
           /\ \A i \in 1..k : \E j \in 1..k : o[j] = i
           /\ \A i, j \in 1..k : i < j => o[i] < o[j]
           /\ h = [i \in 1..k |-> [row_id |-> slot_to_id.at[r[o[i]].slot],
                                  score |-> r[o[i]].score]]
  BY <1>5, FilledCells
<1> HIDE DEF h
<1>7. \A i \in 1..k : /\ o[i] \in 1..k /\ r[o[i]].slot \in G /\ r[o[i]].score \in Int
                      /\ h[i].row_id = slot_to_id.at[r[o[i]].slot]
                      /\ h[i].score = r[o[i]].score
                      /\ h[i].row_id \in T
                      /\ h[i].score = ScoreOfId(q, h[i].row_id)
                      /\ id_to_slot[h[i].row_id] = r[o[i]].slot
  <2> SUFFICES ASSUME NEW i \in 1..k
               PROVE  /\ o[i] \in 1..k /\ r[o[i]].slot \in G /\ r[o[i]].score \in Int
                      /\ h[i].row_id = slot_to_id.at[r[o[i]].slot]
                      /\ h[i].score = r[o[i]].score
                      /\ h[i].row_id \in T
                      /\ h[i].score = ScoreOfId(q, h[i].row_id)
                      /\ id_to_slot[h[i].row_id] = r[o[i]].slot
    OBVIOUS
  <2>1. o[i] \in 1..k /\ r[o[i]].slot \in G /\ r[o[i]].score \in Int
    BY <1>1
  <2>2. h[i].row_id = slot_to_id.at[r[o[i]].slot] /\ h[i].score = r[o[i]].score
    BY <1>6
  <2> DEFINE s == r[o[i]].slot
  <2>3. slot_to_id.at[s] \in T /\ id_to_slot[slot_to_id.at[s]] = s
        /\ ScoreOfId(q, slot_to_id.at[s]) = RankScore[q][rows.at[s]]
    BY <2>1, <1>3
  <2>4. r[o[i]].score = RankScore[q][rows.at[s]]
    BY <2>1, <1>1
  <2> QED BY <2>1, <2>2, <2>3, <2>4
<1>8. h \in [1..k -> [row_id : T, score : Int]]
  BY <1>6, <1>7
<1>9. \A i, j \in 1..k : h[i].row_id = h[j].row_id => i = j
  <2> SUFFICES ASSUME NEW i \in 1..k, NEW j \in 1..k, h[i].row_id = h[j].row_id
               PROVE  i = j
    OBVIOUS
  <2>1. /\ r[o[i]].slot = id_to_slot[h[i].row_id] /\ o[i] \in 1..k
        /\ r[o[j]].slot = id_to_slot[h[j].row_id] /\ o[j] \in 1..k
    BY <1>7
  <2>2. r[o[i]].slot = r[o[j]].slot
    BY <2>1
  <2>3. \A x, y \in 1..k : r[x].slot = r[y].slot => x = y
    BY <1>1
  <2>4. o[i] = o[j]
    BY <2>1, <2>2, <2>3
  <2>5. \A x, y \in 1..k : x < y => o[x] < o[y]
    BY <1>6
  <2>6. ~(i < j) /\ ~(j < i)
    BY <2>1, <2>4, <2>5
  <2> QED BY <2>6
<1>10. \A i, j \in 1..k : i < j => h[i].score >= h[j].score
  <2> SUFFICES ASSUME NEW i \in 1..k, NEW j \in 1..k, i < j
               PROVE  h[i].score >= h[j].score
    OBVIOUS
  <2>1. o[i] < o[j]
    BY <1>6
  <2>2. r[o[i]].score >= r[o[j]].score
    BY <2>1, <1>1, <1>7
  <2> QED BY <2>2, <1>7
<1>11. \A id \in T : (\A i \in 1..k : h[i].row_id # id) =>
         \A i \in 1..k : ScoreOfId(q, id) <= h[i].score
  <2> SUFFICES ASSUME NEW id \in T, \A i \in 1..k : h[i].row_id # id, NEW i \in 1..k
               PROVE  ScoreOfId(q, id) <= h[i].score
    OBVIOUS
  <2>1. \A j \in 1..k : r[j].slot # id_to_slot[id]
    <3> SUFFICES ASSUME NEW j \in 1..k, r[j].slot = id_to_slot[id] PROVE FALSE
      OBVIOUS
    <3>1. PICK x \in 1..k : o[x] = j
      BY <1>6
    <3>2. h[x].row_id = id
      BY <3>1, <1>4, <1>7
    <3> QED BY <3>2
  <2>2. RankScore[q][rows.at[id_to_slot[id]]] <= r[o[i]].score
    BY <2>1, <1>1, <1>4, <1>7
  <2> QED BY <2>2, <1>7 DEF ScoreOfId
<1>12. \A i \in 1..k : h[i].score = ScoreOfId(q, h[i].row_id)
  BY <1>7
<1>13. RankedIds(q, h, T, k)
  BY <1>8, <1>9, <1>10, <1>11, <1>12 DEF RankedIds
<1> QED BY <1>13 DEF h

\* Hits ranked to the shorter of n and T are what AreBest asks for.
LEMMA RankedIsBest ==
  ASSUME IInv, NEW q \in Queries, NEW T \in SUBSET LiveIds, NEW n \in Nat, NEW k \in Nat,
         k = IF n <= Cardinality(T) THEN n ELSE Cardinality(T),
         NEW h, RankedIds(q, h, T, k)
  PROVE  AreBest(q, h, T, n)
<1> DEFINE returned == {h[i].row_id : i \in DOMAIN h}
           idOf == [i \in 1..k |-> h[i].row_id]
<1>1. /\ h \in [1..k -> [row_id : T, score : Int]]
      /\ \A i \in 1..k : h[i].score = ScoreOfId(q, h[i].row_id)
      /\ \A i, j \in 1..k : h[i].row_id = h[j].row_id => i = j
      /\ \A i, j \in 1..k : i < j => h[i].score >= h[j].score
      /\ \A id \in T : (\A i \in 1..k : h[i].row_id # id) =>
           \A i \in 1..k : ScoreOfId(q, id) <= h[i].score
  BY DEF RankedIds
<1>2. DOMAIN h = 1..k /\ Len(h) = k
  BY <1>1, LenOfFunction
<1>3. Cardinality(T) \in Nat /\ Min({n, Cardinality(T)}) = k
  BY IdsAndSlots, MinOfTwo
<1>4. returned \subseteq T
  BY <1>1
<1>5. Cardinality(returned) = k
  <2>1. idOf \in [1..k -> returned] /\ \A t \in returned : \E i \in 1..k : idOf[i] = t
    BY <1>2
  <2>2. \A i, j \in 1..k : idOf[i] = idOf[j] => i = j
    BY <1>1
  <2> HIDE DEF idOf, returned
  <2>3. idOf \in Bijection(1..k, returned)
    BY <2>1, <2>2 DEF Bijection, Injection, IsInjective, Surjection
  <2>4. ExistsBijection(1..k, returned)
    BY <2>3 DEF ExistsBijection
  <2> QED BY <2>4, FS_CountingElements
<1>6. \A i \in 2..Len(h) : h[i - 1].score >= h[i].score
  <2> SUFFICES ASSUME NEW i \in 2..k PROVE h[i - 1].score >= h[i].score
    BY <1>2
  <2>1. i \in 1..k /\ i - 1 \in 1..k /\ i - 1 < i
    OBVIOUS
  <2> QED BY <2>1, <1>1
<1>7. \A id \in T \ returned : \A i \in DOMAIN h : ScoreOfId(q, id) <= h[i].score
  BY <1>1, <1>2
<1> HIDE DEF returned
<1>8. Len(h) = Min({n, Cardinality(T)}) /\ Cardinality(returned) = Len(h)
  BY <1>2, <1>3, <1>5
<1>9. \A i \in DOMAIN h : h[i].score = ScoreOfId(q, h[i].row_id)
  BY <1>1, <1>2
<1> QED BY <1>4, <1>6, <1>7, <1>8, <1>9 DEF AreBest, returned

-----------------------------------------------------------------------------
(* Searches of a set of rows                                               *)

\* A hit list is not the value of a failed search.
LEMMA HitsAreNoError ==
  ASSUME NEW k \in 0..MaxK, NEW G \in SUBSET Int, NEW T \in SUBSET Ids
  PROVE  /\ \A r \in [1..k -> [slot : G, score : Int]] : r # Err
         /\ \A h \in [1..k -> [row_id : T, score : Int]] : h # Err
<1>1. \A r \in [1..k -> [slot : G, score : Int]] :
        r \in [1..k -> [slot : Int, score : Int \cup {NonFinite}]]
  OBVIOUS
<1>2. \A h \in [1..k -> [row_id : T, score : Int]] :
        h \in [1..k -> [row_id : Int, score : Int]]
  BY SearchRows
<1> QED BY <1>1, <1>2, SearchErr

\* The ranked cells of n or fewer rows, once more as what the IDs T are owed
LEMMA RankedAnswers ==
  ASSUME IInv, NEW q \in Queries, NEW T \in SUBSET LiveIds, NEW n \in 0..MaxK, NEW k \in Nat,
         k = IF n <= Cardinality(T) THEN n ELSE Cardinality(T),
         NEW r, Ranked(q, r, SlotsOfIds(T), k)
  PROVE  /\ r # Err /\ ScoresIds(r) # Err
         /\ AreBest(q, ScoresIds(r), T, n)
<1>1. RankedIds(q, ScoresIds(r), T, k)
  BY RankedGivesIds
<1>2. n \in Nat /\ Cardinality(T) \in Nat /\ k \in 0..MaxK
  BY SearchBounds, IdsAndSlots
<1>3. AreBest(q, ScoresIds(r), T, n)
  BY <1>1, <1>2, RankedIsBest
<1>4. T \in SUBSET Ids /\ SlotsOfIds(T) \in SUBSET Int
  BY IdsAndSlots DEF LiveIds, Slots
<1>5. r # Err /\ ScoresIds(r) # Err
  <2>1. ScoresIds(r) \in [1..k -> [row_id : T, score : Int]]
    BY <1>1 DEF RankedIds
  <2>2. r \in [1..k -> [slot : SlotsOfIds(T), score : Int]]
    BY DEF Ranked
  <2> QED BY <1>2, <1>4, <2>1, <2>2, HitsAreNoError
<1> QED BY <1>3, <1>5

\* A lazy index has no live IDs, so the empty result is the right one.
LEMMA LazyAnswers ==
  ASSUME IInv, dim = Lazy, NEW q \in Queries, NEW T \in SUBSET LiveIds, NEW n \in 0..MaxK
  PROVE  <<>> # Err /\ ScoresIds(<<>>) # Err /\ AreBest(q, ScoresIds(<<>>), T, n)
<1>1. Slots(rows.len) = {}
  BY DEF IInv, SidecarAligned, Slots
<1>2. T = {} /\ SlotsOfIds(T) = {}
  BY <1>1, LiveFacts DEF SlotsOfIds
<1>3. Cardinality(T) = 0
  BY <1>2, FS_EmptySet
<1>4. Ranked(q, <<>>, SlotsOfIds(T), 0)
  BY <1>2 DEF Ranked
<1>5. n \in Nat
  OBVIOUS
<1>6. 0 = IF n <= Cardinality(T) THEN n ELSE Cardinality(T)
  BY <1>3, <1>5
<1> QED BY <1>4, <1>6, RankedAnswers

\* A search restricted to the rows of the live IDs T
LEMMA CandidatesRanked ==
  ASSUME IInv, NEW q \in Queries, NEW T \in SUBSET LiveIds, NEW n \in 0..MaxK,
         NEW r \in SearchWithCandidates(q, n, InOrder(SlotsOfIds(T))),
         NEW k, k = IF n <= Cardinality(T) THEN n ELSE Cardinality(T)
  PROVE  k \in Nat /\ Ranked(q, r, SlotsOfIds(T), k)
<1> DEFINE G == SlotsOfIds(T)
           c == InOrder(G)
<1>1. /\ G \in SUBSET Slots(rows.len) /\ Cardinality(G) = Cardinality(T)
      /\ Cardinality(T) \in Nat
  BY IdsAndSlots
<1>2. IsFiniteSet(G) /\ G \subseteq Int
  <2>1. rows.len - 1 \in Int
    BY DEF IInv, TypeOK, IsVec
  <2>2. IsFiniteSet(Slots(rows.len)) /\ Slots(rows.len) \subseteq Int
    <3>1. IsFiniteSet(0..(rows.len - 1))
      BY <2>1, FS_Interval
    <3> QED BY <3>1 DEF Slots
  <2> HIDE DEF G
  <2> QED BY <1>1, <2>2, FS_Subset
<1>3. c \in [1..Cardinality(G) -> G] /\ Cardinality(G) \in Nat
  BY <1>2, InOrderLists
<1>4. Len(c) = Cardinality(G) /\ DOMAIN c = 1..Cardinality(G)
  BY <1>3, LenOfFunction
<1>5. k = Min({n, Len(c)}) /\ k \in Nat /\ k <= Cardinality(G)
  BY <1>1, <1>4, MinOfTwo
<1>6. CASE dim = Lazy
  <2>1. r = <<>>
    BY <1>6 DEF SearchWithCandidates
  <2>2. Slots(rows.len) = {}
    BY <1>6 DEF IInv, SidecarAligned, Slots
  <2>3. T = {} /\ G = {}
    BY <2>2, LiveFacts DEF SlotsOfIds
  <2>4. k = 0
    BY <1>1, <2>3, FS_EmptySet
  <2>5. Ranked(q, <<>>, G, 0)
    BY <2>3 DEF Ranked
  <2> QED BY <2>1, <2>4, <2>5
<1>7. CASE dim # Lazy
  <2>1. ~\E i \in DOMAIN c : c[i] \notin Slots(rows.len)
    <3> HIDE DEF c, G
    <3> QED BY <1>1, <1>3, <1>4
  <2>2. r \in RankSubset(q, c, k)
    BY <1>5, <1>7, <2>1 DEF SearchWithCandidates
  <2>3. TypeOK
    BY DEF IInv
  <2>4. Ranked(q, r, G, k)
    BY <2>2, <2>3, <1>1, <1>5, SlotsAreRanked
  <2> QED BY <2>4, <1>5
<1> QED BY <1>6, <1>7

LEMMA CandidatesAnswer ==
  ASSUME IInv, NEW q \in Queries, NEW T \in SUBSET LiveIds, NEW n \in 0..MaxK,
         NEW r \in SearchWithCandidates(q, n, InOrder(SlotsOfIds(T)))
  PROVE  r # Err /\ ScoresIds(r) # Err /\ AreBest(q, ScoresIds(r), T, n)
<1> DEFINE k == IF n <= Cardinality(T) THEN n ELSE Cardinality(T)
<1>1. k \in Nat /\ Ranked(q, r, SlotsOfIds(T), k)
  BY CandidatesRanked
<1>2. k = IF n <= Cardinality(T) THEN n ELSE Cardinality(T)
  OBVIOUS
<1> HIDE DEF k
<1> QED BY <1>1, <1>2, RankedAnswers

LEMMA AllowlistAnswers ==
  ASSUME IInv, RowsBounded
  PROVE  AllowlistIsFilter
<1> SUFFICES ASSUME NEW q \in Queries, NEW k \in 0..MaxK, NEW n \in 0..MaxAllowed,
                    NEW ids \in [1..n -> Ids]
             PROVE  LET slots == [i \in 1..n |-> id_to_slot[ids[i]]] IN
                    IF ~(Range(ids) \subseteq LiveIds) THEN AllowlistResults(q, k, ids) = {Err}
                    ELSE \A hits \in SearchIds(AllowlistResults(q, k, ids)
                                \cup SlotAllowlistResults(q, k, slots)
                                \cup SearchWithMask(q, k, Range(slots))) :
                           hits # Err /\ AreBest(q, hits, Range(ids), k)
  BY DEF AllowlistIsFilter
<1> DEFINE slots == [i \in 1..n |-> id_to_slot[ids[i]]]
           T == Range(ids)
<1>1. CASE ~(T \subseteq LiveIds)
  <2>1. AllowlistMissing(ids)
    BY <1>1 DEF AllowlistMissing, LiveIds, Range
  <2> QED BY <2>1, <1>1 DEF AllowlistResults
<1>2. CASE T \subseteq LiveIds
  <2>1. ~AllowlistMissing(ids)
    BY <1>2 DEF AllowlistMissing, LiveIds, Range
  <2>2. {id_to_slot[ids[i]] : i \in DOMAIN ids} = SlotsOfIds(T)
    BY DEF SlotsOfIds, Range
  <2>3. Range(slots) = SlotsOfIds(T)
    BY DEF SlotsOfIds, Range
  <2>4. AllowlistResults(q, k, ids) = SearchWithCandidates(q, k, InOrder(SlotsOfIds(T)))
    BY <2>1, <2>2 DEF AllowlistResults, CandidateSlots
  <2>5. SlotAllowlistResults(q, k, slots) = SearchWithCandidates(q, k, InOrder(SlotsOfIds(T)))
    BY <2>3 DEF SlotAllowlistResults
  <2>6. Range(slots) # None
    <3>1. SlotsOfIds(T) \in SUBSET Slots(rows.len)
      BY <1>2, IdsAndSlots
    <3>2. Slots(rows.len) \in SUBSET Slots(MaxRows)
      BY IdMapBounds DEF RowsBounded, Slots
    <3> QED BY <2>3, <3>1, <3>2, SearchNone
  <2>7. SearchWithMask(q, k, Range(slots)) = SearchWithCandidates(q, k, InOrder(SlotsOfIds(T)))
    BY <2>3, <2>6 DEF SearchWithMask
  <2> HIDE DEF slots, T
  <2>8. ASSUME NEW hits \in SearchIds(SearchWithCandidates(q, k, InOrder(SlotsOfIds(T))))
        PROVE  hits # Err /\ AreBest(q, hits, T, k)
    <3>1. PICK r \in SearchWithCandidates(q, k, InOrder(SlotsOfIds(T))) :
            hits = IF r = Err THEN Err ELSE ScoresIds(r)
      BY <2>8 DEF SearchIds
    <3>2. r # Err /\ ScoresIds(r) # Err /\ AreBest(q, ScoresIds(r), T, k)
      BY <1>2, CandidatesAnswer
    <3> QED BY <3>1, <3>2
  <2>9. AllowlistResults(q, k, ids) \cup SlotAllowlistResults(q, k, slots)
          \cup SearchWithMask(q, k, Range(slots))
        = SearchWithCandidates(q, k, InOrder(SlotsOfIds(T)))
    BY <2>4, <2>5, <2>7
  <2>10. \A hits \in SearchIds(AllowlistResults(q, k, ids)
                                \cup SlotAllowlistResults(q, k, slots)
                                \cup SearchWithMask(q, k, Range(slots))) :
           hits # Err /\ AreBest(q, hits, T, k)
    BY <2>8, <2>9
  <2> QED BY <2>10, <1>2 DEF slots, T
<1> QED BY <1>1, <1>2

-----------------------------------------------------------------------------
(* Batches                                                                 *)

\* Hits put into another order with descending scores are ranked as before.
LEMMA ReorderedIds ==
  ASSUME NEW q, NEW T, NEW k \in Nat, NEW h, RankedIds(q, h, T, k),
         NEW s \in [1..k -> [row_id : T, score : Int]],
         \A i \in 1..k : \E j \in 1..k : s[i] = h[j],
         \A i \in 1..k : \E j \in 1..k : s[j] = h[i],
         \A i, j \in 1..k : s[i].row_id = s[j].row_id => i = j,
         \A i, j \in 1..k : i < j => s[i].score >= s[j].score
  PROVE  RankedIds(q, s, T, k)
<1>1. /\ \A i \in 1..k : h[i].score = ScoreOfId(q, h[i].row_id)
      /\ \A id \in T : (\A i \in 1..k : h[i].row_id # id) =>
           \A i \in 1..k : ScoreOfId(q, id) <= h[i].score
  BY DEF RankedIds
<1>2. \A i \in 1..k : s[i].score = ScoreOfId(q, s[i].row_id)
  <2> SUFFICES ASSUME NEW i \in 1..k PROVE s[i].score = ScoreOfId(q, s[i].row_id)
    OBVIOUS
  <2>1. PICK j \in 1..k : s[i] = h[j]
    OBVIOUS
  <2> QED BY <2>1, <1>1
<1>3. \A id \in T : (\A i \in 1..k : s[i].row_id # id) =>
        \A i \in 1..k : ScoreOfId(q, id) <= s[i].score
  <2> SUFFICES ASSUME NEW id \in T, \A i \in 1..k : s[i].row_id # id, NEW i \in 1..k
               PROVE  ScoreOfId(q, id) <= s[i].score
    OBVIOUS
  <2>1. \A j \in 1..k : h[j].row_id # id
    <3> SUFFICES ASSUME NEW j \in 1..k, h[j].row_id = id PROVE FALSE
      OBVIOUS
    <3>1. PICK x \in 1..k : s[x] = h[j]
      OBVIOUS
    <3> QED BY <3>1
  <2>2. PICK j \in 1..k : s[i] = h[j]
    OBVIOUS
  <2>3. ScoreOfId(q, id) <= h[j].score
    BY <2>1, <1>1
  <2> QED BY <2>2, <2>3
<1> QED BY <1>2, <1>3 DEF RankedIds

\* Rank order puts the better scores first and lists no row twice.
LEMMA RankOrderDescends ==
  ASSUME NEW k \in Nat, NEW ids \in SUBSET Int,
         NEW s \in [1..k -> [row_id : ids, score : Int]],
         \A i, j \in 1..k : i < j => RanksBefore(s[i], s[j])
  PROVE  /\ \A i, j \in 1..k : i < j => s[i].score >= s[j].score
         /\ \A i, j \in 1..k : s[i] = s[j] => i = j
<1>1. \A i, j \in 1..k : i < j => s[i].score >= s[j].score
  <2> SUFFICES ASSUME NEW i \in 1..k, NEW j \in 1..k, i < j
               PROVE  s[i].score >= s[j].score
    OBVIOUS
  <2>1. RanksBefore(s[i], s[j]) /\ s[i].score \in Int /\ s[j].score \in Int
    OBVIOUS
  <2> QED BY <2>1 DEF RanksBefore
<1>2. \A i \in 1..k : ~RanksBefore(s[i], s[i])
  <2> SUFFICES ASSUME NEW i \in 1..k PROVE ~RanksBefore(s[i], s[i])
    OBVIOUS
  <2>1. s[i].score \in Int /\ s[i].row_id \in Int
    OBVIOUS
  <2> QED BY <2>1 DEF RanksBefore
<1>3. \A i, j \in 1..k : s[i] = s[j] => i = j
  <2> SUFFICES ASSUME NEW i \in 1..k, NEW j \in 1..k, s[i] = s[j] PROVE i = j
    OBVIOUS
  <2>1. ~(i < j) /\ ~(j < i)
    BY <1>2
  <2> QED BY <2>1
<1> QED BY <1>1, <1>3

\* normalize_ranked_list keeps the hits of a search what they are.
LEMMA NormalizedIds ==
  ASSUME NEW q, NEW T \in SUBSET Ids, NEW k \in Nat, NEW h, RankedIds(q, h, T, k)
  PROVE  RankedIds(q, NormalizeRankedList(h), T, k)
<1> DEFINE s == NormalizeRankedList(h)
<1>1. /\ h \in [1..k -> [row_id : T, score : Int]]
      /\ \A i, j \in 1..k : h[i].row_id = h[j].row_id => i = j
  BY DEF RankedIds
<1>2. T \in SUBSET Int
  BY SearchRows
<1>3. /\ s \in [1..k -> [row_id : T, score : Int]]
      /\ \A i \in 1..k : \E j \in 1..k : s[i] = h[j]
      /\ \A i \in 1..k : \E j \in 1..k : s[j] = h[i]
      /\ \A i, j \in 1..k : i < j => RanksBefore(s[i], s[j])
  BY <1>1, <1>2, SearchRows, NormalizeRanks
<1> HIDE DEF s
<1>4. /\ \A i, j \in 1..k : i < j => s[i].score >= s[j].score
      /\ \A i, j \in 1..k : s[i] = s[j] => i = j
  BY <1>2, <1>3, RankOrderDescends
<1>5. \A i, j \in 1..k : s[i].row_id = s[j].row_id => i = j
  <2> SUFFICES ASSUME NEW i \in 1..k, NEW j \in 1..k, s[i].row_id = s[j].row_id
               PROVE  i = j
    OBVIOUS
  <2>1. PICK x \in 1..k : s[i] = h[x]
    BY <1>3
  <2>2. PICK y \in 1..k : s[j] = h[y]
    BY <1>3
  <2>3. x = y
    BY <2>1, <2>2, <1>1
  <2> QED BY <2>1, <2>2, <2>3, <1>4
<1>6. RankedIds(q, s, T, k)
  BY <1>3, <1>4, <1>5, ReorderedIds
<1> QED BY <1>6 DEF s

\* A set listed in order, read back
LEMMA InOrderRange ==
  ASSUME NEW S, IsFiniteSet(S), S \subseteq Int
  PROVE  /\ DOMAIN InOrder(S) = 1..Cardinality(S) /\ Len(InOrder(S)) = Cardinality(S)
         /\ Range(InOrder(S)) = S
<1>1. /\ Cardinality(S) \in Nat /\ InOrder(S) \in [1..Cardinality(S) -> S]
      /\ \A s \in S : \E i \in 1..Cardinality(S) : InOrder(S)[i] = s
  BY InOrderLists
<1>2. Len(InOrder(S)) = Cardinality(S)
  BY <1>1, LenOfFunction
<1> QED BY <1>1, <1>2 DEF Range

\* A search whose allowlist names the live IDs T
LEMMA AllowlistRanks ==
  ASSUME IInv, NEW q \in Queries, NEW T \in SUBSET LiveIds, NEW n \in 0..MaxK,
         NEW h \in SearchIds(AllowlistResults(q, n, InOrder(T))),
         NEW k, k = IF n <= Cardinality(T) THEN n ELSE Cardinality(T)
  PROVE  k \in Nat /\ k <= MaxK /\ RankedIds(q, h, T, k)
<1>1. IsFiniteSet(T) /\ T \subseteq Int /\ T \subseteq Ids
  BY IdsAndSlots, SearchRows DEF LiveIds
<1>2. /\ \A i \in DOMAIN InOrder(T) : InOrder(T)[i] \in T
      /\ \A t \in T : \E i \in DOMAIN InOrder(T) : InOrder(T)[i] = t
  BY <1>1, InOrderLists
<1>3. ~AllowlistMissing(InOrder(T))
  <2> SUFFICES ASSUME NEW i \in DOMAIN InOrder(T), id_to_slot[InOrder(T)[i]] = NoSlot
               PROVE  FALSE
    BY DEF AllowlistMissing
  <2>1. InOrder(T)[i] \in LiveIds
    BY <1>2
  <2> QED BY <2>1 DEF LiveIds
<1>4. {id_to_slot[InOrder(T)[i]] : i \in DOMAIN InOrder(T)} = SlotsOfIds(T)
  BY <1>2 DEF SlotsOfIds
<1>5. AllowlistResults(q, n, InOrder(T)) = SearchWithCandidates(q, n, InOrder(SlotsOfIds(T)))
  BY <1>3, <1>4 DEF AllowlistResults, CandidateSlots
<1>6. PICK r \in SearchWithCandidates(q, n, InOrder(SlotsOfIds(T))) :
        h = IF r = Err THEN Err ELSE ScoresIds(r)
  BY <1>5 DEF SearchIds
<1>7. k \in Nat /\ Ranked(q, r, SlotsOfIds(T), k)
  BY CandidatesRanked
<1>8. r # Err
  BY CandidatesAnswer
<1>9. RankedIds(q, h, T, k)
  BY <1>6, <1>7, <1>8, RankedGivesIds
<1>10. k <= MaxK
  BY <1>7, IdsAndSlots, SearchBounds
<1> QED BY <1>7, <1>9, <1>10

\* Two lists that normalize without an error make a batch of the two.
LEMMA BatchOfTwo ==
  ASSUME NEW lists, DOMAIN lists = 1..2, NEW j \in 0..MaxK, NEW k \in 0..MaxK,
         NormalizeRankedList(lists[1]) \in [1..j -> [row_id : Int, score : Int]],
         NormalizeRankedList(lists[2]) \in [1..k -> [row_id : Int, score : Int]]
  PROVE  /\ FromRankedLists(lists) # Err
         /\ FromRankedLists(lists)[1] = NormalizeRankedList(lists[1])
         /\ FromRankedLists(lists)[2] = NormalizeRankedList(lists[2])
<1> DEFINE normalized == [x \in DOMAIN lists |-> NormalizeRankedList(lists[x])]
<1>1. /\ normalized[1] = NormalizeRankedList(lists[1])
      /\ normalized[2] = NormalizeRankedList(lists[2])
      /\ DOMAIN normalized = 1..2 /\ normalized = [x \in 1..2 |-> normalized[x]]
  OBVIOUS
<1>2. FromRankedLists(lists) = IF \E x \in DOMAIN lists : normalized[x] = Err
                               THEN Err ELSE normalized
  BY DEF FromRankedLists
<1> HIDE DEF normalized
<1>3. j \in Nat /\ k \in Nat /\ \A x \in 1..2 : x = 1 \/ x = 2
  BY SearchBounds
<1>4. /\ normalized[1] \in Seq([row_id : Int, score : Int]) /\ normalized[1] # Err
      /\ normalized[2] \in Seq([row_id : Int, score : Int]) /\ normalized[2] # Err
  <2>1. /\ normalized[1] \in [1..j -> [row_id : Int, score : Int]]
        /\ normalized[2] \in [1..k -> [row_id : Int, score : Int]]
    BY <1>1
  <2>2. normalized[1] # Err /\ normalized[2] # Err
    BY <2>1, SearchErr
  <2>3. /\ normalized[1] \in Seq([row_id : Int, score : Int])
        /\ normalized[2] \in Seq([row_id : Int, score : Int])
    BY <2>1, <1>3, ListIsSeq
  <2> QED BY <2>2, <2>3
<1>5. \A x \in 1..2 : /\ normalized[x] \in Seq([row_id : Int, score : Int])
                      /\ normalized[x] # Err
  BY <1>3, <1>4
<1>6. normalized \in [1..2 -> Seq([row_id : Int, score : Int])]
  BY <1>1, <1>5
<1>7. normalized # Err
  BY <1>6, SearchErr
<1>8. FromRankedLists(lists) = normalized
  BY <1>2, <1>5
<1> QED BY <1>1, <1>7, <1>8

\* A batch of the ID layer answers both queries.
LEMMA IdBatchAnswers ==
  ASSUME IInv, dim # Lazy, NEW p \in Queries, NEW q \in Queries,
         NEW S \in SUBSET LiveIds, NEW T \in SUBSET LiveIds, NEW n \in 0..MaxK,
         NEW batch \in SearchBatchRows(<<p, q>>, n, <<InOrder(S), InOrder(T)>>)
  PROVE  /\ batch # Err
         /\ AreBest(p, batch[1], S, n) /\ AreBest(q, batch[2], T, n)
<1> DEFINE qs == <<p, q>>
           allowlists == <<InOrder(S), InOrder(T)>>
           perQuery == [i \in DOMAIN qs |-> SearchIds(AllowlistResults(qs[i], n, allowlists[i]))]
           j == IF n <= Cardinality(S) THEN n ELSE Cardinality(S)
           k == IF n <= Cardinality(T) THEN n ELSE Cardinality(T)
<1>1. Len(allowlists) = Len(qs) /\ DOMAIN qs = 1..2
  OBVIOUS
<1>2. PICK lists \in [DOMAIN qs -> UNION Range(perQuery)] :
        /\ \A i \in DOMAIN qs : lists[i] \in perQuery[i]
        /\ batch = IF \E i \in DOMAIN lists : lists[i] = Err THEN Err
                   ELSE FromRankedLists(lists)
  BY <1>1 DEF SearchBatchRows
<1>3. DOMAIN lists = 1..2
  BY <1>1
<1>4. /\ lists[1] \in SearchIds(AllowlistResults(p, n, InOrder(S)))
      /\ lists[2] \in SearchIds(AllowlistResults(q, n, InOrder(T)))
  <2>1. lists[1] \in perQuery[1] /\ lists[2] \in perQuery[2]
    <3> HIDE DEF perQuery
    <3> QED BY <1>1, <1>2
  <2>2. /\ perQuery[1] = SearchIds(AllowlistResults(qs[1], n, allowlists[1]))
        /\ perQuery[2] = SearchIds(AllowlistResults(qs[2], n, allowlists[2]))
    <3> HIDE DEF qs, allowlists
    <3> QED BY <1>1
  <2>3. qs[1] = p /\ qs[2] = q /\ allowlists[1] = InOrder(S) /\ allowlists[2] = InOrder(T)
    OBVIOUS
  <2> HIDE DEF perQuery, qs, allowlists
  <2> QED BY <2>1, <2>2, <2>3
<1>5. /\ j \in Nat /\ j <= MaxK /\ RankedIds(p, lists[1], S, j)
      /\ k \in Nat /\ k <= MaxK /\ RankedIds(q, lists[2], T, k)
  BY <1>4, AllowlistRanks
<1>6. j \in 0..MaxK /\ k \in 0..MaxK /\ S \in SUBSET Ids /\ T \in SUBSET Ids
  BY <1>5, SearchBounds DEF LiveIds
<1>7. n \in Nat /\ j = (IF n <= Cardinality(S) THEN n ELSE Cardinality(S))
      /\ k = (IF n <= Cardinality(T) THEN n ELSE Cardinality(T))
  OBVIOUS
<1> HIDE DEF j, k
<1>8. lists[1] # Err /\ lists[2] # Err
  <2>1. /\ lists[1] \in [1..j -> [row_id : S, score : Int]]
        /\ lists[2] \in [1..k -> [row_id : T, score : Int]]
    BY <1>5 DEF RankedIds
  <2> QED BY <2>1, <1>6, HitsAreNoError
<1>9. batch = FromRankedLists(lists)
  <2>1. \A x \in 1..2 : x = 1 \/ x = 2
    OBVIOUS
  <2> QED BY <1>2, <1>3, <1>8, <2>1
<1>10. /\ RankedIds(p, NormalizeRankedList(lists[1]), S, j)
       /\ RankedIds(q, NormalizeRankedList(lists[2]), T, k)
  BY <1>5, <1>6, NormalizedIds
<1>11. /\ NormalizeRankedList(lists[1]) \in [1..j -> [row_id : Int, score : Int]]
       /\ NormalizeRankedList(lists[2]) \in [1..k -> [row_id : Int, score : Int]]
  <2>1. /\ NormalizeRankedList(lists[1]) \in [1..j -> [row_id : S, score : Int]]
        /\ NormalizeRankedList(lists[2]) \in [1..k -> [row_id : T, score : Int]]
    BY <1>10 DEF RankedIds
  <2> QED BY <2>1, <1>6, SearchRows
<1>12. /\ batch # Err
       /\ batch[1] = NormalizeRankedList(lists[1]) /\ batch[2] = NormalizeRankedList(lists[2])
  BY <1>3, <1>6, <1>9, <1>11, BatchOfTwo
<1>13. AreBest(p, batch[1], S, n) /\ AreBest(q, batch[2], T, n)
  BY <1>5, <1>7, <1>10, <1>12, RankedIsBest
<1> QED BY <1>12, <1>13

\* What ordvec returns for k cells: the ranked cells of the candidates, then
\* padding.
LEMMA SubsetIsPadded ==
  ASSUME TypeOK, NEW q \in Queries, NEW G \in SUBSET Slots(rows.len),
         NEW w \in Nat, NEW r \in RankSubset(q, InOrder(G), w),
         NEW k, k = IF w <= Cardinality(G) THEN w ELSE Cardinality(G)
  PROVE  /\ k \in Nat /\ k <= w
         /\ Ranked(q, [i \in 1..k |-> r[i]], G, k)
         /\ \A i \in 1..w : i > k => r[i] = Padding
<1> DEFINE c == InOrder(G)
           score == [x \in DOMAIN c |-> RankScore[q][rows.at[c[x]]]]
           s == [i \in 1..k |-> r[i]]
<1>1. IsFiniteSet(G) /\ G \subseteq Int
  <2>1. rows.len - 1 \in Int
    BY DEF TypeOK, IsVec
  <2>2. IsFiniteSet(Slots(rows.len)) /\ Slots(rows.len) \subseteq Int
    <3>1. IsFiniteSet(0..(rows.len - 1))
      BY <2>1, FS_Interval
    <3> QED BY <3>1 DEF Slots
  <2> QED BY <2>2, FS_Subset
<1>2. Cardinality(G) \in Nat /\ Len(c) = Cardinality(G)
  BY <1>1, InOrderLists, InOrderRange
<1>3. k \in Nat /\ k <= w /\ k <= Cardinality(G)
  BY <1>2
<1>4. Min({w, Len(c)}) = k /\ Min({k, Len(c)}) = k
  BY <1>2, <1>3, MinOfTwo
<1> DEFINE Cells(z, n, p) == [i \in 1..z |-> IF i <= n THEN [slot |-> c[p[i]], score |-> score[p[i]]]
                                             ELSE Padding]
           Of(z, n) == {Cells(z, n, p) : p \in Rankings(DOMAIN c, n, score)}
<1>5. /\ RankSubset(q, c, w) = Of(w, Min({w, Len(c)}))
      /\ RankSubset(q, c, k) = Of(k, Min({k, Len(c)}))
  BY Zenon DEF RankSubset
<1>6. PICK p \in Rankings(DOMAIN c, k, score) : r = Cells(w, k, p)
  <2> HIDE DEF Cells, score, c
  <2>1. r \in Of(w, k)
    <3> HIDE DEF Of
    <3> QED BY <1>4, <1>5 DEF c
  <2> QED BY <2>1
<1>7. s = Cells(k, k, p)
  <2> HIDE DEF score, c
  <2>1. \A i \in 1..k : i \in 1..w /\ i <= k
    BY <1>3
  <2>2. \A i \in 1..k : r[i] = [slot |-> c[p[i]], score |-> score[p[i]]]
    BY <1>6, <2>1
  <2>3. \A i \in 1..k : Cells(k, k, p)[i] = [slot |-> c[p[i]], score |-> score[p[i]]]
    BY <2>1
  <2> QED BY <2>2, <2>3
<1>8. s \in RankSubset(q, c, k)
  <2> HIDE DEF Cells, score, c, s
  <2>1. s \in Of(k, k)
    BY <1>7
  <2> HIDE DEF Of
  <2> QED BY <2>1, <1>4, <1>5
<1>9. Ranked(q, s, G, k)
  <2> HIDE DEF s
  <2> QED BY <1>3, <1>8, SlotsAreRanked
<1>10. \A i \in 1..w : i > k => r[i] = Padding
  <2> HIDE DEF score, c
  <2> SUFFICES ASSUME NEW i \in 1..w, i > k PROVE r[i] = Padding
    OBVIOUS
  <2>1. ~(i <= k)
    BY <1>3
  <2> QED BY <1>6, <2>1
<1> QED BY <1>3, <1>9, <1>10

\* The cells of query x in the flat results of a batch are those of r.
CellsAre(x, w, scores, indices, r) ==
  \A i \in 1..w : /\ indices[(x - 1) * w + i] = r[i].slot
                  /\ scores[(x - 1) * w + i] = r[i].score

\* One query's cells of a flat batch, ranked as rows, are its hits by ID.
LEMMA RowsOfQuery ==
  ASSUME IInv, NEW q \in Queries, NEW T \in SUBSET LiveIds, NEW w \in Nat,
         NEW k \in Nat, k <= w, NEW r,
         Ranked(q, [i \in 1..k |-> r[i]], SlotsOfIds(T), k),
         \A i \in 1..w : i > k => r[i] = Padding,
         NEW x, NEW scores, NEW indices, CellsAre(x, w, scores, indices, r)
  PROVE  LET list == NormalizeRankedList(CellsOfQuery(x, w, scores, indices)) IN
         /\ list \in [1..k -> [row_id : Int, score : Int]]
         /\ RankedIds(q, ScoresIdsOfRows(list), T, k)
<1> DEFINE G == SlotsOfIds(T)
           s == [i \in 1..k |-> r[i]]
           h == ScoresIds(s)
           At(i) == (x - 1) * w + i
           filled == {i \in 1..w : indices[At(i)] >= 0}
           cells == CellsOfQuery(x, w, scores, indices)
           list == NormalizeRankedList(cells)
           rowed == ScoresIdsOfRows(list)
<1>1. G \in SUBSET Slots(rows.len) /\ Cardinality(G) = Cardinality(T) /\ G \subseteq Nat
  BY IdsAndSlots DEF Slots
<1>2. Ranked(q, s, G, k)
  OBVIOUS
<1>3. /\ s \in [1..k -> [slot : G, score : Int]]
      /\ \A i, j \in 1..k : s[i].slot = s[j].slot => i = j
  BY <1>2 DEF Ranked
<1>4. \A i \in 1..k : i \in 1..w /\ s[i] = r[i]
  OBVIOUS
<1> HIDE DEF G, s
<1>5. filled = 1..k
  <2>1. \A i \in 1..w : i <= k => r[i].slot \in Nat
    <3> SUFFICES ASSUME NEW i \in 1..w, i <= k PROVE r[i].slot \in Nat
      OBVIOUS
    <3>1. i \in 1..k
      BY <1>2
    <3> QED BY <3>1, <1>1, <1>3, <1>4
  <2>2. \A i \in 1..w : i > k => r[i].slot = -1
    BY DEF Padding
  <2>3. \A i \in 1..w : indices[At(i)] = r[i].slot
    BY DEF CellsAre
  <2> HIDE DEF At
  <2>4. \A i \in 1..w : indices[At(i)] >= 0 <=> i <= k
    BY <2>1, <2>2, <2>3, <1>2
  <2> QED BY <2>4, <1>2
<1> DEFINE o == InOrder(1..k)
<1>6. /\ o \in [1..k -> 1..k]
      /\ \A i \in 1..k : \E j \in 1..k : o[j] = i
      /\ \A i, j \in 1..k : i < j => o[i] < o[j]
  <2>1. IsFiniteSet(1..k) /\ Cardinality(1..k) = k /\ 1..k \subseteq Int
    BY FS_Interval
  <2> QED BY <2>1, InOrderLists
<1>7. cells = [i \in 1..k |-> [row_id |-> s[o[i]].slot, score |-> s[o[i]].score]]
  <2>1. DOMAIN o = 1..k
    BY <1>6
  <2>2. cells = [i \in DOMAIN o |-> [row_id |-> indices[At(o[i])], score |-> scores[At(o[i])]]]
    BY <1>5 DEF CellsOfQuery
  <2>3. \A i \in 1..w : indices[At(i)] = r[i].slot /\ scores[At(i)] = r[i].score
    BY DEF CellsAre
  <2> HIDE DEF At, o
  <2>4. \A i \in 1..k : /\ indices[At(o[i])] = s[o[i]].slot
                        /\ scores[At(o[i])] = s[o[i]].score
    BY <2>3, <1>4, <1>6
  <2> HIDE DEF cells
  <2> QED BY <2>1, <2>2, <2>4
<1> HIDE DEF cells, o
<1>8. /\ cells \in [1..k -> [row_id : G, score : Int]]
      /\ \A i, j \in 1..k : cells[i].row_id = cells[j].row_id => i = j
      /\ \A i \in 1..k : \E j \in 1..k : cells[i] = [row_id |-> s[j].slot, score |-> s[j].score]
      /\ \A i \in 1..k : \E j \in 1..k : cells[j] = [row_id |-> s[i].slot, score |-> s[i].score]
  <2>1. \A i \in 1..k : s[o[i]].slot \in G /\ s[o[i]].score \in Int
    BY <1>3, <1>6
  <2>2. \A i, j \in 1..k : o[i] = o[j] => i = j
    <3> SUFFICES ASSUME NEW i \in 1..k, NEW j \in 1..k, o[i] = o[j] PROVE i = j
      OBVIOUS
    <3>0. o[i] \in Int /\ o[j] \in Int
      BY <1>6
    <3>1. \A a, b \in 1..k : a < b => o[a] < o[b]
      BY <1>6
    <3>2. ~(i < j) /\ ~(j < i)
      BY <3>0, <3>1
    <3> QED BY <3>2
  <2>3. \A i, j \in 1..k : cells[i].row_id = cells[j].row_id => i = j
    <3> SUFFICES ASSUME NEW i \in 1..k, NEW j \in 1..k, cells[i].row_id = cells[j].row_id
                 PROVE  i = j
      OBVIOUS
    <3>1. s[o[i]].slot = s[o[j]].slot
      BY <1>7
    <3>2. \A a, b \in 1..k : s[a].slot = s[b].slot => a = b
      BY <1>3
    <3>3. o[i] \in 1..k /\ o[j] \in 1..k
      BY <1>6
    <3>4. o[i] = o[j]
      BY <3>1, <3>2, <3>3
    <3> QED BY <3>4, <2>2
  <2>4. cells \in [1..k -> [row_id : G, score : Int]]
    BY <1>7, <2>1
  <2>5. \A i \in 1..k : \E j \in 1..k : cells[i] = [row_id |-> s[j].slot, score |-> s[j].score]
    BY <1>6, <1>7
  <2>6. \A i \in 1..k : \E j \in 1..k : cells[j] = [row_id |-> s[i].slot, score |-> s[i].score]
    <3> SUFFICES ASSUME NEW i \in 1..k
                 PROVE  \E j \in 1..k : cells[j] = [row_id |-> s[i].slot, score |-> s[i].score]
      OBVIOUS
    <3>1. PICK j \in 1..k : o[j] = i
      BY <1>6
    <3>2. cells[j] = [row_id |-> s[i].slot, score |-> s[i].score]
      BY <3>1, <1>7
    <3> QED BY <3>2
  <2> QED BY <2>3, <2>4, <2>5, <2>6
<1>9. /\ list \in [1..k -> [row_id : G, score : Int]]
      /\ \A i \in 1..k : \E j \in 1..k : list[i] = cells[j]
      /\ \A i \in 1..k : \E j \in 1..k : list[j] = cells[i]
      /\ \A i, j \in 1..k : i < j => RanksBefore(list[i], list[j])
  <2>1. NonFinite \notin Int /\ G \subseteq Int
    BY <1>1, SearchRows
  <2> QED BY <2>1, <1>8, NormalizeRanks
<1> HIDE DEF list
<1>10. list \in [1..k -> [row_id : Int, score : Int]]
  <2>1. G \subseteq Int
    BY <1>1
  <2> QED BY <2>1, <1>9
<1>11. /\ \A i, j \in 1..k : i < j => list[i].score >= list[j].score
       /\ \A i, j \in 1..k : list[i] = list[j] => i = j
  <2>1. G \in SUBSET Int
    BY <1>1
  <2>2. /\ list \in [1..k -> [row_id : G, score : Int]]
        /\ \A i, j \in 1..k : i < j => RanksBefore(list[i], list[j])
    BY <1>9
  <2> QED BY <2>1, <2>2, RankOrderDescends
<1>12. RankedIds(q, h, T, k)
  BY <1>2, RankedGivesIds DEF G
<1>13. PICK u \in [1..k -> 1..k] :
         /\ \A i \in 1..k : \E j \in 1..k : u[j] = i
         /\ h = [i \in 1..k |-> [row_id |-> slot_to_id.at[s[u[i]].slot], score |-> s[u[i]].score]]
  <2>1. s \in [1..k -> [slot : Nat, score : Int]] /\ k \in Nat
    BY <1>1, <1>3
  <2>2. PICK v \in [1..k -> 1..k] :
          /\ \A i \in 1..k : \E j \in 1..k : v[j] = i
          /\ \A i, j \in 1..k : i < j => v[i] < v[j]
          /\ ScoresIds(s) = [i \in 1..k |-> [row_id |-> slot_to_id.at[s[v[i]].slot],
                                            score |-> s[v[i]].score]]
    BY <2>1, FilledCells
  <2>3. h = [i \in 1..k |-> [row_id |-> slot_to_id.at[s[v[i]].slot], score |-> s[v[i]].score]]
    BY <2>2
  <2> WITNESS v \in [1..k -> 1..k]
  <2> QED BY <2>2, <2>3
<1>14. \A g \in G : slot_to_id.at[g] \in T /\ id_to_slot[slot_to_id.at[g]] = g
  BY LiveFacts DEF G, SlotsOfIds
<1>15. rowed = [i \in 1..k |-> [row_id |-> slot_to_id.at[list[i].row_id], score |-> list[i].score]]
  <2>1. DOMAIN list = 1..k
    BY <1>9
  <2> QED BY <2>1 DEF ScoresIdsOfRows
<1> HIDE DEF rowed, h
<1>16. rowed \in [1..k -> [row_id : T, score : Int]]
  BY <1>9, <1>14, <1>15
<1>17. \A i \in 1..k : \E j \in 1..k : rowed[i] = h[j]
  <2> SUFFICES ASSUME NEW i \in 1..k PROVE \E j \in 1..k : rowed[i] = h[j]
    OBVIOUS
  <2>1. PICK a \in 1..k : list[i] = cells[a]
    BY <1>9
  <2>2. PICK b \in 1..k : cells[a] = [row_id |-> s[b].slot, score |-> s[b].score]
    BY <1>8
  <2>3. PICK j \in 1..k : u[j] = b
    BY <1>13
  <2>4. rowed[i] = [row_id |-> slot_to_id.at[s[b].slot], score |-> s[b].score]
    <3>1. rowed[i] = [row_id |-> slot_to_id.at[list[i].row_id], score |-> list[i].score]
      BY <1>15
    <3>2. list[i].row_id = s[b].slot /\ list[i].score = s[b].score
      BY <2>1, <2>2
    <3> QED BY <3>1, <3>2
  <2>5. h[j] = [row_id |-> slot_to_id.at[s[b].slot], score |-> s[b].score]
    BY <1>13, <2>3
  <2> QED BY <2>4, <2>5
<1>18. \A i \in 1..k : \E j \in 1..k : rowed[j] = h[i]
  <2> SUFFICES ASSUME NEW i \in 1..k PROVE \E j \in 1..k : rowed[j] = h[i]
    OBVIOUS
  <2>1. u[i] \in 1..k
    OBVIOUS
  <2>2. PICK a \in 1..k : cells[a] = [row_id |-> s[u[i]].slot, score |-> s[u[i]].score]
    BY <1>8, <2>1
  <2>3. PICK j \in 1..k : list[j] = cells[a]
    BY <1>9
  <2>4. rowed[j] = [row_id |-> slot_to_id.at[s[u[i]].slot], score |-> s[u[i]].score]
    <3>1. list[j].row_id = s[u[i]].slot /\ list[j].score = s[u[i]].score
      BY <2>2, <2>3
    <3>2. rowed[j] = [row_id |-> slot_to_id.at[list[j].row_id], score |-> list[j].score]
      BY <1>15
    <3> QED BY <3>1, <3>2
  <2>5. h[i] = [row_id |-> slot_to_id.at[s[u[i]].slot], score |-> s[u[i]].score]
    BY <1>13
  <2> QED BY <2>4, <2>5
<1>19. \A i, j \in 1..k : i < j => rowed[i].score >= rowed[j].score
  BY <1>11, <1>15
<1>20. \A i, j \in 1..k : rowed[i].row_id = rowed[j].row_id => i = j
  <2> SUFFICES ASSUME NEW i \in 1..k, NEW j \in 1..k, rowed[i].row_id = rowed[j].row_id
               PROVE  i = j
    OBVIOUS
  <2>1. list[i].row_id \in G /\ list[j].row_id \in G
    BY <1>9
  <2>2. slot_to_id.at[list[i].row_id] = slot_to_id.at[list[j].row_id]
    BY <1>15
  <2>3. list[i].row_id = list[j].row_id
    BY <1>14, <2>1, <2>2
  <2>4. PICK a \in 1..k : list[i] = cells[a]
    BY <1>9
  <2>5. PICK b \in 1..k : list[j] = cells[b]
    BY <1>9
  <2>6. a = b
    BY <1>8, <2>3, <2>4, <2>5
  <2> QED BY <1>11, <2>4, <2>5, <2>6
<1>21. RankedIds(q, rowed, T, k)
  BY <1>12, <1>16, <1>17, <1>18, <1>19, <1>20, ReorderedIds
<1> QED BY <1>2, <1>10, <1>21 DEF rowed, list, cells

\* Where the cells of each of two queries stand in the flat results
LEMMA FlatPlaces ==
  ASSUME NEW w \in Nat, NEW x \in 1..2, NEW i \in 1..w
  PROVE  /\ (x - 1) * w + i \in 1..(2 * w)
         /\ 1 + (((x - 1) * w + i - 1) \div w) = x
         /\ 1 + (((x - 1) * w + i - 1) % w) = i
<1>1. CASE x = 1
  <2>1. (x - 1) * w + i = i
    BY <1>1
  <2>2. (i - 1) \div w = 0 /\ (i - 1) % w = i - 1
    OBVIOUS
  <2> QED BY <1>1, <2>1, <2>2
<1>2. CASE x = 2
  <2>1. (x - 1) * w + i = w + i
    BY <1>2
  <2>2. (w + i - 1) \div w = 1 /\ (w + i - 1) % w = i - 1
    OBVIOUS
  <2> QED BY <1>2, <2>1, <2>2
<1> QED BY <1>1, <1>2

\* A batch of the slot layer answers both queries, whatever the lengths of
\* their candidate lists.
LEMMA SlotBatchAnswers ==
  ASSUME IInv, dim # Lazy, NEW p \in Queries, NEW q \in Queries,
         NEW S \in SUBSET LiveIds, NEW T \in SUBSET LiveIds, NEW n \in 0..MaxK,
         NEW batch \in SlotBatchRows(<<p, q>>, n,
                                     <<InOrder(SlotsOfIds(S)), InOrder(SlotsOfIds(T))>>)
  PROVE  /\ batch # Err
         /\ AreBest(p, ScoresIdsOfRows(batch[1]), S, n)
         /\ AreBest(q, ScoresIdsOfRows(batch[2]), T, n)
<1> DEFINE qs == <<p, q>>
           A == InOrder(SlotsOfIds(S))
           B == InOrder(SlotsOfIds(T))
           allowlists == <<A, B>>
           candidates == [i \in DOMAIN qs |-> InOrder(Range(allowlists[i]))]
           w == Min({n, Max({Len(candidates[i]) : i \in DOMAIN qs})})
           perQuery == [i \in DOMAIN qs |-> RankSubset(qs[i], candidates[i], w)]
           Cells(choice) == [c \in 1..(Len(qs) * w) |->
                               choice[1 + ((c - 1) \div w)][1 + ((c - 1) % w)]]
           Batch(cells) == FromFlat(Len(qs), w, [c \in DOMAIN cells |-> cells[c].score],
                                    [c \in DOMAIN cells |-> cells[c].slot])
           Answers == {l \in [DOMAIN qs -> UNION Range(perQuery)] :
                         \A i \in DOMAIN qs : l[i] \in perQuery[i]}
           j == IF n <= Cardinality(S) THEN n ELSE Cardinality(S)
           k == IF n <= Cardinality(T) THEN n ELSE Cardinality(T)
<1>1. /\ Len(allowlists) = 2 /\ Len(qs) = 2 /\ DOMAIN qs = 1..2
      /\ qs[1] = p /\ qs[2] = q /\ allowlists[1] = A /\ allowlists[2] = B
      /\ \A x \in 1..2 : x = 1 \/ x = 2
  OBVIOUS
<1>2. /\ SlotsOfIds(S) \in SUBSET Slots(rows.len) /\ SlotsOfIds(T) \in SUBSET Slots(rows.len)
      /\ Cardinality(SlotsOfIds(S)) = Cardinality(S)
      /\ Cardinality(SlotsOfIds(T)) = Cardinality(T)
      /\ Cardinality(S) \in Nat /\ Cardinality(T) \in Nat
  BY IdsAndSlots
<1>3. /\ Range(A) = SlotsOfIds(S) /\ Range(B) = SlotsOfIds(T)
      /\ Len(A) = Cardinality(S) /\ Len(B) = Cardinality(T)
  <2>1. rows.len - 1 \in Int
    BY DEF IInv, TypeOK, IsVec
  <2>2. IsFiniteSet(Slots(rows.len)) /\ Slots(rows.len) \subseteq Int
    <3>1. IsFiniteSet(0..(rows.len - 1))
      BY <2>1, FS_Interval
    <3> QED BY <3>1 DEF Slots
  <2>3. /\ IsFiniteSet(SlotsOfIds(S)) /\ SlotsOfIds(S) \subseteq Int
        /\ IsFiniteSet(SlotsOfIds(T)) /\ SlotsOfIds(T) \subseteq Int
    BY <1>2, <2>2, FS_Subset
  <2> QED BY <1>2, <2>3, InOrderRange
<1>4. ~\E i \in DOMAIN qs : ~(Range(allowlists[i]) \subseteq Slots(rows.len))
  <2> HIDE DEF qs, allowlists, A, B
  <2> QED BY <1>1, <1>2, <1>3
<1>5. PICK choice \in Answers : batch = Batch(Cells(choice))
  <2>1. batch \in IF \/ dim = Lazy \/ Len(allowlists) # Len(qs)
                     \/ \E i \in DOMAIN qs : ~(Range(allowlists[i]) \subseteq Slots(rows.len))
                  THEN {Err} ELSE {Batch(Cells(choice)) : choice \in Answers}
    BY Zenon DEF SlotBatchRows
  <2> HIDE DEF Batch, Cells, Answers, qs, allowlists
  <2> QED BY <2>1, <1>1, <1>4
<1>6. candidates[1] = A /\ candidates[2] = B
  <2> HIDE DEF qs, allowlists, A, B
  <2> QED BY <1>1, <1>3 DEF A, B
<1>7. /\ w \in Nat /\ j \in Nat /\ k \in Nat /\ j <= w /\ k <= w
      /\ j = (IF w <= Cardinality(S) THEN w ELSE Cardinality(S))
      /\ k = (IF w <= Cardinality(T) THEN w ELSE Cardinality(T))
  <2>1. {Len(candidates[i]) : i \in DOMAIN qs} = {Cardinality(S), Cardinality(T)}
    <3> HIDE DEF candidates, qs, A, B
    <3> QED BY <1>1, <1>3, <1>6
  <2>2. Max({Cardinality(S), Cardinality(T)})
          = IF Cardinality(S) >= Cardinality(T) THEN Cardinality(S) ELSE Cardinality(T)
    BY <1>2, MaxOfTwo
  <2> DEFINE m == Max({Cardinality(S), Cardinality(T)})
  <2>3. w = Min({n, m})
    BY <2>1
  <2>4. m \in Nat /\ Cardinality(S) <= m /\ Cardinality(T) <= m
    BY <1>2, <2>2
  <2> HIDE DEF w, m
  <2>5. w = IF n <= m THEN n ELSE m
    BY <2>3, <2>4, MinOfTwo
  <2>6. n \in Nat
    OBVIOUS
  <2> QED BY <1>2, <2>4, <2>5, <2>6
<1> DEFINE cells == Cells(choice)
           scores == [c \in 1..(2 * w) |-> cells[c].score]
           indices == [c \in 1..(2 * w) |-> cells[c].slot]
           lists == [x \in 1..2 |-> CellsOfQuery(x, w, scores, indices)]
<1>8. batch = FromRankedLists(lists)
  <2> HIDE DEF Answers
  <2>1. cells = [c \in 1..(2 * w) |-> choice[1 + ((c - 1) \div w)][1 + ((c - 1) % w)]]
    <3> HIDE DEF w, qs
    <3> QED BY <1>1
  <2> HIDE DEF Cells, w, qs, cells
  <2>2. DOMAIN cells = 1..(2 * w)
    BY <2>1
  <2>3. batch = FromFlat(2, w, scores, indices)
    BY <1>1, <1>5, <2>2 DEF cells
  <2>4. Len(scores) = 2 * w /\ Len(indices) = 2 * w
    <3>1. 2 * w \in Nat
      BY <1>7
    <3> QED BY <3>1, LenOfFunction
  <2> HIDE DEF scores, indices
  <2> QED BY <2>3, <2>4 DEF FromFlat
<1>9. /\ choice[1] \in RankSubset(p, A, w)
      /\ choice[2] \in RankSubset(q, B, w)
  <2>1. choice[1] \in perQuery[1] /\ choice[2] \in perQuery[2]
    <3> HIDE DEF perQuery, qs
    <3> QED BY <1>1
  <2>2. /\ perQuery[1] = RankSubset(qs[1], candidates[1], w)
        /\ perQuery[2] = RankSubset(qs[2], candidates[2], w)
    <3> HIDE DEF w, candidates, qs
    <3> QED BY <1>1
  <2> HIDE DEF perQuery, w, candidates, qs, A, B
  <2> QED BY <2>1, <2>2, <1>1, <1>6
<1>10. \A x \in 1..2 : CellsAre(x, w, scores, indices, choice[x])
  <2> HIDE DEF w, Answers
  <2> SUFFICES ASSUME NEW x \in 1..2, NEW i \in 1..w
               PROVE  /\ indices[(x - 1) * w + i] = choice[x][i].slot
                      /\ scores[(x - 1) * w + i] = choice[x][i].score
    BY DEF CellsAre
  <2> DEFINE c == (x - 1) * w + i
  <2>1. c \in 1..(2 * w) /\ 1 + ((c - 1) \div w) = x /\ 1 + ((c - 1) % w) = i
    BY <1>7, FlatPlaces
  <2> HIDE DEF c
  <2>2. cells[c] = choice[x][i]
    <3>1. cells[c] = choice[1 + ((c - 1) \div w)][1 + ((c - 1) % w)]
      <4> HIDE DEF qs
      <4> QED BY <1>1, <2>1
    <3> QED BY <2>1, <3>1
  <2> HIDE DEF cells
  <2>3. indices[c] = choice[x][i].slot /\ scores[c] = choice[x][i].score
    BY <2>1, <2>2
  <2> QED BY <2>3 DEF c
<1> HIDE DEF w, j, k, A, B, scores, indices, Answers
<1>11. /\ Ranked(p, [i \in 1..j |-> choice[1][i]], SlotsOfIds(S), j)
       /\ \A i \in 1..w : i > j => choice[1][i] = Padding
       /\ Ranked(q, [i \in 1..k |-> choice[2][i]], SlotsOfIds(T), k)
       /\ \A i \in 1..w : i > k => choice[2][i] = Padding
  <2>1. TypeOK
    BY DEF IInv
  <2>2. w \in Nat /\ j = (IF w <= Cardinality(SlotsOfIds(S)) THEN w ELSE Cardinality(SlotsOfIds(S)))
        /\ k = (IF w <= Cardinality(SlotsOfIds(T)) THEN w ELSE Cardinality(SlotsOfIds(T)))
    BY <1>2, <1>7
  <2>3. /\ choice[1] \in RankSubset(p, InOrder(SlotsOfIds(S)), w)
        /\ choice[2] \in RankSubset(q, InOrder(SlotsOfIds(T)), w)
    BY <1>9 DEF A, B
  <2>4. /\ Ranked(p, [i \in 1..j |-> choice[1][i]], SlotsOfIds(S), j)
        /\ \A i \in 1..w : i > j => choice[1][i] = Padding
    BY <2>1, <2>2, <2>3, <1>2, SubsetIsPadded
  <2>5. /\ Ranked(q, [i \in 1..k |-> choice[2][i]], SlotsOfIds(T), k)
        /\ \A i \in 1..w : i > k => choice[2][i] = Padding
    BY <2>1, <2>2, <2>3, <1>2, SubsetIsPadded
  <2> QED BY <2>4, <2>5
<1>12. /\ NormalizeRankedList(lists[1]) \in [1..j -> [row_id : Int, score : Int]]
       /\ RankedIds(p, ScoresIdsOfRows(NormalizeRankedList(lists[1])), S, j)
       /\ NormalizeRankedList(lists[2]) \in [1..k -> [row_id : Int, score : Int]]
       /\ RankedIds(q, ScoresIdsOfRows(NormalizeRankedList(lists[2])), T, k)
  <2>1. CellsAre(1, w, scores, indices, choice[1]) /\ CellsAre(2, w, scores, indices, choice[2])
    BY <1>10
  <2>2. /\ lists[1] = CellsOfQuery(1, w, scores, indices)
        /\ lists[2] = CellsOfQuery(2, w, scores, indices)
    OBVIOUS
  <2>3. w \in Nat /\ j \in Nat /\ k \in Nat /\ j <= w /\ k <= w
    BY <1>7
  <2> HIDE DEF lists
  <2>4. /\ NormalizeRankedList(lists[1]) \in [1..j -> [row_id : Int, score : Int]]
        /\ RankedIds(p, ScoresIdsOfRows(NormalizeRankedList(lists[1])), S, j)
    <3>1. /\ Ranked(p, [i \in 1..j |-> choice[1][i]], SlotsOfIds(S), j)
          /\ \A i \in 1..w : i > j => choice[1][i] = Padding
      BY <1>11
    <3>2. LET list == NormalizeRankedList(CellsOfQuery(1, w, scores, indices)) IN
          /\ list \in [1..j -> [row_id : Int, score : Int]]
          /\ RankedIds(p, ScoresIdsOfRows(list), S, j)
      BY <2>1, <2>3, <3>1, RowsOfQuery
    <3> QED BY <2>2, <3>2
  <2>5. /\ NormalizeRankedList(lists[2]) \in [1..k -> [row_id : Int, score : Int]]
        /\ RankedIds(q, ScoresIdsOfRows(NormalizeRankedList(lists[2])), T, k)
    <3>1. /\ Ranked(q, [i \in 1..k |-> choice[2][i]], SlotsOfIds(T), k)
          /\ \A i \in 1..w : i > k => choice[2][i] = Padding
      BY <1>11
    <3>2. LET list == NormalizeRankedList(CellsOfQuery(2, w, scores, indices)) IN
          /\ list \in [1..k -> [row_id : Int, score : Int]]
          /\ RankedIds(q, ScoresIdsOfRows(list), T, k)
      BY <2>1, <2>3, <3>1, RowsOfQuery
    <3> QED BY <2>2, <3>2
  <2> QED BY <2>4, <2>5
<1>13. /\ batch # Err
       /\ batch[1] = NormalizeRankedList(lists[1]) /\ batch[2] = NormalizeRankedList(lists[2])
  <2>1. j \in 0..MaxK /\ k \in 0..MaxK
    BY <1>2, SearchBounds DEF j, k
  <2>2. DOMAIN lists = 1..2
    OBVIOUS
  <2> HIDE DEF lists
  <2> QED BY <2>1, <2>2, <1>8, <1>12, BatchOfTwo
<1>14. /\ n \in Nat
       /\ j = (IF n <= Cardinality(S) THEN n ELSE Cardinality(S))
       /\ k = (IF n <= Cardinality(T) THEN n ELSE Cardinality(T))
  BY DEF j, k
<1> HIDE DEF lists
<1>15. /\ AreBest(p, ScoresIdsOfRows(batch[1]), S, n)
       /\ AreBest(q, ScoresIdsOfRows(batch[2]), T, n)
  BY <1>7, <1>12, <1>13, <1>14, RankedIsBest
<1> QED BY <1>13, <1>15

LEMMA BatchesAnswer == ASSUME IInv PROVE BatchAnswersEachQuery
<1> SUFFICES ASSUME dim # Lazy, NEW p \in Queries, NEW q \in Queries, NEW k \in 0..MaxK,
                    NEW T \in SUBSET LiveIds
             PROVE  LET SlotsOf(ids) == InOrder({id_to_slot[id] : id \in ids})
                    IN /\ \A batch \in SearchBatchRows(<<p, q>>, k,
                                                       <<InOrder(LiveIds), InOrder(T)>>) :
                            /\ batch # Err
                            /\ AreBest(p, batch[1], LiveIds, k) /\ AreBest(q, batch[2], T, k)
                       /\ \A batch \in SlotBatchRows(<<p, q>>, k,
                                                     <<SlotsOf(LiveIds), SlotsOf(T)>>) :
                            /\ batch # Err
                            /\ AreBest(p, ScoresIdsOfRows(batch[1]), LiveIds, k)
                            /\ AreBest(q, ScoresIdsOfRows(batch[2]), T, k)
  BY DEF BatchAnswersEachQuery
<1>1. /\ {id_to_slot[id] : id \in LiveIds} = SlotsOfIds(LiveIds)
      /\ {id_to_slot[id] : id \in T} = SlotsOfIds(T)
  BY DEF SlotsOfIds
<1>2. LiveIds \in SUBSET LiveIds
  OBVIOUS
<1> QED BY <1>1, <1>2, IdBatchAnswers, SlotBatchAnswers

-----------------------------------------------------------------------------
(* The whole index, exact and two-stage                                    *)

\* The exact search, and the search of a lazy index, are the filtered search
\* whose filter matches every live ID.
LEMMA AllSlots ==
  ASSUME IInv
  PROVE  /\ SlotsOfIds(LiveIds) = Slots(rows.len)
         /\ Cardinality(LiveIds) = rows.len /\ rows.len \in Nat
<1>1. SlotsOfIds(LiveIds) = Slots(rows.len)
  BY LiveFacts DEF SlotsOfIds
<1>2. rows.len \in Nat
  BY DEF IInv, TypeOK, IsVec
<1>3. Cardinality(Slots(rows.len)) = rows.len
  <2>1. rows.len - 1 \in Int /\ 0 \in Int
    BY <1>2
  <2>2. Cardinality(0..(rows.len - 1)) = IF 0 > rows.len - 1 THEN 0 ELSE rows.len - 1 - 0 + 1
    BY <2>1, FS_Interval
  <2> QED BY <2>2, <1>2 DEF Slots
<1> QED BY <1>1, <1>2, <1>3, IdsAndSlots

LEMMA ExactAnswers ==
  ASSUME IInv, NEW q \in Queries, NEW n \in 0..MaxK,
         NEW r \in SearchAsymmetric(q, Min({n, rows.len}))
  PROVE  r # Err /\ ScoresIds(r) # Err /\ AreBest(q, ScoresIds(r), LiveIds, n)
<1> DEFINE k == Min({n, rows.len})
           G == SlotsOfIds(LiveIds)
<1>1. /\ G = Slots(rows.len) /\ Cardinality(LiveIds) = rows.len /\ rows.len \in Nat
      /\ G \in SUBSET Slots(rows.len) /\ Cardinality(G) = rows.len
  BY AllSlots, IdsAndSlots
<1>2. n \in Nat
  OBVIOUS
<1>3. k = (IF n <= rows.len THEN n ELSE rows.len) /\ k \in Nat /\ k <= rows.len
  BY <1>1, <1>2, MinOfTwo
<1>4. r \in RankSubset(q, InOrder(G), k)
  BY <1>1 DEF SearchAsymmetric
<1> HIDE DEF k, G
<1>5. Ranked(q, r, G, k)
  BY <1>1, <1>3, <1>4, SlotsAreRanked DEF IInv
<1> QED BY <1>1, <1>3, <1>5, RankedAnswers DEF G

\* How many rows the two-stage search looks at
LEMMA CandidateCountFacts ==
  ASSUME NEW o \in SearchOptions, NEW k \in Nat, NEW n \in Nat
  PROVE  /\ CandidateCount(o, k, n) \in Nat /\ CandidateCount(o, k, n) <= n
         /\ k > 0 /\ n > 0 /\ CandidateCount(o, k, n) = 0 =>
              o.max = 0 \/ (o.min = 0 /\ o.multiplier = 0)
         /\ k > 0 /\ o.max = NoMax /\ n <= o.min => CandidateCount(o, k, n) = n
<1> DEFINE wanted == Max({o.min, k * o.multiplier})
           capped == IF o.max = NoMax THEN wanted ELSE Min({wanted, o.max})
<1>1. o.min \in Nat /\ o.multiplier \in Nat /\ o.max \in Nat \cup {NoMax}
  BY DEF SearchOptions
<1>2. k * o.multiplier \in Nat /\ (k > 0 /\ o.multiplier > 0 => k * o.multiplier > 0)
  BY <1>1
<1>3. wanted = IF o.min >= k * o.multiplier THEN o.min ELSE k * o.multiplier
  BY <1>1, <1>2, MaxOfTwo
<1>4. wanted \in Nat /\ wanted >= o.min /\ wanted >= k * o.multiplier
  BY <1>1, <1>2, <1>3
<1> HIDE DEF wanted
<1>5. o.max # NoMax => Min({wanted, o.max}) = IF wanted <= o.max THEN wanted ELSE o.max
  BY <1>1, <1>4, MinOfTwo
<1>6. capped \in Nat /\ (o.max = NoMax => capped = wanted)
      /\ (capped = 0 => o.max = 0 \/ wanted = 0)
  BY <1>1, <1>4, <1>5
<1> HIDE DEF capped
<1>7. Min({n, capped}) = IF n <= capped THEN n ELSE capped
  BY <1>6, MinOfTwo
<1>8. CandidateCount(o, k, n) = IF k = 0 \/ n = 0 THEN 0 ELSE Min({n, capped})
  BY DEF CandidateCount, capped, wanted
<1>9. CandidateCount(o, k, n) \in Nat /\ CandidateCount(o, k, n) <= n
  BY <1>6, <1>7, <1>8
<1>10. k > 0 /\ wanted = 0 => o.min = 0 /\ o.multiplier = 0
  BY <1>1, <1>2, <1>4
<1>11. k > 0 /\ n > 0 /\ CandidateCount(o, k, n) = 0 =>
         o.max = 0 \/ (o.min = 0 /\ o.multiplier = 0)
  BY <1>6, <1>7, <1>8, <1>10
<1>12. k > 0 /\ o.max = NoMax /\ n <= o.min => CandidateCount(o, k, n) = n
  BY <1>1, <1>4, <1>6, <1>7, <1>8
<1> QED BY <1>9, <1>11, <1>12

\* A two-stage search ranks m rows no row outside beats in sign agreement.
LEMMA TwoStageRanks ==
  ASSUME IInv, hasSign, NEW q \in Queries, NEW m \in Nat, m <= rows.len,
         NEW k \in Nat, k <= m, NEW r \in SearchTwoStage(q, k, m)
  PROVE  \E T \in SUBSET LiveIds :
           /\ Cardinality(T) = m
           /\ Ranked(q, r, SlotsOfIds(T), k)
           /\ \A id \in LiveIds \ T : \A t \in T :
                AgreementOfId(q, id) <= AgreementOfId(q, t)
<1> DEFINE agreement == [s \in Slots(sign.len) |-> SignScore[q][sign.at[s]]]
<1>1. sign = rows /\ rows.len \in Nat /\ TypeOK
  BY DEF IInv, SidecarAligned, TypeOK, IsVec
<1>2. PICK p \in Rankings(Slots(sign.len), m, agreement) :
        r \in RankSubset(q, InOrder(Range(p)), k)
  BY DEF SearchTwoStage, TopCandidates
<1>3. /\ p \in [1..m -> Slots(rows.len)]
      /\ \A i, j \in 1..m : i < j => p[i] # p[j]
      /\ \A s \in Slots(rows.len) \ Range(p) : \A i \in 1..m : agreement[s] <= agreement[p[i]]
  BY <1>1, <1>2 DEF Rankings
<1>4. \A s \in Slots(rows.len) : agreement[s] = SignScore[q][rows.at[s]]
  BY <1>1
<1> DEFINE C == Range(p)
           T == {slot_to_id.at[s] : s \in C}
<1>5. C \in SUBSET Slots(rows.len) /\ \A s \in C : \E i \in 1..m : p[i] = s
  BY <1>3 DEF Range
<1>6. Cardinality(C) = m
  <2>1. \A i, j \in 1..m : p[i] = p[j] => i = j
    <3> SUFFICES ASSUME NEW i \in 1..m, NEW j \in 1..m, p[i] = p[j] PROVE i = j
      OBVIOUS
    <3>1. ~(i < j) /\ ~(j < i)
      BY <1>3
    <3> QED BY <3>1
  <2>2. p \in [1..m -> C]
    BY <1>3 DEF Range
  <2>3. p \in Bijection(1..m, C)
    <3> HIDE DEF C
    <3> QED BY <1>5, <2>1, <2>2 DEF Bijection, Injection, IsInjective, Surjection
  <2>4. ExistsBijection(1..m, C)
    BY <2>3 DEF ExistsBijection
  <2> HIDE DEF C
  <2> QED BY <2>4, FS_CountingElements
<1>7. T \in SUBSET LiveIds /\ SlotsOfIds(T) = C
  <2>1. \A s \in C : slot_to_id.at[s] \in LiveIds /\ id_to_slot[slot_to_id.at[s]] = s
    BY <1>5, LiveFacts
  <2> HIDE DEF C
  <2>2. \A t \in T : \E s \in C : t = slot_to_id.at[s] /\ id_to_slot[t] = s
    BY <2>1
  <2>3. \A s \in C : \E t \in T : id_to_slot[t] = s
    BY <2>1
  <2>4. T \in SUBSET LiveIds
    BY <2>1
  <2> HIDE DEF T
  <2>5. SlotsOfIds(T) = C
    BY <2>2, <2>3 DEF SlotsOfIds
  <2> QED BY <2>4, <2>5
<1>8. Cardinality(T) = m
  <2> HIDE DEF T, C
  <2> QED BY <1>6, <1>7, IdsAndSlots
<1>9. Ranked(q, r, C, k)
  <2> HIDE DEF T
  <2>1. r \in RankSubset(q, InOrder(C), k)
    BY <1>2
  <2> HIDE DEF C
  <2> QED BY <2>1, <1>1, <1>5, <1>6, SlotsAreRanked
<1>10. ASSUME NEW id \in LiveIds \ T, NEW t \in T
       PROVE  AgreementOfId(q, id) <= AgreementOfId(q, t)
  <2>1. /\ id_to_slot[id] \in Slots(rows.len) /\ slot_to_id.at[id_to_slot[id]] = id
    BY LiveFacts
  <2>2. id_to_slot[id] \notin C
    BY <2>1
  <2>3. id_to_slot[t] \in C
    <3> HIDE DEF T, C
    <3> QED BY <1>7 DEF SlotsOfIds
  <2>4. PICK i \in 1..m : p[i] = id_to_slot[t]
    <3> HIDE DEF C
    <3> QED BY <2>3, <1>5
  <2>5. agreement[id_to_slot[id]] <= agreement[id_to_slot[t]]
    <3> HIDE DEF agreement, T
    <3> QED BY <2>1, <2>2, <2>4, <1>3
  <2>6. id_to_slot[t] \in Slots(rows.len)
    <3> HIDE DEF C
    <3> QED BY <2>3, <1>5
  <2> HIDE DEF agreement, T, C
  <2> QED BY <2>1, <2>5, <2>6, <1>1, <1>4 DEF AgreementOfId
<1> HIDE DEF T, C
<1> QED BY <1>7, <1>8, <1>9, <1>10

\* A two-stage search fails only for lack of candidates; otherwise it ranks as
\* many rows as its plan reports, of a set T that no other row beats in sign
\* agreement.
LEMMA CheckedTwoStage ==
  ASSUME IInv, hasSign, NEW q \in Queries, NEW n \in 0..MaxK, NEW o \in SearchOptions,
         NEW mode \in {"Auto", "SignTwoStage"}, NEW r \in SearchChecked(q, n, mode, o)
  PROVE  \/ /\ r = Err
            /\ o.max = 0 \/ (o.min = 0 /\ o.multiplier = 0)
         \/ \E T \in SUBSET LiveIds :
              /\ Ranked(q, r, SlotsOfIds(T), EffectiveK(n, mode, o))
              /\ EffectiveK(n, mode, o) \in 0..MaxK
              /\ EffectiveK(n, mode, o) <= Cardinality(T)
              /\ \A id \in LiveIds \ T : \A t \in T :
                   AgreementOfId(q, id) <= AgreementOfId(q, t)
              /\ o.max = NoMax /\ rows.len <= o.min =>
                   /\ EffectiveK(n, mode, o) = IF n <= rows.len THEN n ELSE rows.len
                   /\ EffectiveK(n, mode, o) > 0 => T = LiveIds
<1> DEFINE exact == Min({n, rows.len})
           m == CandidateCount(o, exact, rows.len)
           k == EffectiveK(n, mode, o)
<1>1. /\ dim # Lazy
  <2>1. dim \in SignDims
    BY DEF IInv, SidecarAligned
  <2> QED BY <2>1, IdMapDims DEF Lazy
<1>2. UsesSign(mode) /\ ~(mode = "SignTwoStage" /\ ~hasSign)
  BY DEF UsesSign
<1>3. /\ Cardinality(LiveIds) = rows.len /\ rows.len \in Nat /\ n \in Nat /\ n <= MaxK
      /\ MaxK \in Nat
  BY AllSlots, SearchBounds
<1>4. exact = (IF n <= rows.len THEN n ELSE rows.len) /\ exact \in Nat
  BY <1>3, MinOfTwo
<1> HIDE DEF exact
<1>5. /\ m \in Nat /\ m <= rows.len
      /\ exact > 0 /\ rows.len > 0 /\ m = 0 => o.max = 0 \/ (o.min = 0 /\ o.multiplier = 0)
      /\ exact > 0 /\ o.max = NoMax /\ rows.len <= o.min => m = rows.len
  BY <1>3, <1>4, CandidateCountFacts
<1> HIDE DEF m
<1>6. Min({exact, m}) = IF exact <= m THEN exact ELSE m
  BY <1>4, <1>5, MinOfTwo
<1>7. k = Min({exact, m})
  BY <1>2 DEF EffectiveK, exact, m
<1> HIDE DEF k
<1>8. k \in 0..MaxK /\ k <= m /\ k <= exact /\ (exact <= m => k = exact)
  BY <1>3, <1>4, <1>5, <1>6, <1>7
<1>9. SearchChecked(q, n, mode, o) =
        IF exact > 0 /\ m = 0 THEN {Err} ELSE SearchTwoStage(q, k, m)
  BY <1>1, <1>2 DEF SearchChecked, exact, m, k
<1>10. CASE exact > 0 /\ m = 0
  <2>1. rows.len > 0
    BY <1>10, <1>3, <1>4
  <2> QED BY <2>1, <1>5, <1>9, <1>10
<1>11. CASE ~(exact > 0 /\ m = 0)
  <2>1. r \in SearchTwoStage(q, k, m)
    BY <1>9, <1>11
  <2>2. k \in Nat
    BY <1>8
  <2>3. PICK T \in SUBSET LiveIds :
           /\ Cardinality(T) = m
           /\ Ranked(q, r, SlotsOfIds(T), k)
           /\ \A id \in LiveIds \ T : \A t \in T :
                AgreementOfId(q, id) <= AgreementOfId(q, t)
    BY <2>1, <2>2, <1>5, <1>8, TwoStageRanks
  <2>4. ASSUME o.max = NoMax, rows.len <= o.min
        PROVE  /\ k = IF n <= rows.len THEN n ELSE rows.len
               /\ k > 0 => T = LiveIds
    <3>1. exact > 0 => m = rows.len
      BY <2>4, <1>5
    <3>2. exact <= m
      BY <3>1, <1>3, <1>4, <1>5
    <3>3. k = exact
      BY <3>2, <1>8
    <3>4. ASSUME k > 0 PROVE T = LiveIds
      <4>1. Cardinality(T) = Cardinality(LiveIds)
        BY <3>1, <3>3, <3>4, <2>3, <1>3
      <4>2. IsFiniteSet(LiveIds)
        BY IdsAndSlots
      <4> QED BY <4>1, <4>2, FS_Subset
    <3> QED BY <3>3, <3>4, <1>4
  <2>5. k <= Cardinality(T)
    BY <2>3, <1>8
  <2>6. /\ Ranked(q, r, SlotsOfIds(T), k) /\ k \in 0..MaxK /\ k <= Cardinality(T)
        /\ \A id \in LiveIds \ T : \A t \in T :
             AgreementOfId(q, id) <= AgreementOfId(q, t)
        /\ o.max = NoMax /\ rows.len <= o.min =>
             (k = IF n <= rows.len THEN n ELSE rows.len) /\ (k > 0 => T = LiveIds)
    BY <2>3, <2>4, <2>5, <1>8
  <2>7. \E S \in SUBSET LiveIds :
          /\ Ranked(q, r, SlotsOfIds(S), k) /\ k \in 0..MaxK /\ k <= Cardinality(S)
          /\ \A id \in LiveIds \ S : \A t \in S :
               AgreementOfId(q, id) <= AgreementOfId(q, t)
          /\ o.max = NoMax /\ rows.len <= o.min =>
               (k = IF n <= rows.len THEN n ELSE rows.len) /\ (k > 0 => S = LiveIds)
    BY <2>6
  <2> QED BY <2>7, Zenon DEF k
<1> QED BY <1>10, <1>11

\* No hits are the right answer of a search for none.
LEMMA NoHits ==
  ASSUME NEW q \in Queries, NEW T \in SUBSET LiveIds, NEW S, NEW r, Ranked(q, r, S, 0)
  PROVE  Ranked(q, r, SlotsOfIds(T), 0)
<1>1. r \in [1..0 -> [slot : SlotsOfIds(T), score : Int]]
  BY DEF Ranked
<1> QED BY <1>1 DEF Ranked

LEMMA SignAnswers ==
  ASSUME IInv, hasSign, NEW q \in Queries, NEW n \in 0..MaxK,
         NEW mode \in {"Auto", "SignTwoStage"},
         NEW r \in SearchChecked(q, n, mode, DefaultOptions)
  PROVE  /\ r # Err /\ ScoresIds(r) # Err
         /\ ScoresEveryRow(mode) => AreBest(q, ScoresIds(r), LiveIds, n)
<1> DEFINE k == EffectiveK(n, mode, DefaultOptions)
<1>1. /\ DefaultOptions \in SearchOptions /\ DefaultOptions.max = NoMax
      /\ DefaultOptions.max # 0 /\ DefaultOptions.min # 0
  BY DEF DefaultOptions, SearchOptions, NoMax
<1>2. PICK T \in SUBSET LiveIds :
        /\ Ranked(q, r, SlotsOfIds(T), k)
        /\ k \in 0..MaxK
        /\ rows.len <= DefaultOptions.min =>
             /\ k = IF n <= rows.len THEN n ELSE rows.len
             /\ k > 0 => T = LiveIds
  <2>1. ~(DefaultOptions.max = 0 \/ (DefaultOptions.min = 0 /\ DefaultOptions.multiplier = 0))
    BY <1>1
  <2> HIDE DEF k
  <2> QED BY <2>1, <1>1, CheckedTwoStage DEF k
<1> HIDE DEF k
<1>3. r # Err /\ ScoresIds(r) # Err
  <2>1. k \in Nat
    BY <1>2
  <2>2. RankedIds(q, ScoresIds(r), T, k)
    BY <2>1, <1>2, RankedGivesIds
  <2>3. SlotsOfIds(T) \in SUBSET Int /\ T \in SUBSET Ids
    BY IdsAndSlots DEF Slots, LiveIds
  <2> QED BY <2>2, <2>3, <1>2, HitsAreNoError DEF Ranked, RankedIds
<1>4. ASSUME ScoresEveryRow(mode) PROVE AreBest(q, ScoresIds(r), LiveIds, n)
  <2>1. rows.len <= DefaultOptions.min
    BY <1>4 DEF ScoresEveryRow, UsesSign
  <2>2. k = (IF n <= rows.len THEN n ELSE rows.len) /\ (k > 0 => T = LiveIds)
    BY <2>1, <1>2
  <2>3. Cardinality(LiveIds) = rows.len /\ k \in Nat
    BY <1>2, AllSlots
  <2>4. Ranked(q, r, SlotsOfIds(LiveIds), k)
    <3>1. CASE k > 0
      BY <3>1, <2>2, <1>2
    <3>2. CASE k = 0
      BY <3>2, <1>2, NoHits
    <3> QED BY <3>1, <3>2, <2>3
  <2> QED BY <2>2, <2>3, <2>4, RankedAnswers
<1> QED BY <1>3, <1>4

LEMMA SearchAnswers == ASSUME IInv PROVE SearchFindsBest
<1> SUFFICES ASSUME NEW q \in Queries, NEW n \in 0..MaxK, NEW mode \in DenseSearchModes,
                    NEW hits \in SearchIds(SearchPanicking(q, n, mode, DefaultOptions))
             PROVE  hits # Err /\ (ScoresEveryRow(mode) => AreBest(q, hits, LiveIds, n))
  BY DEF SearchFindsBest
<1>1. PICK r \in SearchPanicking(q, n, mode, DefaultOptions) :
        hits = IF r = Err THEN Err ELSE ScoresIds(r)
  BY DEF SearchIds
<1>2. SUFFICES /\ r # Err /\ ScoresIds(r) # Err
               /\ ScoresEveryRow(mode) => AreBest(q, ScoresIds(r), LiveIds, n)
  BY <1>1
<1> DEFINE used == IF mode = "SignTwoStage" /\ ~hasSign /\ dim # Lazy
                   THEN "ExactRankQuant" ELSE mode
<1>3. r \in SearchChecked(q, n, used, DefaultOptions)
  BY <1>1 DEF SearchPanicking
<1>4. CASE dim = Lazy
  <2>1. r = <<>>
    BY <1>3, <1>4 DEF SearchChecked
  <2> QED BY <2>1, <1>4, LazyAnswers
<1>5. CASE dim # Lazy /\ ~UsesSign(used)
  <2>1. ~(used = "SignTwoStage" /\ ~hasSign)
    BY <1>5
  <2>2. r \in SearchAsymmetric(q, Min({n, rows.len}))
    <3> HIDE DEF used
    <3> QED BY <1>3, <1>5, <2>1 DEF SearchChecked
  <2> QED BY <2>2, ExactAnswers
<1>6. CASE dim # Lazy /\ UsesSign(used)
  <2>1. hasSign /\ used = mode /\ mode \in {"Auto", "SignTwoStage"}
    BY <1>6 DEF UsesSign, DenseSearchModes
  <2> QED BY <2>1, <1>3, SignAnswers
<1> QED BY <1>4, <1>5, <1>6

LEMMA TwoStageAnswers == ASSUME IInv PROVE TwoStageKeepsPromise
<1> SUFFICES ASSUME hasSign, NEW q \in Queries, NEW n \in 0..MaxK, NEW o \in TwoStage,
                    NEW hits \in SearchIds(SearchChecked(q, n, "SignTwoStage", o))
             PROVE  IF hits = Err THEN o.max = 0 \/ (o.min = 0 /\ o.multiplier = 0)
                    ELSE /\ Len(hits) = EffectiveK(n, "SignTwoStage", o)
                         /\ \A i \in DOMAIN hits : hits[i].score = ScoreOfId(q, hits[i].row_id)
                         /\ \A i \in DOMAIN hits,
                               id \in LiveIds \ {hits[j].row_id : j \in DOMAIN hits} :
                              ~(/\ ScoreOfId(q, id) > hits[i].score
                                /\ AgreementOfId(q, id) > AgreementOfId(q, hits[i].row_id))
  BY DEF TwoStageKeepsPromise
<1>1. PICK r \in SearchChecked(q, n, "SignTwoStage", o) :
        hits = IF r = Err THEN Err ELSE ScoresIds(r)
  BY DEF SearchIds
<1> DEFINE k == EffectiveK(n, "SignTwoStage", o)
<1>2. CASE r = Err /\ (o.max = 0 \/ (o.min = 0 /\ o.multiplier = 0))
  BY <1>1, <1>2
<1>3. ASSUME NEW T \in SUBSET LiveIds, Ranked(q, r, SlotsOfIds(T), k), k \in 0..MaxK,
             \A id \in LiveIds \ T : \A t \in T : AgreementOfId(q, id) <= AgreementOfId(q, t)
      PROVE  /\ hits # Err
             /\ Len(hits) = k
             /\ \A i \in DOMAIN hits : hits[i].score = ScoreOfId(q, hits[i].row_id)
             /\ \A i \in DOMAIN hits, id \in LiveIds \ {hits[j].row_id : j \in DOMAIN hits} :
                  ~(/\ ScoreOfId(q, id) > hits[i].score
                    /\ AgreementOfId(q, id) > AgreementOfId(q, hits[i].row_id))
  <2> HIDE DEF k
  <2>1. k \in Nat
    BY <1>3
  <2>2. RankedIds(q, ScoresIds(r), T, k)
    BY <2>1, <1>3, RankedGivesIds
  <2>3. SlotsOfIds(T) \in SUBSET Int /\ T \in SUBSET Ids
    BY IdsAndSlots DEF Slots, LiveIds
  <2>4. r # Err /\ ScoresIds(r) # Err
    BY <2>2, <2>3, <1>3, HitsAreNoError DEF Ranked, RankedIds
  <2>5. hits # Err /\ RankedIds(q, hits, T, k)
    BY <2>2, <2>4, <1>1
  <2>6. /\ hits \in [1..k -> [row_id : T, score : Int]]
        /\ \A i \in 1..k : hits[i].score = ScoreOfId(q, hits[i].row_id)
        /\ \A id \in T : (\A i \in 1..k : hits[i].row_id # id) =>
             \A i \in 1..k : ScoreOfId(q, id) <= hits[i].score
    BY <2>5 DEF RankedIds
  <2>7. DOMAIN hits = 1..k /\ Len(hits) = k
    BY <2>1, <2>6, LenOfFunction
  <2>8. ASSUME NEW i \in 1..k, NEW id \in LiveIds, \A j \in 1..k : hits[j].row_id # id,
               ScoreOfId(q, id) > hits[i].score,
               AgreementOfId(q, id) > AgreementOfId(q, hits[i].row_id)
        PROVE  FALSE
    <3>1. hits[i].row_id \in T /\ hits[i].score \in Int
      BY <2>6
    <3>2. ScoreOfId(q, id) \in Int /\ AgreementOfId(q, id) \in Int
          /\ AgreementOfId(q, hits[i].row_id) \in Int
      <4>1. \A x \in LiveIds : id_to_slot[x] \in Slots(rows.len)
        BY LiveFacts
      <4>2. \A s \in Slots(rows.len) : /\ RankScore[q][rows.at[s]] \in Int
                                       /\ SignScore[q][rows.at[s]] \in Int
        BY SearchScores DEF IInv, TypeOK, IsVec
      <4> QED BY <4>1, <4>2, <3>1 DEF ScoreOfId, AgreementOfId
    <3>3. CASE id \in T
      <4>1. ScoreOfId(q, id) <= hits[i].score
        BY <3>3, <2>6, <2>8
      <4> QED BY <4>1, <3>1, <3>2, <2>8
    <3>4. CASE id \notin T
      <4>1. AgreementOfId(q, id) <= AgreementOfId(q, hits[i].row_id)
        BY <3>1, <3>4, <1>3
      <4> QED BY <4>1, <3>2, <2>8
    <3> QED BY <3>3, <3>4
  <2>9. \A i \in 1..k, id \in LiveIds : (\A j \in 1..k : hits[j].row_id # id) =>
          ~(/\ ScoreOfId(q, id) > hits[i].score
            /\ AgreementOfId(q, id) > AgreementOfId(q, hits[i].row_id))
    BY <2>8
  <2> QED BY <2>5, <2>6, <2>7, <2>9
<1>4. o \in SearchOptions
  BY SearchBounds
<1>5. CASE \E T \in SUBSET LiveIds :
              /\ Ranked(q, r, SlotsOfIds(T), k) /\ k \in 0..MaxK
              /\ \A id \in LiveIds \ T : \A t \in T :
                   AgreementOfId(q, id) <= AgreementOfId(q, t)
  <2> HIDE DEF k
  <2>1. /\ hits # Err
        /\ Len(hits) = k
        /\ \A i \in DOMAIN hits : hits[i].score = ScoreOfId(q, hits[i].row_id)
        /\ \A i \in DOMAIN hits, id \in LiveIds \ {hits[j].row_id : j \in DOMAIN hits} :
             ~(/\ ScoreOfId(q, id) > hits[i].score
               /\ AgreementOfId(q, id) > AgreementOfId(q, hits[i].row_id))
    BY <1>3, <1>5
  <2> QED BY <2>1 DEF k
<1>6. \/ r = Err /\ (o.max = 0 \/ (o.min = 0 /\ o.multiplier = 0))
      \/ \E T \in SUBSET LiveIds :
           /\ Ranked(q, r, SlotsOfIds(T), k) /\ k \in 0..MaxK
           /\ \A id \in LiveIds \ T : \A t \in T :
                AgreementOfId(q, id) <= AgreementOfId(q, t)
  <2> HIDE DEF k
  <2> QED BY <1>4, CheckedTwoStage DEF k
<1> QED BY <1>2, <1>5, <1>6

-----------------------------------------------------------------------------
(* The records of the Python store                                         *)

\* Between two calls the handles of the recorded names are live and name them.
LEMMA HandlesOfNames ==
  ASSUME RInv, layer = "AdapterStore", NEW S \in SUBSET Recorded
  PROVE  /\ {string_to_u64[name] : name \in S} \in SUBSET LiveIds
         /\ \A name \in S : u64_to_string[string_to_u64[name]] = name
<1>1. \A name \in Recorded : /\ string_to_u64[name] \in Ids
                             /\ u64_to_string[string_to_u64[name]] = name
  BY DEF RInv, RecordTypeOK, RecordsAgree, Recorded
<1>2. \A name \in Recorded : id_to_slot[string_to_u64[name]] # NoSlot
  BY DEF RInv, RecordsAgree, Current
<1> QED BY <1>1, <1>2 DEF LiveIds

LEMMA RecordSearchAnswers == ASSUME RInv PROVE RecordSearchFindsBest
<1> SUFFICES ASSUME layer = "AdapterStore", dim # Lazy,
                    NEW q \in Queries, NEW n \in 1..MaxK, NEW S \in SUBSET Recorded \ {{}},
                    NEW hits \in SearchByVector(q, n, S)
             PROVE  /\ Len(hits) = Min({n, Cardinality(S)})
                    /\ \A i, j \in DOMAIN hits : hits[i].row_id = hits[j].row_id => i = j
                    /\ \A i \in DOMAIN hits :
                         /\ hits[i].row_id \in S
                         /\ hits[i].score = RankScore[q][VectorOfName(hits[i].row_id)]
                    /\ \A i \in DOMAIN hits : \A name \in S :
                         RankScore[q][VectorOfName(name)] > hits[i].score =>
                           \E j \in 1..(i - 1) : hits[j].row_id = name
  BY DEF RecordSearchFindsBest
<1> DEFINE T == {string_to_u64[name] : name \in S}
           G == SlotsOfIds(T)
           c == InOrder(G)
           k == Min({n, Len(c)})
<1>1. IInv /\ TypeOK
  BY DEF RInv, IInv
<1>2. T \in SUBSET LiveIds /\ \A name \in S : u64_to_string[string_to_u64[name]] = name
  BY HandlesOfNames
<1>3. /\ G \in SUBSET Slots(rows.len) /\ IsFiniteSet(T) /\ Cardinality(T) \in Nat
      /\ Cardinality(G) = Cardinality(T)
  <2> HIDE DEF T
  <2> QED BY <1>1, <1>2, IdsAndSlots
<1>4. Cardinality(S) = Cardinality(T)
  <2> DEFINE nameOf == [u \in T |-> u64_to_string[u]]
  <2>1. \A u \in T : nameOf[u] \in S /\ string_to_u64[nameOf[u]] = u
    BY <1>2
  <2>2. \A name \in S : string_to_u64[name] \in T /\ nameOf[string_to_u64[name]] = name
    BY <1>2
  <2>3. nameOf \in [T -> S]
    BY <2>1
  <2> HIDE DEF nameOf, T
  <2>4. nameOf \in Bijection(T, S)
    BY <2>1, <2>2, <2>3 DEF Bijection, Injection, IsInjective, Surjection
  <2>5. ExistsBijection(T, S)
    BY <2>4 DEF ExistsBijection
  <2> QED BY <2>5, <1>3, FS_Bijection
<1>5. {id_to_slot[string_to_u64[name]] : name \in S} = G
  BY DEF SlotsOfIds
<1>6. IsFiniteSet(G) /\ G \subseteq Int
  <2>1. rows.len - 1 \in Int
    BY <1>1 DEF TypeOK, IsVec
  <2>2. IsFiniteSet(Slots(rows.len)) /\ Slots(rows.len) \subseteq Int
    <3>1. IsFiniteSet(0..(rows.len - 1))
      BY <2>1, FS_Interval
    <3> QED BY <3>1 DEF Slots
  <2> HIDE DEF G
  <2> QED BY <1>3, <2>2, FS_Subset
<1>7. c \in [1..Cardinality(G) -> G] /\ Cardinality(G) \in Nat
  <2> HIDE DEF G
  <2> QED BY <1>6, InOrderLists
<1>8. Len(c) = Cardinality(G) /\ DOMAIN c = 1..Cardinality(G)
  <2> HIDE DEF c, G
  <2> QED BY <1>7, LenOfFunction
<1>9. k = Min({n, Cardinality(S)}) /\ k \in Nat /\ k <= Cardinality(G)
  <2> HIDE DEF c, G, T
  <2> QED BY <1>3, <1>4, <1>8, MinOfTwo
<1>10. PICK r \in MaskedSearch(q, n, G) :
         hits = [i \in DOMAIN r |-> [row_id |-> NameAt(r[i].slot), score |-> r[i].score]]
  <2> HIDE DEF G
  <2> QED BY <1>5 DEF SearchByVector
<1>11. r \in RankSubset(q, c, k)
  <2>1. ~\E i \in DOMAIN c : c[i] \notin Slots(rows.len)
    <3> HIDE DEF c, G
    <3> QED BY <1>3, <1>7, <1>8
  <2> QED BY <1>10, <2>1 DEF MaskedSearch, SearchWithCandidates
<1>12. Ranked(q, r, G, k)
  <2> HIDE DEF G, k, T
  <2> QED BY <1>1, <1>3, <1>9, <1>11, SlotsAreRanked
<1> HIDE DEF k, c
<1>13. /\ r \in [1..k -> [slot : G, score : Int]]
       /\ \A i \in 1..k : r[i].score = RankScore[q][rows.at[r[i].slot]]
       /\ \A i, j \in 1..k : r[i].slot = r[j].slot => i = j
       /\ \A i, j \in 1..k : i < j => r[i].score >= r[j].score
       /\ \A s \in G : (\A i \in 1..k : r[i].slot # s) =>
            \A i \in 1..k : RankScore[q][rows.at[s]] <= r[i].score
  BY <1>12 DEF Ranked
<1>14. \A name \in S : /\ id_to_slot[string_to_u64[name]] \in G
                       /\ NameAt(id_to_slot[string_to_u64[name]]) = name
  <2> SUFFICES ASSUME NEW name \in S
               PROVE  /\ id_to_slot[string_to_u64[name]] \in G
                      /\ NameAt(id_to_slot[string_to_u64[name]]) = name
    OBVIOUS
  <2>1. string_to_u64[name] \in LiveIds
    BY <1>2
  <2>2. slot_to_id.at[id_to_slot[string_to_u64[name]]] = string_to_u64[name]
    BY <2>1, <1>1, LiveFacts
  <2> QED BY <2>2, <1>2, <1>5 DEF NameAt
<1>15. \A s \in G : /\ NameAt(s) \in S /\ id_to_slot[string_to_u64[NameAt(s)]] = s
  BY <1>5, <1>14
<1> HIDE DEF G
<1>16. DOMAIN r = 1..k
  BY <1>13
<1>17. \A i \in 1..k : /\ hits[i].row_id = NameAt(r[i].slot) /\ hits[i].score = r[i].score
                       /\ r[i].slot \in G /\ r[i].score \in Int
                       /\ hits[i].row_id \in S
                       /\ id_to_slot[string_to_u64[hits[i].row_id]] = r[i].slot
  <2> SUFFICES ASSUME NEW i \in 1..k
               PROVE  /\ hits[i].row_id = NameAt(r[i].slot) /\ hits[i].score = r[i].score
                      /\ r[i].slot \in G /\ r[i].score \in Int
                      /\ hits[i].row_id \in S
                      /\ id_to_slot[string_to_u64[hits[i].row_id]] = r[i].slot
    OBVIOUS
  <2>1. hits[i] = [row_id |-> NameAt(r[i].slot), score |-> r[i].score]
    BY <1>10, <1>16
  <2>2. r[i].slot \in G /\ r[i].score \in Int
    BY <1>13
  <2>3. hits[i].row_id = NameAt(r[i].slot) /\ hits[i].score = r[i].score
    BY <2>1
  <2> QED BY <2>2, <2>3, <1>15
<1>18. DOMAIN hits = 1..k /\ Len(hits) = k
  <2>1. DOMAIN hits = 1..k /\ hits = [i \in 1..k |-> hits[i]]
    BY <1>10, <1>16
  <2> QED BY <2>1, <1>9, LenOfFunction
<1>19. \A i, j \in 1..k : hits[i].row_id = hits[j].row_id => i = j
  <2> SUFFICES ASSUME NEW i \in 1..k, NEW j \in 1..k, hits[i].row_id = hits[j].row_id
               PROVE  i = j
    OBVIOUS
  <2>1. /\ r[i].slot = id_to_slot[string_to_u64[hits[i].row_id]]
        /\ r[j].slot = id_to_slot[string_to_u64[hits[j].row_id]]
    BY <1>17
  <2>2. r[i].slot = r[j].slot
    BY <2>1
  <2> QED BY <2>2, <1>13
<1>20. \A i \in 1..k : hits[i].score = RankScore[q][VectorOfName(hits[i].row_id)]
  <2> SUFFICES ASSUME NEW i \in 1..k
               PROVE  hits[i].score = RankScore[q][VectorOfName(hits[i].row_id)]
    OBVIOUS
  <2>1. hits[i].score = RankScore[q][rows.at[r[i].slot]]
    BY <1>13, <1>17
  <2>2. id_to_slot[string_to_u64[hits[i].row_id]] = r[i].slot
    BY <1>17
  <2> QED BY <2>1, <2>2 DEF VectorOfName
<1>21. ASSUME NEW i \in 1..k, NEW name \in S, RankScore[q][VectorOfName(name)] > hits[i].score
       PROVE  \E j \in 1..(i - 1) : hits[j].row_id = name
  <2> DEFINE s == id_to_slot[string_to_u64[name]]
  <2>1. s \in G /\ NameAt(s) = name
    BY <1>14
  <2>2. RankScore[q][rows.at[s]] > r[i].score /\ r[i].score \in Int
    BY <1>17, <1>21 DEF VectorOfName
  <2>3. RankScore[q][rows.at[s]] \in Int
    <3> HIDE DEF s
    <3> QED BY <2>1, <1>1, <1>3, ScoreType
  <2> HIDE DEF s
  <2>4. ~(RankScore[q][rows.at[s]] <= r[i].score)
    BY <2>2, <2>3
  <2>5. PICK j \in 1..k : r[j].slot = s
    BY <2>1, <2>4, <1>13
  <2>6. hits[j].row_id = name
    BY <2>1, <2>5, <1>17
  <2>7. r[j].score = RankScore[q][rows.at[s]] /\ r[j].score \in Int
    BY <2>5, <1>13, <1>17
  <2>8. \A x, y \in 1..k : x < y => r[x].score >= r[y].score
    BY <1>13
  <2>9. ~(i < j)
    <3> SUFFICES ASSUME i < j PROVE FALSE
      OBVIOUS
    <3>1. r[i].score >= r[j].score
      BY <2>8
    <3> QED BY <3>1, <2>2, <2>3, <2>7
  <2>10. i # j
    BY <2>2, <2>3, <2>7
  <2>11. j \in 1..(i - 1)
    BY <2>9, <2>10
  <2> QED BY <2>6, <2>11
<1>22. \A i \in DOMAIN hits : \A name \in S :
         RankScore[q][VectorOfName(name)] > hits[i].score =>
           \E j \in 1..(i - 1) : hits[j].row_id = name
  BY <1>18, <1>21
<1> QED BY <1>9, <1>17, <1>18, <1>19, <1>20, <1>22

-----------------------------------------------------------------------------
\* After any sequence of appends, swap-removes, writes and loads of either
\* layer, a search of the whole index gives live IDs the scores of their own
\* vectors: the exact search, and a two-stage one that preselects every row,
\* returns the best k, a two-stage one as many as its plan reports and none that
\* a row it leaves out beats in score and in sign agreement.
THEOREM SearchesKeepPromise == RecordSpec => []SearchKeepsPromise
<1>1. IInv => SearchKeepsPromise
  BY SearchAnswers, TwoStageAnswers DEF SearchKeepsPromise
<1> QED BY <1>1, RecordsRunIdMap, Inductive, PTL

\* An allowlist of live IDs, in any order and with repeats, of their slots, or a
\* mask over these gives the best of exactly those IDs, alone or as one of a
\* batch whose allowlists differ in length; an unknown ID fails the search.
THEOREM AllowlistsFilter == RecordSpec => []FilteredSearchKeepsPromise
<1>1. IInv /\ RowsBounded => FilteredSearchKeepsPromise
  BY AllowlistAnswers, BatchesAnswer DEF FilteredSearchKeepsPromise
<1> QED BY <1>1, RecordsRunIdMap, Inductive, RowsStayBounded, PTL

\* A filtered search of the Python store returns the best k of the records its
\* filter matches, under their own names and with the scores of their current
\* vectors, although names reach vectors through two tables that upserts,
\* deletions and loads rebuild.
THEOREM RecordSearchesFindBest == RecordSpec => []RecordSearchFindsBest
<1>1. NInv => RecordSearchFindsBest
  BY RecordSearchAnswers DEF NInv
<1> QED BY <1>1, RecordInitNInv, RecordStepNInv, PTL DEF RecordSpec
=============================================================================
