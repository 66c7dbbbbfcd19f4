---------------------------- MODULE RecordSearch ----------------------------
(* AdapterStore.search_by_vector: a filtered search over the records of     *)
(* RecordMap through the masked search of OrdinalIndex.                     *)
EXTENDS RecordMap, DenseSearch

-----------------------------------------------------------------------------
(* search_by_vector with a filter that the records S match: a mask over     *)
(* their slots, and the string ID of each hit's handle.                     *)

\* PyOrdinalIndex.search: the slots of a mask, in order, are the candidates.
MaskedSearch(q, k, mask) == SearchWithCandidates(q, k, InOrder(mask))

\* Mutant: the handle of a slot is taken to be its position.
NameByPosition(slot) == u64_to_string[slot + 1]

NameAt(slot) == u64_to_string[slot_to_id.at[slot]]

SearchByVector(q, k, S) ==
  LET mask == {id_to_slot[string_to_u64[name]] : name \in S}
  IN {[i \in DOMAIN r |-> [row_id |-> NameAt(r[i].slot), score |-> r[i].score]] :
        r \in MaskedSearch(q, k, mask)}

\* A search between two calls returns the best k of the records its filter
\* matches, under their names, with the scores of their current vectors.
RecordSearchFindsBest ==
  (layer = "AdapterStore" /\ replaced = NoneReplaced /\ dim # Lazy) =>
    \A q \in Queries, k \in 1..MaxK : \A S \in SUBSET Recorded \ {{}} :
      \A hits \in SearchByVector(q, k, S) :
        /\ Len(hits) = Min({k, Cardinality(S)})
        /\ \A i, j \in DOMAIN hits : hits[i].row_id = hits[j].row_id => i = j
        /\ \A i \in DOMAIN hits : /\ hits[i].row_id \in S
                                  /\ hits[i].score = RankScore[q][VectorOfName(hits[i].row_id)]
        /\ \A i \in DOMAIN hits : \A name \in S :
             RankScore[q][VectorOfName(name)] > hits[i].score =>
               \E j \in 1..(i - 1) : hits[j].row_id = name
=============================================================================
