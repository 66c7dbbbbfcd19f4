-------------------------- MODULE RecordMapProofs --------------------------
(***************************************************************************)
(* Proofs about IdMapIndex and RecordMap for every set of IDs, names,      *)
(* vectors and dimensions and every bound.  The four invariants of the     *)
(* tables are inductive together: a removal finds its row through          *)
(* TablesAgree, the sidecar follows because it was equal before, and a     *)
(* load rests on what SavedLoads says of the bundle.  The Python layer     *)
(* runs IdMapIndex, so what is proved of its tables holds for the Python   *)
(* tables, and the records above them agree with the tables at every step  *)
(* of an upsert.                                                           *)
(***************************************************************************)
EXTENDS RecordMap, TLAPS


IInv == TypeOK /\ TablesAgree /\ SidecarAligned /\ SavedLoads

-----------------------------------------------------------------------------
(* Vec operations *)

\* Vec::extend_from_slice gives a vector of the same element type.
LEMMA ExtendIsVec ==
  ASSUME NEW S, NEW v, IsVec(v, S), NEW n \in Nat, NEW s \in [Slots(n) -> S]
  PROVE  /\ IsVec(Extend(v, n, s), S)
         /\ Extend(v, n, s).len = v.len + n
         /\ \A i \in Slots(v.len) : Extend(v, n, s).at[i] = v.at[i]
         /\ \A i \in Slots(n) : Extend(v, n, s).at[v.len + i] = s[i]
  BY DEF IsVec, Extend, Slots

\* Vec::swap_remove gives a vector of the same element type, one shorter.
LEMMA SwapRemoveIsVec ==
  ASSUME NEW S, NEW v, IsVec(v, S), NEW i \in Slots(v.len)
  PROVE  /\ IsVec(SwapRemove(v, i), S)
         /\ SwapRemove(v, i).len = v.len - 1
         /\ \A k \in Slots(v.len - 1) :
              SwapRemove(v, i).at[k] = IF k = i THEN v.at[v.len - 1] ELSE v.at[k]
  BY DEF IsVec, SwapRemove, Slots

\* The empty vector is a vector of any element type.
LEMMA EmptyIsVec == ASSUME NEW S PROVE IsVec(EmptyVec, S)
  BY DEF IsVec, EmptyVec, Slots

-----------------------------------------------------------------------------
(* The invariant *)

LEMMA InitIInv == Init => IInv
  <1> SUFFICES ASSUME Init PROVE IInv
    OBVIOUS
  <1>1. EmptyVec.len = 0 BY DEF EmptyVec
  <1>2. TypeOK
    BY EmptyIsVec DEF Init, TypeOK, NothingSaved, NewSign
  <1>3. TablesAgree
    BY <1>1 DEF Init, TablesAgree, Slots
  <1>4. SavedLoads
    BY <1>1 DEF Init, SavedLoads, NothingSaved
  <1>5. hasSign => dim \in SignDims
    BY DEF Init, NewSign
  <1>6. SidecarAligned
    BY <1>1, <1>5 DEF Init, SidecarAligned
  <1> QED BY <1>2, <1>3, <1>4, <1>6 DEF IInv

\* The rows of an accepted batch and the slots its IDs are registered at.
LEMMA AddFacts ==
  ASSUME IInv, NEW d \in Dims, NEW n \in 1..MaxBatch,
         NEW vectors \in [Slots(n) -> Vectors \cup BadVectors],
         NEW ids \in [Slots(n) -> Ids],
         AddWithIds(d, n, vectors, ids)
  PROVE  /\ n \in Nat \ {0} /\ d \in GoodDims /\ dim \in {Lazy, d}
         /\ vectors \in [Slots(n) -> Vectors]
         /\ \A i \in Slots(n) : id_to_slot[ids[i]] = NoSlot
         /\ \A i \in Slots(n) : id_to_slot'[ids[i]] = rows.len + i
         /\ \A id \in Ids : (\A i \in Slots(n) : ids[i] # id)
                              => id_to_slot'[id] = id_to_slot[id]
         /\ id_to_slot' \in [Ids -> Nat \cup {NoSlot}]
  <1>1. n \in Nat \ {0} /\ d \in GoodDims /\ dim \in {Lazy, d}
    BY IdMapBounds DEF AddWithIds, Add2dAccepts
  <1>2. vectors \in [Slots(n) -> Vectors]
    BY DEF AddWithIds, Add2dAccepts
  <1>3. \A i \in Slots(n) : id_to_slot[ids[i]] = NoSlot
    BY DEF AddWithIds, BatchIdsFree
  <1>4. id_to_slot' = Registered(n, ids) BY DEF AddWithIds
  <1>5. ASSUME NEW i \in Slots(n) PROVE id_to_slot'[ids[i]] = rows.len + i
    <2>1. (CHOOSE j \in Slots(n) : ids[j] = ids[i]) = i
      BY DEF AddWithIds, BatchIdsFree
    <2> QED BY <2>1, <1>4 DEF Registered
  <1>6. ASSUME NEW id \in Ids, \A i \in Slots(n) : ids[i] # id
        PROVE  id_to_slot'[id] = id_to_slot[id]
    BY <1>4, <1>6 DEF Registered
  <1>7. id_to_slot' \in [Ids -> Nat \cup {NoSlot}]
    <2>1. DOMAIN id_to_slot' = Ids /\ id_to_slot' = [id \in Ids |-> id_to_slot'[id]]
      BY <1>4 DEF Registered
    <2>2. ASSUME NEW id \in Ids PROVE id_to_slot'[id] \in Nat \cup {NoSlot}
      <3>1. rows.len \in Nat /\ id_to_slot[id] \in Nat \cup {NoSlot}
        BY DEF IInv, TypeOK, IsVec
      <3>2. CASE \E i \in Slots(n) : ids[i] = id
        BY <3>1, <3>2, <1>5, <1>1 DEF Slots
      <3>3. CASE \A i \in Slots(n) : ids[i] # id
        BY <3>1, <3>3, <1>6
      <3> QED BY <3>2, <3>3
    <2> QED BY <2>1, <2>2
  <1> QED BY <1>1, <1>2, <1>3, <1>5, <1>6, <1>7

LEMMA AddIInv ==
  ASSUME IInv, NEW d \in Dims, NEW n \in 1..MaxBatch,
         NEW vectors \in [Slots(n) -> Vectors \cup BadVectors],
         NEW ids \in [Slots(n) -> Ids],
         AddWithIds(d, n, vectors, ids)
  PROVE  IInv'
  <1>1. /\ n \in Nat \ {0} /\ d \in GoodDims /\ dim \in {Lazy, d}
        /\ vectors \in [Slots(n) -> Vectors]
        /\ \A i \in Slots(n) : id_to_slot[ids[i]] = NoSlot
        /\ \A i \in Slots(n) : id_to_slot'[ids[i]] = rows.len + i
        /\ \A id \in Ids : (\A i \in Slots(n) : ids[i] # id)
                             => id_to_slot'[id] = id_to_slot[id]
        /\ id_to_slot' \in [Ids -> Nat \cup {NoSlot}]
    BY AddFacts
  <1>2. /\ IsVec(rows', Vectors) /\ rows'.len = rows.len + n
        /\ IsVec(sign', Vectors)
    BY <1>1, ExtendIsVec DEF AddWithIds, Add2d, IInv, TypeOK
  <1>3. /\ IsVec(slot_to_id', Ids) /\ slot_to_id'.len = slot_to_id.len + n
        /\ \A i \in Slots(slot_to_id.len) : slot_to_id'.at[i] = slot_to_id.at[i]
        /\ \A i \in Slots(n) : slot_to_id'.at[slot_to_id.len + i] = ids[i]
    BY <1>1, ExtendIsVec DEF AddWithIds, IInv, TypeOK
  <1>4. dim' = d /\ hasSign' \in BOOLEAN /\ sign_policy' = sign_policy /\ saved' = saved
    BY DEF AddWithIds, Add2d, NewSign, IInv, TypeOK
  <1>5. TypeOK'
    BY <1>1, <1>2, <1>3, <1>4 DEF TypeOK, IInv
  <1>6. SavedLoads'
    BY <1>4 DEF SavedLoads, IInv, LoadAccepts
  <1>7. SidecarAligned'
    <2>1. d # Lazy
      BY <1>1, IdMapDims DEF Lazy
    <2>2. CASE dim = Lazy
      <3>1. rows.len = 0 /\ hasSign = FALSE /\ sign.len = 0
        <4>1. hasSign => dim \in SignDims BY DEF IInv, SidecarAligned
        <4>2. Lazy \notin SignDims BY IdMapDims DEF Lazy
        <4> QED BY <2>2, <4>1, <4>2 DEF IInv, SidecarAligned, TypeOK
      <3>2. hasSign' = NewSign(d) /\ (hasSign' => d \in SignDims)
        BY <2>2 DEF AddWithIds, Add2d, NewSign
      <3>3. hasSign' => sign' = rows'
        <4>1. Extend(sign, n, vectors) = Extend(rows, n, vectors)
          BY <3>1, <1>1 DEF Extend, Slots
        <4> QED BY <4>1 DEF AddWithIds, Add2d
      <3>4. ~hasSign' => sign' = sign
        BY DEF AddWithIds, Add2d
      <3> QED BY <3>1, <3>2, <3>3, <3>4, <2>1, <1>4 DEF SidecarAligned
    <2>3. CASE dim # Lazy
      <3>1. hasSign' = hasSign /\ dim = d
        BY <2>3, <1>1 DEF AddWithIds, Add2d
      <3>2. ASSUME hasSign PROVE sign' = rows'
        <4>1. sign = rows BY <3>2 DEF IInv, SidecarAligned
        <4>2. sign' = Extend(sign, n, vectors) BY <3>1, <3>2 DEF AddWithIds, Add2d
        <4>3. rows' = Extend(rows, n, vectors) BY DEF AddWithIds, Add2d
        <4> QED BY <4>1, <4>2, <4>3
      <3>3. ~hasSign => sign' = sign
        BY <3>1 DEF AddWithIds, Add2d
      <3> QED BY <3>1, <3>2, <3>3, <2>1, <1>4 DEF SidecarAligned, IInv
    <2> QED BY <2>2, <2>3
  <1>8. TablesAgree'
    <2>1. /\ slot_to_id.len = rows.len /\ rows.len \in Nat
          /\ \A i \in Slots(slot_to_id.len) : slot_to_id.at[i] \in Ids
                                              /\ id_to_slot[slot_to_id.at[i]] = i
          /\ \A id \in Ids : id_to_slot[id] # NoSlot =>
               id_to_slot[id] \in Slots(slot_to_id.len)
               /\ slot_to_id.at[id_to_slot[id]] = id
      BY DEF IInv, TablesAgree, TypeOK, IsVec
    <2>2. ASSUME NEW i \in Slots(slot_to_id'.len)
          PROVE  id_to_slot'[slot_to_id'.at[i]] = i
      <3>1. CASE i \in Slots(slot_to_id.len)
        <4>1. slot_to_id'.at[i] = slot_to_id.at[i] /\ slot_to_id.at[i] \in Ids
          BY <3>1, <1>3, <2>1
        <4>2. id_to_slot[slot_to_id.at[i]] = i /\ i # NoSlot
          BY <3>1, <2>1 DEF Slots, NoSlot
        <4>3. \A j \in Slots(n) : ids[j] # slot_to_id.at[i]
          BY <4>2, <1>1
        <4> QED BY <4>1, <4>2, <4>3, <1>1
      <3>2. CASE i \notin Slots(slot_to_id.len)
        <4>1. i - slot_to_id.len \in Slots(n)
              /\ i = slot_to_id.len + (i - slot_to_id.len)
          BY <3>2, <1>3, <1>1, <2>1 DEF Slots
        <4>2. slot_to_id'.at[i] = ids[i - slot_to_id.len]
          BY <4>1, <1>3
        <4> QED BY <4>1, <4>2, <1>1, <2>1
      <3> QED BY <3>1, <3>2
    <2>3. ASSUME NEW id \in Ids, id_to_slot'[id] # NoSlot
          PROVE  /\ id_to_slot'[id] \in Slots(slot_to_id'.len)
                 /\ slot_to_id'.at[id_to_slot'[id]] = id
      <3>1. CASE \E i \in Slots(n) : ids[i] = id
        <4>1. PICK i \in Slots(n) : ids[i] = id BY <3>1
        <4>2. id_to_slot'[id] = slot_to_id.len + i BY <4>1, <1>1, <2>1
        <4>3. slot_to_id.len + i \in Slots(slot_to_id.len + n)
          BY <2>1, <1>1 DEF Slots
        <4> QED BY <4>1, <4>2, <4>3, <1>3
      <3>2. CASE \A i \in Slots(n) : ids[i] # id
        <4>1. id_to_slot'[id] = id_to_slot[id] BY <3>2, <1>1
        <4>2. id_to_slot[id] \in Slots(slot_to_id.len)
              /\ slot_to_id.at[id_to_slot[id]] = id
          BY <4>1, <2>3, <2>1
        <4>3. id_to_slot[id] \in Slots(slot_to_id.len + n)
          BY <4>2, <2>1, <1>1 DEF Slots
        <4> QED BY <4>1, <4>2, <4>3, <1>3
      <3> QED BY <3>1, <3>2
    <2> QED BY <2>1, <2>2, <2>3, <1>2, <1>3 DEF TablesAgree
  <1> QED BY <1>5, <1>6, <1>7, <1>8 DEF IInv

\* A removal: the tail ID moves to the freed slot, nothing else moves.
LEMMA RemoveFacts ==
  ASSUME IInv, NEW id \in Ids, Remove(id)
  PROVE  /\ rows.len \in Nat \ {0} /\ slot_to_id.len = rows.len
         /\ id_to_slot[id] \in Slots(rows.len)
         /\ slot_to_id.at[id_to_slot[id]] = id
         /\ slot_to_id.at[rows.len - 1] \in Ids
         /\ id_to_slot[slot_to_id.at[rows.len - 1]] = rows.len - 1
         /\ id_to_slot' \in [Ids -> Nat \cup {NoSlot}]
         /\ id_to_slot'[id] = NoSlot
         /\ \A other \in Ids \ {id} :
              id_to_slot'[other] = IF other = slot_to_id.at[rows.len - 1]
                                   THEN id_to_slot[id] ELSE id_to_slot[other]
  <1>1. /\ slot_to_id.len = rows.len /\ rows.len \in Nat
        /\ id_to_slot[id] \in Slots(rows.len)
        /\ slot_to_id.at[id_to_slot[id]] = id
    BY DEF IInv, TablesAgree, TypeOK, IsVec, Remove
  <1>2. rows.len \in Nat \ {0} /\ rows.len - 1 \in Slots(rows.len)
    BY <1>1 DEF Slots
  <1>3. /\ slot_to_id.at[rows.len - 1] \in Ids
        /\ id_to_slot[slot_to_id.at[rows.len - 1]] = rows.len - 1
    BY <1>1, <1>2 DEF IInv, TablesAgree, TypeOK, IsVec
  <1>4. id_to_slot' = Relocated(id, id_to_slot[id])
    BY DEF Remove
  <1>5. id_to_slot' \in [Ids -> Nat \cup {NoSlot}]
    BY <1>1, <1>4 DEF Relocated, IInv, TypeOK, Slots
  <1>6. id_to_slot'[id] = NoSlot
    BY <1>1, <1>3, <1>4 DEF Relocated, Slots
  <1>7. ASSUME NEW other \in Ids \ {id}
        PROVE  id_to_slot'[other] = IF other = slot_to_id.at[rows.len - 1]
                                    THEN id_to_slot[id] ELSE id_to_slot[other]
    <2>1. CASE id_to_slot[id] < rows.len - 1
      BY <2>1, <1>1, <1>4 DEF Relocated
    <2>2. CASE id_to_slot[id] = rows.len - 1
      BY <2>2, <1>1, <1>4 DEF Relocated
    <2> QED BY <2>1, <2>2, <1>1 DEF Slots
  <1> QED BY <1>1, <1>2, <1>3, <1>5, <1>6, <1>7

LEMMA RemoveIInv ==
  ASSUME IInv, NEW id \in Ids, Remove(id)
  PROVE  IInv'
  <1> DEFINE slot == id_to_slot[id]
  <1> DEFINE last == rows.len - 1
  <1>1. /\ rows.len \in Nat \ {0} /\ slot_to_id.len = rows.len
        /\ slot \in Slots(rows.len)
        /\ slot_to_id.at[slot] = id
        /\ slot_to_id.at[last] \in Ids
        /\ id_to_slot[slot_to_id.at[last]] = last
        /\ id_to_slot' \in [Ids -> Nat \cup {NoSlot}]
        /\ id_to_slot'[id] = NoSlot
        /\ \A other \in Ids \ {id} :
              id_to_slot'[other] = IF other = slot_to_id.at[last]
                                   THEN slot ELSE id_to_slot[other]
    BY RemoveFacts
  <1>2. /\ rows' = SwapRemove(rows, slot)
        /\ sign' = IF hasSign THEN SwapRemove(sign, slot) ELSE sign
        /\ slot_to_id' = SwapRemove(slot_to_id, slot)
        /\ dim' = dim /\ hasSign' = hasSign /\ sign_policy' = sign_policy
        /\ saved' = saved
    BY DEF Remove, OrdinalSwapRemove
  <1> HIDE DEF slot
  <1>3. IsVec(rows', Vectors) /\ rows'.len = last
    BY <1>1, <1>2, SwapRemoveIsVec DEF IInv, TypeOK
  <1>4. IsVec(sign', Vectors)
    <2>1. CASE hasSign
      <3>1. sign = rows BY <2>1 DEF IInv, SidecarAligned
      <3>2. sign' = rows' BY <2>1, <3>1, <1>2
      <3> QED BY <3>2, <1>3
    <2>2. CASE ~hasSign
      BY <2>2, <1>2 DEF IInv, TypeOK
    <2> QED BY <2>1, <2>2
  <1>5. /\ IsVec(slot_to_id', Ids) /\ slot_to_id'.len = last
        /\ \A k \in Slots(last) :
             slot_to_id'.at[k] = IF k = slot THEN slot_to_id.at[last] ELSE slot_to_id.at[k]
    BY <1>1, <1>2, SwapRemoveIsVec DEF IInv, TypeOK
  <1>6. TypeOK'
    BY <1>1, <1>2, <1>3, <1>4, <1>5 DEF TypeOK, IInv
  <1>7. SavedLoads'
    BY <1>2 DEF SavedLoads, IInv, LoadAccepts
  <1>8. SidecarAligned'
    <2>1. hasSign => sign' = rows'
      <3>1. ASSUME hasSign PROVE sign' = rows'
        <4>1. sign = rows BY <3>1 DEF IInv, SidecarAligned
        <4> QED BY <4>1, <3>1, <1>2
      <3> QED BY <3>1
    <2>2. ~hasSign => sign' = sign BY <1>2
    <2>3. dim # Lazy BY <1>1 DEF IInv, SidecarAligned
    <2> QED BY <2>1, <2>2, <2>3, <1>2 DEF SidecarAligned, IInv
  <1>9. TablesAgree'
    <2>1. /\ \A i \in Slots(rows.len) : slot_to_id.at[i] \in Ids
                                         /\ id_to_slot[slot_to_id.at[i]] = i
          /\ \A other \in Ids : id_to_slot[other] # NoSlot =>
               id_to_slot[other] \in Slots(rows.len)
               /\ slot_to_id.at[id_to_slot[other]] = other
      BY <1>1 DEF IInv, TablesAgree, TypeOK, IsVec
    <2>2. last \in Slots(rows.len) /\ Slots(last) = Slots(rows.len) \ {last}
      BY <1>1 DEF Slots
    <2>3. ASSUME NEW k \in Slots(last) PROVE id_to_slot'[slot_to_id'.at[k]] = k
      <3>1. CASE k = slot
        <4>1. slot_to_id'.at[k] = slot_to_id.at[last] BY <3>1, <1>5
        <4>2. slot_to_id.at[last] # id BY <3>1, <1>1, <2>1, <2>2, <2>3
        <4> QED BY <4>1, <4>2, <3>1, <1>1
      <3>2. CASE k # slot
        <4>1. slot_to_id'.at[k] = slot_to_id.at[k] BY <3>2, <1>5
        <4>2. slot_to_id.at[k] \in Ids /\ id_to_slot[slot_to_id.at[k]] = k
          BY <2>1, <2>2
        <4>3. slot_to_id.at[k] # id BY <4>2, <3>2 DEF slot
        <4>4. slot_to_id.at[k] # slot_to_id.at[last]
          BY <4>2, <2>1, <2>2
        <4> QED BY <4>1, <4>2, <4>3, <4>4, <1>1
      <3> QED BY <3>1, <3>2
    <2>4. ASSUME NEW other \in Ids, id_to_slot'[other] # NoSlot
          PROVE  /\ id_to_slot'[other] \in Slots(last)
                 /\ slot_to_id'.at[id_to_slot'[other]] = other
      <3>1. other # id BY <2>4, <1>1
      <3>2. CASE other = slot_to_id.at[last]
        <4>1. id_to_slot'[other] = slot BY <3>1, <3>2, <1>1
        <4>2. slot # last BY <3>1, <3>2, <1>1
        <4>3. slot \in Slots(last) BY <4>2, <1>1, <2>2
        <4> QED BY <4>1, <4>3, <3>2, <1>5
      <3>3. CASE other # slot_to_id.at[last]
        <4>1. id_to_slot'[other] = id_to_slot[other] BY <3>1, <3>3, <1>1
        <4>2. id_to_slot[other] \in Slots(rows.len)
              /\ slot_to_id.at[id_to_slot[other]] = other
          BY <4>1, <2>4, <2>1
        <4>3. id_to_slot[other] # last /\ id_to_slot[other] # slot
          BY <4>2, <3>1, <3>3, <1>1
        <4> QED BY <4>1, <4>2, <4>3, <2>2, <1>5
      <3> QED BY <3>2, <3>3
    <2> QED BY <2>3, <2>4, <1>3, <1>5 DEF TablesAgree
  <1> QED BY <1>6, <1>7, <1>8, <1>9 DEF IInv

\* The reverse table a load builds from the ID sidecar.
LEMMA IndexedFacts ==
  ASSUME NEW ids, IsVec(ids, Ids),
         \A i, j \in Slots(ids.len) : ids.at[i] = ids.at[j] => i = j
  PROVE  /\ Indexed(ids) \in [Ids -> Nat \cup {NoSlot}]
         /\ \A i \in Slots(ids.len) : Indexed(ids)[ids.at[i]] = i
         /\ \A id \in Ids : Indexed(ids)[id] # NoSlot =>
              Indexed(ids)[id] \in Slots(ids.len) /\ ids.at[Indexed(ids)[id]] = id
  <1>1. ASSUME NEW id \in Ids, \E i \in Slots(ids.len) : ids.at[i] = id
        PROVE  Indexed(ids)[id] \in Slots(ids.len) /\ ids.at[Indexed(ids)[id]] = id
    BY <1>1 DEF Indexed
  <1>2. ASSUME NEW id \in Ids, ~ \E i \in Slots(ids.len) : ids.at[i] = id
        PROVE  Indexed(ids)[id] = NoSlot
    BY <1>2 DEF Indexed
  <1>3. ASSUME NEW i \in Slots(ids.len) PROVE Indexed(ids)[ids.at[i]] = i
    <2>1. ids.at[i] \in Ids BY DEF IsVec
    <2> QED BY <1>1, <2>1
  <1>4. Indexed(ids) \in [Ids -> Nat \cup {NoSlot}]
    <2>1. Slots(ids.len) \subseteq Nat BY DEF Slots, IsVec
    <2>2. \A id \in Ids : Indexed(ids)[id] \in Nat \cup {NoSlot} BY <1>1, <1>2, <2>1
    <2>3. Indexed(ids) = [id \in Ids |-> Indexed(ids)[id]] BY DEF Indexed
    <2> QED BY <2>2, <2>3
  <1> QED BY <1>1, <1>2, <1>3, <1>4

LEMMA LoadIInv ==
  ASSUME IInv, NEW policy, NEW d, Load(policy, d)
  PROVE  IInv'
  <1>1. /\ LoadAccepts(saved) /\ saved' = saved
        /\ dim' = saved.dim /\ rows' = saved.rows
        /\ hasSign' = saved.hasSign /\ sign' = saved.sign
        /\ sign_policy' = "Optional" /\ slot_to_id' = saved.ids
        /\ id_to_slot' = Indexed(saved.ids)
    BY DEF Load
  <1>2. IsVec(saved.ids, Ids) BY DEF IInv, TypeOK
  <1>3. /\ Indexed(saved.ids) \in [Ids -> Nat \cup {NoSlot}]
        /\ \A i \in Slots(saved.ids.len) : Indexed(saved.ids)[saved.ids.at[i]] = i
        /\ \A id \in Ids : Indexed(saved.ids)[id] # NoSlot =>
             Indexed(saved.ids)[id] \in Slots(saved.ids.len)
             /\ saved.ids.at[Indexed(saved.ids)[id]] = id
    BY <1>1, <1>2, IndexedFacts DEF LoadAccepts
  <1>4. TypeOK'
    BY <1>1, <1>3 DEF IInv, TypeOK, SignPolicies
  <1>5. TablesAgree'
    BY <1>1, <1>3 DEF TablesAgree, LoadAccepts
  <1>6. SidecarAligned'
    BY <1>1 DEF SidecarAligned, LoadAccepts, IInv, SavedLoads
  <1>7. SavedLoads'
    BY <1>1 DEF IInv, SavedLoads, LoadAccepts
  <1> QED BY <1>4, <1>5, <1>6, <1>7 DEF IInv

LEMMA WriteIInv == ASSUME IInv, Write PROVE IInv'
  <1>1. /\ dim # Lazy /\ dim' = dim /\ rows' = rows /\ hasSign' = hasSign
        /\ sign' = sign /\ sign_policy' = sign_policy
        /\ slot_to_id' = slot_to_id /\ id_to_slot' = id_to_slot
    BY DEF Write
  <1>2. /\ saved'.dim = dim /\ saved'.rows = rows /\ saved'.hasSign = hasSign
        /\ saved'.sign = sign /\ saved'.ids = slot_to_id
    BY DEF Write
  <1>3. TypeOK' BY <1>1, <1>2 DEF IInv, TypeOK
  <1>4. TablesAgree' /\ SidecarAligned'
    BY <1>1 DEF IInv, TablesAgree, SidecarAligned
  <1>5. SavedLoads'
    <2>1. \A i, j \in Slots(slot_to_id.len) :
            slot_to_id.at[i] = slot_to_id.at[j] => i = j
      BY DEF IInv, TablesAgree
    <2>2. slot_to_id.len = rows.len BY DEF IInv, TablesAgree
    <2>3. hasSign => dim \in SignDims /\ sign = rows BY DEF IInv, SidecarAligned
    <2>4. ~hasSign => sign.len = 0 BY DEF IInv, SidecarAligned
    <2>5. hasSign => sign.len = rows.len BY <2>3
    <2>6. LoadAccepts(saved') BY <1>1, <1>2, <2>1, <2>2, <2>3, <2>5 DEF LoadAccepts
    <2> QED BY <1>1, <1>2, <2>3, <2>4, <2>6 DEF SavedLoads, LoadAccepts
  <1> QED BY <1>3, <1>4, <1>5 DEF IInv

LEMMA StepIInv == IInv /\ [Next]_vars => IInv'
  <1> SUFFICES ASSUME IInv, [Next]_vars PROVE IInv'
    OBVIOUS
  <1>1. CASE \E d \in Dims, n \in 1..MaxBatch :
               \E vectors \in [Slots(n) -> Vectors \cup BadVectors],
                  ids \in [Slots(n) -> Ids] : AddWithIds(d, n, vectors, ids)
    BY <1>1, AddIInv
  <1>2. CASE \E id \in Ids : Remove(id)
    BY <1>2, RemoveIInv
  <1>3. CASE Write BY <1>3, WriteIInv
  <1>4. ASSUME NEW policy \in SignLoadPolicies, NEW d \in Dims \cup {Lazy}, Load(policy, d)
       PROVE  IInv'
    BY <1>4, LoadIInv
  <1>5. CASE UNCHANGED vars
    BY <1>5 DEF vars, IInv, TypeOK, TablesAgree, SidecarAligned, SavedLoads, LoadAccepts
  <1> QED BY <1>1, <1>2, <1>3, <1>4, <1>5 DEF Next

\* The invariants hold together in every reachable state.
THEOREM Inductive == Spec => []IInv
  BY InitIInv, StepIInv, PTL DEF Spec

\* In no state has the index more rows than the bound.
RowsBounded == rows.len \in 0..MaxRows /\ saved.rows.len \in 0..MaxRows

LEMMA RowsBoundedInit == Init => RowsBounded
BY IdMapBounds DEF Init, RowsBounded, NothingSaved, EmptyVec

LEMMA RowsBoundedStep == IInv /\ RowsBounded /\ [Next]_vars => RowsBounded'
<1> SUFFICES ASSUME IInv, RowsBounded, [Next]_vars PROVE RowsBounded'
  OBVIOUS
<1>1. ASSUME NEW d \in Dims, NEW n \in 1..MaxBatch,
             NEW vectors \in [Slots(n) -> Vectors \cup BadVectors],
             NEW ids \in [Slots(n) -> Ids], AddWithIds(d, n, vectors, ids)
      PROVE  RowsBounded'
  BY <1>1, IdMapBounds DEF AddWithIds, Add2d, Extend, RowsBounded
<1>2. ASSUME NEW id \in Ids, Remove(id)
      PROVE  RowsBounded'
  <2>1. id_to_slot[id] \in Slots(rows.len)
    BY <1>2 DEF Remove, IInv, TablesAgree
  <2>2. rows'.len = rows.len - 1 /\ saved' = saved
    BY <1>2 DEF Remove, OrdinalSwapRemove, SwapRemove
  <2> QED BY <2>1, <2>2, IdMapBounds DEF RowsBounded, Slots
<1>3. CASE Write
  BY <1>3 DEF Write, RowsBounded
<1>4. ASSUME NEW policy \in SignLoadPolicies, NEW d \in Dims \cup {Lazy}, Load(policy, d)
      PROVE  RowsBounded'
  BY <1>4 DEF Load, RowsBounded
<1>5. CASE UNCHANGED vars
  BY <1>5 DEF vars, RowsBounded
<1> QED BY <1>1, <1>2, <1>3, <1>4, <1>5 DEF Next

\* No sequence of adds, removals, writes and loads exceeds the bound on rows.
LEMMA RowsStayBounded == Spec => []RowsBounded
BY Inductive, RowsBoundedInit, RowsBoundedStep, PTL DEF Spec

\* Every table has its type after any sequence of calls.
THEOREM IdMapTypeCorrect == Spec => []TypeOK
  BY Inductive, PTL DEF IInv

\* slot_to_id and id_to_slot stay inverse to each other and dense.
THEOREM IdMapTablesAgree == Spec => []TablesAgree
  BY Inductive, PTL DEF IInv

\* The sign sidecar keeps the row of every slot.
THEOREM IdMapSidecarAligned == Spec => []SidecarAligned
  BY Inductive, PTL DEF IInv

\* from_loaded_parts accepts every bundle write produced.
THEOREM IdMapSavedLoads == Spec => []SavedLoads
  BY Inductive, PTL DEF IInv

-----------------------------------------------------------------------------
(* IdMapIndex implements KeyedVectors.  The table of the abstract           *)
(* specification is what id_to_slot and rows give together.                 *)

Table == [id \in Ids |-> VectorOf(rows, id_to_slot, id)]
Stored == [id \in Ids |-> VectorOf(saved.rows, Indexed(saved.ids), id)]

LEMMA InitPromise == Init => Promise!Init
  <1> SUFFICES ASSUME Init PROVE Promise!Init
    OBVIOUS
  <1>1. \A id \in Ids : VectorOf(rows, id_to_slot, id) = NoVector
    BY DEF Init, VectorOf
  <1>2. \A id \in Ids : Indexed(saved.ids)[id] = NoSlot
    BY DEF Init, NothingSaved, EmptyVec, Indexed, Slots
  <1>3. \A id \in Ids : VectorOf(saved.rows, Indexed(saved.ids), id) = NoVector
    BY <1>2 DEF VectorOf
  <1> QED BY <1>1, <1>3 DEF Promise!Init, Promise!Empty

\* An accepted batch enters under exactly its IDs.
LEMMA AddTable ==
  ASSUME IInv, NEW d \in Dims, NEW n \in 1..MaxBatch,
         NEW vectors \in [Slots(n) -> Vectors \cup BadVectors],
         NEW ids \in [Slots(n) -> Ids],
         AddWithIds(d, n, vectors, ids)
  PROVE  /\ vectors \in [Slots(n) -> Vectors]
         /\ \A i \in Slots(n) : Table[ids[i]] = NoVector /\ Table'[ids[i]] = vectors[i]
         /\ \A id \in Ids : (\A i \in Slots(n) : ids[i] # id) => Table'[id] = Table[id]
         /\ Stored' = Stored
  <1>1. /\ n \in Nat \ {0}
        /\ vectors \in [Slots(n) -> Vectors]
        /\ \A i \in Slots(n) : id_to_slot[ids[i]] = NoSlot
        /\ \A i \in Slots(n) : id_to_slot'[ids[i]] = rows.len + i
        /\ \A id \in Ids : (\A i \in Slots(n) : ids[i] # id)
                             => id_to_slot'[id] = id_to_slot[id]
    BY AddFacts
  <1>2. /\ rows' = Extend(rows, n, vectors) /\ saved' = saved
        /\ IsVec(rows, Vectors) /\ rows.len \in Nat
    BY DEF AddWithIds, Add2d, IInv, TypeOK, IsVec
  <1>3. /\ \A i \in Slots(rows.len) : rows'.at[i] = rows.at[i]
        /\ \A i \in Slots(n) : rows'.at[rows.len + i] = vectors[i]
    BY <1>1, <1>2, ExtendIsVec
  <1>4. ASSUME NEW i \in Slots(n)
        PROVE  Table[ids[i]] = NoVector /\ Table'[ids[i]] = vectors[i]
    <2>1. id_to_slot[ids[i]] = NoSlot /\ id_to_slot'[ids[i]] = rows.len + i
      BY <1>1
    <2>2. rows.len + i # NoSlot BY <1>1, <1>2 DEF Slots, NoSlot
    <2> QED BY <2>1, <2>2, <1>3 DEF VectorOf, Table
  <1>5. ASSUME NEW id \in Ids, \A i \in Slots(n) : ids[i] # id
        PROVE  Table'[id] = Table[id]
    <2>1. id_to_slot'[id] = id_to_slot[id] BY <1>5, <1>1
    <2>2. id_to_slot[id] # NoSlot => id_to_slot[id] \in Slots(rows.len)
      BY DEF IInv, TablesAgree
    <2> QED BY <2>1, <2>2, <1>3 DEF VectorOf, Table
  <1>6. Stored' = Stored BY <1>2 DEF Stored
  <1> QED BY <1>1, <1>4, <1>5, <1>6

\* An accepted batch is a Put of exactly its IDs.
LEMMA AddIsPut ==
  ASSUME IInv, NEW d \in Dims, NEW n \in 1..MaxBatch,
         NEW vectors \in [Slots(n) -> Vectors \cup BadVectors],
         NEW ids \in [Slots(n) -> Ids],
         AddWithIds(d, n, vectors, ids)
  PROVE  \E batch \in Promise!Tables : Promise!Put(batch)
  <1> DEFINE InBatch(id) == \E i \in Slots(n) : ids[i] = id
  <1> DEFINE at(id) == CHOOSE i \in Slots(n) : ids[i] = id
  <1> DEFINE batch == [id \in Ids |-> IF InBatch(id) THEN vectors[at(id)] ELSE NoVector]
  <1>1. /\ vectors \in [Slots(n) -> Vectors]
        /\ \A i \in Slots(n) : Table[ids[i]] = NoVector /\ Table'[ids[i]] = vectors[i]
        /\ \A id \in Ids : (\A i \in Slots(n) : ids[i] # id) => Table'[id] = Table[id]
        /\ Stored' = Stored
    BY AddTable
  <1>2. \A id \in Ids : InBatch(id) => at(id) \in Slots(n) /\ ids[at(id)] = id
    OBVIOUS
  <1>3. \A id \in Ids : batch[id] = IF InBatch(id) THEN vectors[at(id)] ELSE NoVector
    OBVIOUS
  <1>4. NoVector \notin Vectors BY IdMapVectors
  <1> HIDE DEF at
  <1>5. batch \in Promise!Tables
    BY <1>1, <1>2 DEF Promise!Tables
  <1> HIDE DEF batch
  <1>6. \A id \in Ids : (batch[id] # NoVector) <=> InBatch(id)
    BY <1>1, <1>2, <1>3, <1>4
  <1>7. \A id \in Ids : batch[id] # NoVector => Table[id] = NoVector
    BY <1>1, <1>6
  <1>8. Table' = [id \in Ids |-> IF batch[id] # NoVector THEN batch[id] ELSE Table[id]]
    <2>1. \A id \in Ids : Table'[id] = IF batch[id] # NoVector THEN batch[id] ELSE Table[id]
      BY <1>1, <1>2, <1>3, <1>6
    <2> QED BY <2>1 DEF Table
  <1>9. Promise!Put(batch) BY <1>1, <1>7, <1>8 DEF Promise!Put, Table, Stored
  <1> QED BY <1>5, <1>9

\* A removal is a Drop: every other ID keeps its vector though one row moves.
LEMMA RemoveIsDrop ==
  ASSUME IInv, NEW id \in Ids, Remove(id)
  PROVE  Promise!Drop(id)
  <1> DEFINE slot == id_to_slot[id]
  <1> DEFINE last == rows.len - 1
  <1>1. /\ rows.len \in Nat \ {0} /\ slot_to_id.len = rows.len
        /\ slot \in Slots(rows.len)
        /\ slot_to_id.at[slot] = id
        /\ slot_to_id.at[last] \in Ids
        /\ id_to_slot[slot_to_id.at[last]] = last
        /\ id_to_slot'[id] = NoSlot
        /\ \A other \in Ids \ {id} :
              id_to_slot'[other] = IF other = slot_to_id.at[last]
                                   THEN slot ELSE id_to_slot[other]
    BY RemoveFacts
  <1>2. rows' = SwapRemove(rows, slot) /\ saved' = saved
    BY DEF Remove, OrdinalSwapRemove
  <1>3. \A k \in Slots(last) :
          rows'.at[k] = IF k = slot THEN rows.at[last] ELSE rows.at[k]
    BY <1>1, <1>2, SwapRemoveIsVec DEF IInv, TypeOK
  <1>4. \A other \in Ids : id_to_slot[other] # NoSlot =>
          id_to_slot[other] \in Slots(rows.len) /\ slot_to_id.at[id_to_slot[other]] = other
    BY <1>1 DEF IInv, TablesAgree
  <1>5. Slots(last) = Slots(rows.len) \ {last} /\ NoSlot \notin Slots(rows.len)
    BY <1>1 DEF Slots, NoSlot
  <1> HIDE DEF slot, last
  <1>6. VectorOf(rows', id_to_slot', id) = NoVector
    BY <1>1 DEF VectorOf
  <1>7. ASSUME NEW other \in Ids \ {id}
        PROVE  VectorOf(rows', id_to_slot', other) = VectorOf(rows, id_to_slot, other)
    <2>1. CASE other = slot_to_id.at[last]
      <3>1. id_to_slot'[other] = slot /\ id_to_slot[other] = last BY <2>1, <1>1
      <3>2. slot # last BY <2>1, <1>1, <1>7
      <3>3. slot \in Slots(last) /\ slot # NoSlot /\ last # NoSlot
        BY <3>2, <1>1, <1>5 DEF last, NoSlot
      <3>4. rows'.at[slot] = rows.at[last] BY <3>3, <1>3
      <3> QED BY <3>1, <3>3, <3>4 DEF VectorOf
    <2>2. CASE other # slot_to_id.at[last]
      <3>1. id_to_slot'[other] = id_to_slot[other] BY <2>2, <1>1
      <3>2. CASE id_to_slot[other] = NoSlot BY <3>1, <3>2 DEF VectorOf
      <3>3. CASE id_to_slot[other] # NoSlot
        <4>1. /\ id_to_slot[other] \in Slots(rows.len)
              /\ slot_to_id.at[id_to_slot[other]] = other
          BY <3>3, <1>4
        <4>2. id_to_slot[other] # last /\ id_to_slot[other] # slot
          BY <4>1, <2>2, <1>1, <1>7
        <4>3. rows'.at[id_to_slot[other]] = rows.at[id_to_slot[other]]
          BY <4>1, <4>2, <1>3, <1>5
        <4> QED BY <3>1, <4>3 DEF VectorOf
      <3> QED BY <3>2, <3>3
    <2> QED BY <2>1, <2>2
  <1>8. Table' = [Table EXCEPT ![id] = NoVector]
    BY <1>6, <1>7 DEF Table
  <1>9. Stored' = Stored BY <1>2 DEF Stored
  <1> QED BY <1>8, <1>9 DEF Promise!Drop, Table, Stored

\* The reverse table a load would build is the one in memory.
LEMMA WriteIsSave == ASSUME IInv, Write PROVE Promise!Save
  <1>1. rows' = rows /\ id_to_slot' = id_to_slot /\ saved'.rows = rows
        /\ saved'.ids = slot_to_id
    BY DEF Write
  <1>2. /\ IsVec(slot_to_id, Ids)
        /\ \A i \in Slots(slot_to_id.len) : id_to_slot[slot_to_id.at[i]] = i
        /\ \A id \in Ids : id_to_slot[id] # NoSlot =>
             id_to_slot[id] \in Slots(slot_to_id.len) /\ slot_to_id.at[id_to_slot[id]] = id
    BY DEF IInv, TypeOK, TablesAgree
  <1>3. NoSlot \notin Slots(slot_to_id.len) BY <1>2 DEF Slots, NoSlot, IsVec
  <1>4. /\ \A i \in Slots(slot_to_id.len) : Indexed(slot_to_id)[slot_to_id.at[i]] = i
        /\ \A id \in Ids : Indexed(slot_to_id)[id] # NoSlot =>
             Indexed(slot_to_id)[id] \in Slots(slot_to_id.len)
             /\ slot_to_id.at[Indexed(slot_to_id)[id]] = id
    <2>1. \A i, j \in Slots(slot_to_id.len) :
            slot_to_id.at[i] = slot_to_id.at[j] => i = j
      BY <1>2
    <2> QED BY <2>1, <1>2, IndexedFacts
  <1>5. ASSUME NEW id \in Ids PROVE Indexed(slot_to_id)[id] = id_to_slot[id]
    <2>1. CASE id_to_slot[id] # NoSlot
      BY <2>1, <1>2, <1>4
    <2>2. CASE Indexed(slot_to_id)[id] # NoSlot
      BY <2>2, <1>2, <1>4
    <2> QED BY <2>1, <2>2
  <1>6. \A id \in Ids : VectorOf(saved'.rows, Indexed(saved'.ids), id)
                        = VectorOf(rows, id_to_slot, id)
    BY <1>1, <1>5 DEF VectorOf
  <1>7. Stored' = Table BY <1>6 DEF Stored, Table
  <1>8. Table' = Table BY <1>1 DEF Table
  <1> QED BY <1>7, <1>8 DEF Promise!Save, Table, Stored

LEMMA LoadIsLoad ==
  ASSUME IInv, NEW policy, NEW d, Load(policy, d)
  PROVE  Promise!Load
  <1>1. rows' = saved.rows /\ id_to_slot' = Indexed(saved.ids) /\ saved' = saved
    BY DEF Load
  <1>2. Table' = Stored /\ Stored' = Stored BY <1>1 DEF Table, Stored
  <1> QED BY <1>2 DEF Promise!Load, Table, Stored

LEMMA StepPromise ==
  IInv /\ [Next]_vars => [Promise!Next]_<<Table, Stored>>
  <1> SUFFICES ASSUME IInv, [Next]_vars PROVE [Promise!Next]_<<Table, Stored>>
    OBVIOUS
  <1>1. CASE \E d \in Dims, n \in 1..MaxBatch :
               \E vectors \in [Slots(n) -> Vectors \cup BadVectors],
                  ids \in [Slots(n) -> Ids] : AddWithIds(d, n, vectors, ids)
    BY <1>1, AddIsPut DEF Promise!Next
  <1>2. CASE \E id \in Ids : Remove(id)
    BY <1>2, RemoveIsDrop DEF Promise!Next
  <1>3. CASE Write BY <1>3, WriteIsSave DEF Promise!Next
  <1>4. ASSUME NEW policy \in SignLoadPolicies, NEW d \in Dims \cup {Lazy}, Load(policy, d)
       PROVE  Promise!Next
    BY <1>4, LoadIsLoad DEF Promise!Next
  <1>5. CASE UNCHANGED vars
    BY <1>5 DEF vars, Table, Stored
  <1> QED BY <1>1, <1>2, <1>3, <1>4, <1>5 DEF Next

\* For any number of IDs, rows and calls, IdMapIndex is a table from IDs to
\* vectors: every surviving ID keeps its vector, and a load restores them.
THEOREM IdMapKeepsVectors == Spec => KeepsVectors
  <1>1. Spec => []IInv BY Inductive
  <1>2. Init => Promise!Init BY InitPromise
  <1>3. IInv /\ [Next]_vars => [Promise!Next]_<<Table, Stored>> BY StepPromise
  <1> QED BY <1>1, <1>2, <1>3, PTL DEF Spec, KeepsVectors, Promise!Spec, Table, Stored

-----------------------------------------------------------------------------
(* RecordMap: the records above the tables                                 *)

RecordTypeOK ==
  /\ layer \in {"IdMapIndex", "AdapterStore"}
  /\ string_to_u64 \in [Names -> Ids \cup {NoHandle}]
  /\ u64_to_string \in [Ids -> Names \cup {NoName}]
  /\ next_u64_id \in Nat
  /\ replaced \in [Slots(MaxBatch) -> Ids \cup {NoHandle}]
  /\ saved_records = [string_to_u64 |-> saved_records.string_to_u64,
                      next_u64_id |-> saved_records.next_u64_id]
  /\ saved_records.string_to_u64 \in [Names -> Ids \cup {NoHandle}]
  /\ saved_records.next_u64_id \in Nat

\* The id_map payload of a commit and the ID sidecar of its bundle agree.
SavedRecordsAgree ==
  layer = "AdapterStore" =>
    /\ \A name, other \in Names :
         /\ saved_records.string_to_u64[name] = saved_records.string_to_u64[other]
         /\ saved_records.string_to_u64[name] # NoHandle
         => name = other
    /\ \A u \in Ids : Indexed(saved.ids)[u] # NoSlot
                      <=> \E name \in Names : saved_records.string_to_u64[name] = u
    /\ \A u \in Ids : u >= saved_records.next_u64_id => Indexed(saved.ids)[u] = NoSlot

RInv == IInv /\ RecordTypeOK /\ RecordsAgree /\ SavedRecordsAgree

LEMMA HandlesArePositive == Ids \subseteq Nat /\ NoHandle \notin Ids
  BY RecordHandles DEF NoHandle

-----------------------------------------------------------------------------
(* What the steps below do to the handles in use *)

LEMMA UsedAfterAdd ==
  ASSUME IInv, NEW d \in Dims, NEW n \in 1..MaxBatch,
         NEW vectors \in [Slots(n) -> Vectors \cup BadVectors],
         NEW ids \in [Slots(n) -> Ids],
         AddWithIds(d, n, vectors, ids)
  PROVE  \A u \in Ids : id_to_slot'[u] # NoSlot
                        <=> id_to_slot[u] # NoSlot \/ \E i \in Slots(n) : ids[i] = u
<1>1. /\ n \in Nat \ {0}
      /\ \A i \in Slots(n) : id_to_slot'[ids[i]] = rows.len + i
      /\ \A id \in Ids : (\A i \in Slots(n) : ids[i] # id) => id_to_slot'[id] = id_to_slot[id]
  BY AddFacts
<1>2. rows.len \in Nat
  BY DEF IInv, TypeOK, IsVec
<1>3. \A i \in Slots(n) : rows.len + i # NoSlot
  BY <1>1, <1>2 DEF Slots, NoSlot
<1> QED BY <1>1, <1>3

LEMMA UsedAfterRemove ==
  ASSUME IInv, NEW id \in Ids, Remove(id)
  PROVE  /\ id_to_slot[id] # NoSlot
         /\ \A u \in Ids : id_to_slot'[u] # NoSlot <=> u # id /\ id_to_slot[u] # NoSlot
<1>1. /\ rows.len \in Nat \ {0}
      /\ id_to_slot[id] \in Slots(rows.len)
      /\ id_to_slot[slot_to_id.at[rows.len - 1]] = rows.len - 1
      /\ id_to_slot'[id] = NoSlot
      /\ \A other \in Ids \ {id} :
           id_to_slot'[other] = IF other = slot_to_id.at[rows.len - 1]
                                THEN id_to_slot[id] ELSE id_to_slot[other]
  BY RemoveFacts
<1>2. id_to_slot[id] # NoSlot /\ rows.len - 1 # NoSlot
  BY <1>1 DEF Slots, NoSlot
<1> QED BY <1>1, <1>2

\* A bundle read back has the handles it was written with.
LEMMA UsedWhenSaved ==
  ASSUME IInv
  PROVE  \A u \in Ids : Indexed(slot_to_id)[u] # NoSlot <=> id_to_slot[u] # NoSlot
<1>1. IsVec(slot_to_id, Ids)
  BY DEF IInv, TypeOK
<1>2. \A i, j \in Slots(slot_to_id.len) : slot_to_id.at[i] = slot_to_id.at[j] => i = j
  BY DEF IInv, TablesAgree
<1>3. /\ \A i \in Slots(slot_to_id.len) : Indexed(slot_to_id)[slot_to_id.at[i]] = i
      /\ \A id \in Ids : Indexed(slot_to_id)[id] # NoSlot =>
           /\ Indexed(slot_to_id)[id] \in Slots(slot_to_id.len)
           /\ slot_to_id.at[Indexed(slot_to_id)[id]] = id
  BY <1>1, <1>2, IndexedFacts
<1>4. \A i \in Slots(slot_to_id.len) : i # NoSlot
  BY <1>1 DEF IsVec, Slots, NoSlot
<1> QED BY <1>3, <1>4 DEF IInv, TablesAgree

-----------------------------------------------------------------------------
(* The Python layer runs IdMapIndex *)

LEMMA RecordStepIsStep ==
  ASSUME RecordTypeOK, [RecordNext]_allVars
  PROVE  [Next]_vars
<1>1. CASE IdMapStep
  BY <1>1 DEF IdMapStep
<1>2. ASSUME NEW d \in Dims, NEW n \in 1..MaxBatch, NEW upsert \in BOOLEAN,
             NEW vectors \in [Slots(n) -> Vectors \cup BadVectors],
             NEW names \in [Slots(n) -> Names], NEW u64s \in [Slots(n) -> Ids],
             AddRecords(d, n, vectors, names, upsert, u64s)
      PROVE  Next
  BY <1>2 DEF AddRecords, Next
<1>3. CASE RemoveReplaced
  <2>1. PICK i \in Slots(MaxBatch) : replaced[i] # NoHandle /\ RemoveHandle(replaced[i])
    BY <1>3 DEF RemoveReplaced
  <2>2. replaced[i] \in Ids
    BY <2>1 DEF RecordTypeOK
  <2> QED BY <2>1, <2>2 DEF RemoveHandle, Next
<1>4. ASSUME NEW name \in Names, DeleteRecord(name) PROVE Next
  <2>1. string_to_u64[name] \in Ids
    BY <1>4 DEF DeleteRecord, RecordTypeOK
  <2> QED BY <1>4, <2>1 DEF DeleteRecord, RemoveHandle, Next
<1>5. CASE SaveRecords
  BY <1>5 DEF SaveRecords, Next
<1>6. CASE LoadRecords
  BY <1>6 DEF LoadRecords, Next, SignLoadPolicies
<1>7. CASE UNCHANGED allVars
  BY <1>7 DEF allVars
<1> QED BY <1>1, <1>2, <1>3, <1>4, <1>5, <1>6, <1>7 DEF RecordNext

-----------------------------------------------------------------------------
(* The types *)

LEMMA RecordInitType == RecordInit => RecordTypeOK
  BY DEF RecordInit, RecordTypeOK, Unrecorded, NoneReplaced

LEMMA RecordStepType == RecordTypeOK /\ [RecordNext]_allVars => RecordTypeOK'
<1> SUFFICES ASSUME RecordTypeOK, [RecordNext]_allVars PROVE RecordTypeOK'
  OBVIOUS
<1>1. CASE IdMapStep
  BY <1>1 DEF IdMapStep, recordVars, RecordTypeOK
<1>2. ASSUME NEW d \in Dims, NEW n \in 1..MaxBatch, NEW upsert \in BOOLEAN,
             NEW vectors \in [Slots(n) -> Vectors \cup BadVectors],
             NEW names \in [Slots(n) -> Names], NEW u64s \in [Slots(n) -> Ids],
             AddRecords(d, n, vectors, names, upsert, u64s)
      PROVE  RecordTypeOK'
  <2>1. string_to_u64' \in [Names -> Ids \cup {NoHandle}]
    BY <1>2 DEF AddRecords, RecordTypeOK
  <2>2. u64_to_string' \in [Ids -> Names \cup {NoName}]
    BY <1>2 DEF AddRecords, RecordTypeOK
  <2>3. next_u64_id' \in Nat
    <3>1. n - 1 \in Slots(n)
      BY IdMapBounds DEF Slots
    <3>2. u64s[n - 1] \in Nat
      BY <3>1, HandlesArePositive
    <3>3. next_u64_id' = u64s[n - 1] + 1
      BY <1>2 DEF AddRecords
    <3> QED BY <3>2, <3>3
  <2>4. replaced' \in [Slots(MaxBatch) -> Ids \cup {NoHandle}]
    BY <1>2 DEF AddRecords, ReplacedHandles, RecordTypeOK
  <2> QED BY <1>2, <2>1, <2>2, <2>3, <2>4 DEF AddRecords, RecordTypeOK
<1>3. CASE RemoveReplaced
  BY <1>3 DEF RemoveReplaced, RemoveHandle, RecordTypeOK
<1>4. ASSUME NEW name \in Names, DeleteRecord(name) PROVE RecordTypeOK'
  BY <1>4 DEF DeleteRecord, RemoveHandle, RecordTypeOK
<1>5. CASE SaveRecords
  BY <1>5 DEF SaveRecords, RecordTypeOK
<1>6. CASE LoadRecords
  <2>1. u64_to_string' \in [Ids -> Names \cup {NoName}]
    BY <1>6 DEF LoadRecords
  <2>2. replaced' \in [Slots(MaxBatch) -> Ids \cup {NoHandle}]
    BY <1>6 DEF LoadRecords, NoneReplaced
  <2> QED BY <1>6, <2>1, <2>2 DEF LoadRecords, RecordTypeOK
<1>7. CASE UNCHANGED allVars
  BY <1>7 DEF allVars, recordVars, RecordTypeOK
<1> QED BY <1>1, <1>2, <1>3, <1>4, <1>5, <1>6, <1>7 DEF RecordNext

\* The Python layer implements IdMapIndex with the same tables: everything
\* proved of IdMapIndex holds of _slot_to_u64, _u64_to_slot and the index.
THEOREM RecordsRunIdMap == RecordSpec => Spec
<1>1. RecordInit => Init
  BY DEF RecordInit
<1>2. RecordTypeOK /\ [RecordNext]_allVars => [Next]_vars
  BY RecordStepIsStep
<1> QED BY <1>1, <1>2, RecordInitType, RecordStepType, PTL DEF RecordSpec, Spec

-----------------------------------------------------------------------------
(* The records agree *)

LEMMA RecordInitAgree == RecordInit => RecordsAgree /\ SavedRecordsAgree
<1> SUFFICES ASSUME RecordInit PROVE RecordsAgree /\ SavedRecordsAgree
  OBVIOUS
<1>1. \A u \in Ids : id_to_slot[u] = NoSlot /\ u64_to_string[u] = NoName
  BY DEF RecordInit, Init
<1>2. \A u \in Ids : Indexed(saved.ids)[u] = NoSlot
  BY DEF RecordInit, Init, NothingSaved, EmptyVec, Indexed, Slots
<1>3. Recorded = {} /\ Current = {} /\ Replacing = {}
  BY DEF RecordInit, Unrecorded, Recorded, Current, Replacing, NoneReplaced
<1>4. RecordsAgree
  BY <1>1, <1>3 DEF RecordsAgree, RecordInit, NoneReplaced
<1>5. SavedRecordsAgree
  BY <1>2, HandlesArePositive DEF SavedRecordsAgree, RecordInit, Unrecorded
<1> QED BY <1>4, <1>5

\* What holds of the handles when no upsert is under way.
LEMMA Settled ==
  ASSUME RInv, layer = "AdapterStore", replaced = NoneReplaced
  PROVE  /\ Replacing = {}
         /\ \A name \in Recorded : string_to_u64[name] \in Ids
         /\ \A name, other \in Recorded :
              string_to_u64[name] = string_to_u64[other] => name = other
         /\ \A u \in Ids : id_to_slot[u] # NoSlot
                           <=> \E name \in Names : string_to_u64[name] = u
         /\ \A u \in Ids : u64_to_string[u] # NoName
                           <=> \E name \in Names : string_to_u64[name] = u
<1>1. Replacing = {}
  BY DEF Replacing, NoneReplaced
<1>2. \A name \in Recorded : string_to_u64[name] \in Ids
  BY DEF RInv, RecordTypeOK, Recorded
<1>3. \A name, other \in Recorded : string_to_u64[name] = string_to_u64[other] => name = other
  BY DEF RInv, RecordsAgree
<1>4. \A u \in Ids : u \in Current <=> \E name \in Names : string_to_u64[name] = u
  BY HandlesArePositive DEF Current, Recorded
<1> QED BY <1>1, <1>2, <1>3, <1>4 DEF RInv, RecordsAgree

\* An upsert: the rows it replaces are those its names had, and its own
\* handles are new.
LEMMA AddRecordsAgree ==
  ASSUME RInv, NEW d \in Dims, NEW n \in 1..MaxBatch, NEW upsert \in BOOLEAN,
         NEW vectors \in [Slots(n) -> Vectors \cup BadVectors],
         NEW names \in [Slots(n) -> Names], NEW u64s \in [Slots(n) -> Ids],
         AddRecords(d, n, vectors, names, upsert, u64s)
  PROVE  RecordsAgree'
<1> DEFINE InBatch(name) == \E i \in Slots(n) : names[i] = name
<1>1. /\ Replacing = {}
      /\ \A name \in Recorded : string_to_u64[name] \in Ids
      /\ \A name, other \in Recorded :
           string_to_u64[name] = string_to_u64[other] => name = other
      /\ \A u \in Ids : id_to_slot[u] # NoSlot
                        <=> \E name \in Names : string_to_u64[name] = u
      /\ \A u \in Ids : u64_to_string[u] # NoName
                        <=> \E name \in Names : string_to_u64[name] = u
  BY Settled DEF AddRecords
<1>2. n \in Nat \ {0} /\ Slots(n) \subseteq Slots(MaxBatch) /\ n - 1 \in Slots(n)
      /\ Slots(n) \subseteq Nat
  BY IdMapBounds DEF Slots
<1>3. /\ \A i, j \in Slots(n) : names[i] = names[j] => i = j
      /\ \A i \in Slots(n) : u64s[i] >= next_u64_id /\ id_to_slot[u64s[i]] = NoSlot
      /\ \A i, j \in Slots(n) : i < j => u64s[i] < u64s[j]
  BY DEF AddRecords, BatchAccepted, Allocates
<1>4. \A i \in Slots(n) : u64s[i] \in Ids /\ u64s[i] \in Nat /\ u64s[i] # NoHandle
  BY HandlesArePositive
<1>5. \A i, j \in Slots(n) : u64s[i] = u64s[j] => i = j
  BY <1>2, <1>3, <1>4
<1>6. \A u \in Ids : id_to_slot'[u] # NoSlot
                     <=> id_to_slot[u] # NoSlot \/ \E i \in Slots(n) : u64s[i] = u
  BY UsedAfterAdd DEF AddRecords, RInv
<1>7. /\ \A i \in Slots(n) : string_to_u64'[names[i]] = u64s[i]
      /\ \A name \in Names : ~InBatch(name) => string_to_u64'[name] = string_to_u64[name]
  <2>1. string_to_u64' = [name \in Names |->
                            IF InBatch(name)
                            THEN u64s[CHOOSE i \in Slots(n) : names[i] = name]
                            ELSE string_to_u64[name]]
    BY DEF AddRecords
  <2>2. ASSUME NEW i \in Slots(n) PROVE string_to_u64'[names[i]] = u64s[i]
    <3>1. (CHOOSE j \in Slots(n) : names[j] = names[i]) = i
      BY <1>3
    <3> QED BY <2>1, <3>1
  <2> QED BY <2>1, <2>2
<1>8. /\ \A i \in Slots(n) : u64_to_string'[u64s[i]] = names[i]
      /\ \A u \in Ids : (\A i \in Slots(n) : u64s[i] # u) => u64_to_string'[u] = u64_to_string[u]
  <2>1. u64_to_string' = [u \in Ids |->
                            IF \E i \in Slots(n) : u64s[i] = u
                            THEN names[CHOOSE i \in Slots(n) : u64s[i] = u]
                            ELSE u64_to_string[u]]
    BY DEF AddRecords
  <2>2. ASSUME NEW i \in Slots(n) PROVE u64_to_string'[u64s[i]] = names[i]
    <3>1. (CHOOSE j \in Slots(n) : u64s[j] = u64s[i]) = i
      BY <1>5
    <3> QED BY <2>1, <3>1
  <2> QED BY <2>1, <2>2
<1>9. \A i \in Slots(MaxBatch) :
        replaced'[i] = IF i \in Slots(n) THEN string_to_u64[names[i]] ELSE NoHandle
  BY DEF AddRecords, ReplacedHandles
<1>10. \A u \in Ids : u \in Replacing' <=> \E i \in Slots(n) : string_to_u64[names[i]] = u
  BY <1>2, <1>9, HandlesArePositive DEF Replacing
<1>11. \A u \in Ids : u \in Current'
         <=> \/ \E i \in Slots(n) : u64s[i] = u
             \/ \E name \in Names : ~InBatch(name) /\ string_to_u64[name] = u
  <2>1. \A u \in Ids : u \in Current' <=> \E name \in Names : string_to_u64'[name] = u
    BY HandlesArePositive DEF Current, Recorded
  <2> QED BY <2>1, <1>7
<1>12. Current' \subseteq Ids /\ Replacing' \subseteq Ids
  <2>1. RecordTypeOK'
    BY RecordStepType DEF RInv, RecordNext
  <2> QED BY <2>1 DEF RecordTypeOK, Current, Recorded, Replacing
<1>13. \A u \in Ids : u \in Current' \/ u \in Replacing'
         <=> (\E name \in Names : string_to_u64[name] = u) \/ \E i \in Slots(n) : u64s[i] = u
  BY <1>10, <1>11
<1>14. \A name \in Recorded' : u64_to_string'[string_to_u64'[name]] = name
  <2>1. ASSUME NEW name \in Names, InBatch(name)
        PROVE  u64_to_string'[string_to_u64'[name]] = name
    BY <2>1, <1>7, <1>8
  <2>2. ASSUME NEW name \in Recorded', ~InBatch(name)
        PROVE  u64_to_string'[string_to_u64'[name]] = name
    <3>1. name \in Recorded /\ string_to_u64'[name] = string_to_u64[name]
      BY <2>2, <1>7 DEF Recorded
    <3>2. string_to_u64[name] \in Ids /\ id_to_slot[string_to_u64[name]] # NoSlot
      BY <3>1, <1>1 DEF Recorded
    <3>3. u64_to_string'[string_to_u64[name]] = u64_to_string[string_to_u64[name]]
      BY <3>2, <1>3, <1>8
    <3> QED BY <3>1, <3>3 DEF RInv, RecordsAgree, AddRecords
  <2> QED BY <2>1, <2>2 DEF Recorded
<1>15. {u \in Ids : id_to_slot'[u] # NoSlot} = Current' \cup Replacing'
  BY <1>1, <1>6, <1>12, <1>13
<1>16. {u \in Ids : u64_to_string'[u] # NoName} = Current' \cup Replacing'
  <2>1. \A u \in Ids : u64_to_string'[u] # NoName
          <=> (\E name \in Names : string_to_u64[name] = u) \/ \E i \in Slots(n) : u64s[i] = u
    BY <1>1, <1>8, RecordNames
  <2> QED BY <2>1, <1>12, <1>13
<1>17. Current' \cap Replacing' = {}
  <2> SUFFICES ASSUME NEW u \in Ids, u \in Current', u \in Replacing' PROVE FALSE
    BY <1>12
  <2>1. PICK i \in Slots(n) : string_to_u64[names[i]] = u
    BY <1>10
  <2>2. id_to_slot[u] # NoSlot
    BY <1>1, <2>1
  <2>3. PICK name \in Names : ~InBatch(name) /\ string_to_u64[name] = u
    BY <1>3, <1>11, <2>2
  <2>4. name \in Recorded /\ names[i] \in Recorded
    BY <2>1, <2>3, HandlesArePositive DEF Recorded
  <2> QED BY <1>1, <2>1, <2>3, <2>4
<1>18. \A i, j \in Slots(MaxBatch) :
         replaced'[i] = replaced'[j] /\ replaced'[i] # NoHandle => i = j
  <2> SUFFICES ASSUME NEW i \in Slots(MaxBatch), NEW j \in Slots(MaxBatch),
                      replaced'[i] = replaced'[j], replaced'[i] # NoHandle
               PROVE  i = j
    OBVIOUS
  <2>1. /\ i \in Slots(n) /\ j \in Slots(n)
        /\ string_to_u64[names[i]] = string_to_u64[names[j]]
        /\ string_to_u64[names[i]] # NoHandle
    BY <1>9
  <2>2. names[i] \in Recorded /\ names[j] \in Recorded
    BY <2>1 DEF Recorded
  <2> QED BY <1>1, <1>3, <2>1, <2>2
<1>19. \A u \in Ids : u >= next_u64_id' => id_to_slot'[u] = NoSlot
  <2> SUFFICES ASSUME NEW u \in Ids, u >= next_u64_id' PROVE id_to_slot'[u] = NoSlot
    OBVIOUS
  <2>1. next_u64_id' = u64s[n - 1] + 1 /\ next_u64_id \in Nat /\ u \in Nat
    BY HandlesArePositive DEF AddRecords, RInv, RecordTypeOK
  <2>2. \A i \in Slots(n) : u64s[i] <= u64s[n - 1]
    <3>1. \A i \in Slots(n) : i = n - 1 \/ i < n - 1
      BY <1>2 DEF Slots
    <3> QED BY <1>2, <1>3, <1>4, <3>1
  <2>3. \A i \in Slots(n) : u64s[i] # u
    BY <1>2, <1>4, <2>1, <2>2
  <2>4. u >= next_u64_id
    BY <1>2, <1>3, <1>4, <2>1
  <2>5. id_to_slot[u] = NoSlot
    BY <2>4 DEF RInv, RecordsAgree, AddRecords
  <2> QED BY <1>6, <2>3, <2>5
<1> QED BY <1>14, <1>15, <1>16, <1>17, <1>18, <1>19 DEF RecordsAgree

\* Removing the row of one handle takes it out of both tables and no other.
LEMMA RemoveHandleFacts ==
  ASSUME RInv, NEW h \in Ids, RemoveHandle(h)
  PROVE  /\ \A u \in Ids : id_to_slot'[u] # NoSlot <=> u # h /\ id_to_slot[u] # NoSlot
         /\ u64_to_string'[h] = NoName
         /\ \A u \in Ids \ {h} : u64_to_string'[u] = u64_to_string[u]
<1>1. \A u \in Ids : id_to_slot'[u] # NoSlot <=> u # h /\ id_to_slot[u] # NoSlot
  BY UsedAfterRemove DEF RemoveHandle, RInv
<1>2. u64_to_string' = [u64_to_string EXCEPT ![h] = NoName]
  BY DEF RemoveHandle
<1> QED BY <1>1, <1>2 DEF RInv, RecordTypeOK

LEMMA RemoveReplacedAgree == ASSUME RInv, RemoveReplaced PROVE RecordsAgree'
<1>1. PICK i \in Slots(MaxBatch) : /\ replaced[i] # NoHandle
                                   /\ RemoveHandle(replaced[i])
                                   /\ replaced' = [replaced EXCEPT ![i] = NoHandle]
  BY DEF RemoveReplaced
<1> DEFINE h == replaced[i]
<1>2. h \in Ids /\ h \in Replacing
  BY <1>1 DEF RInv, RecordTypeOK, Replacing
<1>3. /\ \A u \in Ids : id_to_slot'[u] # NoSlot <=> u # h /\ id_to_slot[u] # NoSlot
      /\ u64_to_string'[h] = NoName
      /\ \A u \in Ids \ {h} : u64_to_string'[u] = u64_to_string[u]
  BY <1>1, <1>2, RemoveHandleFacts
<1>4. layer = "AdapterStore" /\ RecordsAgree
  BY DEF RemoveReplaced, RInv
<1>5. Current' = Current /\ Recorded' = Recorded /\ next_u64_id' = next_u64_id
      /\ string_to_u64' = string_to_u64
  BY DEF RemoveReplaced, Current, Recorded
<1>6. /\ replaced'[i] = NoHandle
      /\ \A j \in Slots(MaxBatch) \ {i} : replaced'[j] = replaced[j]
  BY <1>1 DEF RInv, RecordTypeOK
<1>7. Replacing' = Replacing \ {h}
  BY <1>1, <1>4, <1>6 DEF Replacing, RecordsAgree
<1>8. h \notin Current
  BY <1>2, <1>4 DEF RecordsAgree
<1>9. \A name \in Recorded : string_to_u64[name] \in Current /\ string_to_u64[name] \in Ids
  BY DEF Current, Recorded, RInv, RecordTypeOK
<1>10. \A name \in Recorded' : u64_to_string'[string_to_u64'[name]] = name
  BY <1>3, <1>4, <1>5, <1>8, <1>9 DEF RecordsAgree
<1>11. {u \in Ids : u64_to_string'[u] # NoName} = Current' \cup Replacing'
  BY <1>3, <1>4, <1>5, <1>7, <1>8 DEF RecordsAgree
<1>12. {u \in Ids : id_to_slot'[u] # NoSlot} = Current' \cup Replacing'
  BY <1>3, <1>4, <1>5, <1>7, <1>8 DEF RecordsAgree
<1>13. Current' \cap Replacing' = {}
  BY <1>4, <1>5, <1>7 DEF RecordsAgree
<1>14. \A j, k \in Slots(MaxBatch) :
         replaced'[j] = replaced'[k] /\ replaced'[j] # NoHandle => j = k
  BY <1>4, <1>6 DEF RecordsAgree
<1>15. \A u \in Ids : u >= next_u64_id' => id_to_slot'[u] = NoSlot
  BY <1>3, <1>4, <1>5 DEF RecordsAgree
<1> QED BY <1>10, <1>11, <1>12, <1>13, <1>14, <1>15 DEF RecordsAgree

LEMMA DeleteRecordAgree == ASSUME RInv, NEW name \in Names, DeleteRecord(name)
                           PROVE  RecordsAgree'
<1> DEFINE h == string_to_u64[name]
<1>1. /\ Replacing = {}
      /\ \A other \in Recorded : string_to_u64[other] \in Ids
      /\ \A one, other \in Recorded : string_to_u64[one] = string_to_u64[other] => one = other
  BY Settled DEF DeleteRecord
<1>2. name \in Recorded /\ h \in Ids
  BY <1>1 DEF DeleteRecord, Recorded
<1>3. /\ \A u \in Ids : id_to_slot'[u] # NoSlot <=> u # h /\ id_to_slot[u] # NoSlot
      /\ u64_to_string'[h] = NoName
      /\ \A u \in Ids \ {h} : u64_to_string'[u] = u64_to_string[u]
  BY <1>2, RemoveHandleFacts DEF DeleteRecord
<1>4. layer = "AdapterStore" /\ RecordsAgree /\ replaced' = replaced
      /\ next_u64_id' = next_u64_id
  BY DEF DeleteRecord, RInv
<1>5. /\ string_to_u64'[name] = NoHandle
      /\ \A other \in Names \ {name} : string_to_u64'[other] = string_to_u64[other]
  BY DEF DeleteRecord, RInv, RecordTypeOK
<1>6. Recorded' = Recorded \ {name}
  BY <1>5 DEF Recorded
<1>7. Current' = Current \ {h} /\ Replacing' = {}
  <2>1. Replacing' = Replacing
    BY <1>4 DEF Replacing
  <2>2. Current' = {string_to_u64'[other] : other \in Recorded'}
    BY DEF Current
  <2>3. \A other \in Recorded' : /\ other \in Recorded /\ string_to_u64[other] # h
                                 /\ string_to_u64'[other] = string_to_u64[other]
    BY <1>1, <1>2, <1>5, <1>6 DEF Recorded
  <2>4. Current' \subseteq Current \ {h}
    BY <2>2, <2>3 DEF Current
  <2>5. Current \ {h} \subseteq Current'
    <3> SUFFICES ASSUME NEW other \in Recorded, string_to_u64[other] # h
                 PROVE  string_to_u64[other] \in Current'
      BY DEF Current
    <3>1. other \in Recorded' /\ string_to_u64'[other] = string_to_u64[other]
      BY <1>5, <1>6 DEF Recorded
    <3> QED BY <2>2, <3>1
  <2> QED BY <1>1, <2>1, <2>4, <2>5
<1>8. \A other \in Recorded' : u64_to_string'[string_to_u64'[other]] = other
  <2> SUFFICES ASSUME NEW other \in Recorded, other # name
               PROVE  u64_to_string'[string_to_u64'[other]] = other
    BY <1>6
  <2>1. string_to_u64'[other] = string_to_u64[other] /\ string_to_u64[other] \in Ids \ {h}
    BY <1>1, <1>2, <1>5 DEF Recorded
  <2> QED BY <2>1, <1>3, <1>4 DEF RecordsAgree
<1>9. {u \in Ids : u64_to_string'[u] # NoName} = Current' \cup Replacing'
  BY <1>1, <1>3, <1>4, <1>7 DEF RecordsAgree
<1>10. {u \in Ids : id_to_slot'[u] # NoSlot} = Current' \cup Replacing'
  BY <1>1, <1>3, <1>4, <1>7 DEF RecordsAgree
<1>11. \A j, k \in Slots(MaxBatch) :
         replaced'[j] = replaced'[k] /\ replaced'[j] # NoHandle => j = k
  BY <1>4 DEF RecordsAgree
<1>12. \A u \in Ids : u >= next_u64_id' => id_to_slot'[u] = NoSlot
  BY <1>3, <1>4 DEF RecordsAgree
<1> QED BY <1>7, <1>8, <1>9, <1>10, <1>11, <1>12 DEF RecordsAgree

LEMMA LoadRecordsAgree == ASSUME RInv, LoadRecords PROVE RecordsAgree'
<1> DEFINE s == saved_records.string_to_u64
<1>1. SavedRecordsAgree /\ layer = "AdapterStore" /\ layer' = layer
      /\ s \in [Names -> Ids \cup {NoHandle}]
  BY DEF LoadRecords, RInv, RecordTypeOK
<1>2. string_to_u64' = s /\ next_u64_id' = saved_records.next_u64_id
      /\ id_to_slot' = Indexed(saved.ids) /\ replaced' = NoneReplaced
  BY DEF LoadRecords, Load
<1>3. \A u \in Ids : u64_to_string'[u] = IF \E name \in Names : s[name] = u
                                         THEN CHOOSE name \in Names : s[name] = u ELSE NoName
  BY DEF LoadRecords
<1>4. Replacing' = {}
  BY <1>2 DEF Replacing, NoneReplaced
<1>5. \A u \in Ids : u \in Current' <=> \E name \in Names : s[name] = u
  BY <1>2, HandlesArePositive DEF Current, Recorded
<1>6. Current' \subseteq Ids
  BY <1>1, <1>2 DEF Current, Recorded
<1>7. \A name \in Recorded' : u64_to_string'[string_to_u64'[name]] = name
  <2> SUFFICES ASSUME NEW name \in Names, s[name] # NoHandle
               PROVE  u64_to_string'[s[name]] = name
    BY <1>2 DEF Recorded
  <2>1. s[name] \in Ids
    BY <1>1
  <2>2. (CHOOSE other \in Names : s[other] = s[name]) = name
    BY <1>1 DEF SavedRecordsAgree
  <2> QED BY <1>3, <2>1, <2>2
<1>8. {u \in Ids : u64_to_string'[u] # NoName} = Current' \cup Replacing'
  BY <1>3, <1>4, <1>5, <1>6, RecordNames
<1>9. {u \in Ids : id_to_slot'[u] # NoSlot} = Current' \cup Replacing'
  BY <1>1, <1>2, <1>4, <1>5, <1>6 DEF SavedRecordsAgree
<1>10. \A u \in Ids : u >= next_u64_id' => id_to_slot'[u] = NoSlot
  BY <1>1, <1>2 DEF SavedRecordsAgree
<1>11. \A j \in Slots(MaxBatch) : replaced'[j] = NoHandle
  BY <1>2 DEF NoneReplaced
<1> QED BY <1>4, <1>7, <1>8, <1>9, <1>10, <1>11 DEF RecordsAgree

\* A commit pairs the bundle with the names of its handles.
LEMMA SaveRecordsAgree == ASSUME RInv, SaveRecords PROVE SavedRecordsAgree'
<1>1. /\ \A name, other \in Recorded : string_to_u64[name] = string_to_u64[other] => name = other
      /\ \A u \in Ids : id_to_slot[u] # NoSlot <=> \E name \in Names : string_to_u64[name] = u
  BY Settled DEF SaveRecords
<1>2. \A u \in Ids : Indexed(slot_to_id)[u] # NoSlot <=> id_to_slot[u] # NoSlot
  BY UsedWhenSaved DEF RInv
<1>3. saved'.ids = slot_to_id /\ saved_records'.string_to_u64 = string_to_u64
      /\ saved_records'.next_u64_id = next_u64_id /\ layer = "AdapterStore"
  BY DEF SaveRecords, Write
<1>4. \A u \in Ids : u >= next_u64_id => id_to_slot[u] = NoSlot
  BY <1>3 DEF RInv, RecordsAgree
<1> QED BY <1>1, <1>2, <1>3, <1>4 DEF SavedRecordsAgree, Recorded

LEMMA RecordStepRInv == RInv /\ [RecordNext]_allVars => RInv'
<1> SUFFICES ASSUME RInv, [RecordNext]_allVars PROVE RInv'
  OBVIOUS
<1>1. IInv' /\ RecordTypeOK'
  BY RecordStepIsStep, RecordStepType, StepIInv DEF RInv
<1>2. CASE layer # "AdapterStore"
  <2>1. layer' = layer
    BY DEF RecordNext, allVars, IdMapStep, AddRecords, RemoveReplaced, DeleteRecord,
           SaveRecords, LoadRecords
  <2> QED BY <1>1, <1>2, <2>1 DEF RInv, RecordsAgree, SavedRecordsAgree
<1>3. CASE IdMapStep
  BY <1>2, <1>3 DEF IdMapStep
<1>4. ASSUME NEW d \in Dims, NEW n \in 1..MaxBatch, NEW upsert \in BOOLEAN,
             NEW vectors \in [Slots(n) -> Vectors \cup BadVectors],
             NEW names \in [Slots(n) -> Names], NEW u64s \in [Slots(n) -> Ids],
             AddRecords(d, n, vectors, names, upsert, u64s)
      PROVE  RecordsAgree' /\ SavedRecordsAgree'
  <2>1. SavedRecordsAgree'
    BY <1>4 DEF AddRecords, AddWithIds, RInv, SavedRecordsAgree
  <2> QED BY <1>4, <2>1, AddRecordsAgree
<1>5. CASE RemoveReplaced
  <2>1. SavedRecordsAgree'
    BY <1>5 DEF RemoveReplaced, RemoveHandle, Remove, RInv, SavedRecordsAgree
  <2> QED BY <1>1, <1>5, <2>1, RemoveReplacedAgree DEF RInv
<1>6. ASSUME NEW name \in Names, DeleteRecord(name)
      PROVE  RecordsAgree' /\ SavedRecordsAgree'
  <2>1. SavedRecordsAgree'
    BY <1>6 DEF DeleteRecord, RemoveHandle, Remove, RInv, SavedRecordsAgree
  <2> QED BY <1>6, <2>1, DeleteRecordAgree
<1>7. CASE SaveRecords
  <2>1. RecordsAgree'
    BY <1>7 DEF SaveRecords, Write, RInv, RecordsAgree, Recorded, Current, Replacing
  <2> QED BY <1>1, <1>7, <2>1, SaveRecordsAgree DEF RInv
<1>8. CASE LoadRecords
  <2>1. SavedRecordsAgree'
    BY <1>8 DEF LoadRecords, Load, RInv, SavedRecordsAgree
  <2> QED BY <1>1, <1>8, <2>1, LoadRecordsAgree DEF RInv
<1>9. CASE UNCHANGED allVars
  BY <1>1, <1>9 DEF allVars, recordVars, vars, RInv, RecordsAgree, SavedRecordsAgree,
                    Recorded, Current, Replacing
<1> QED BY <1>1, <1>3, <1>4, <1>5, <1>6, <1>7, <1>8, <1>9 DEF RecordNext, RInv

\* After any sequence of upserts, deletions, saves and loads, and at every step
\* of an upsert, the tables of the Python store describe one set of records.
THEOREM RecordsConsistent == RecordSpec => []RecordsAgree
<1>1. RecordInit => RInv
  <2>1. RecordInit => Init
    BY DEF RecordInit
  <2> QED BY <2>1, InitIInv, RecordInitType, RecordInitAgree DEF RInv
<1>2. RInv => RecordsAgree
  BY DEF RInv
<1> QED BY <1>1, <1>2, RecordStepRInv, PTL DEF RecordSpec

\* The sign sidecar of the index under a Python store keeps the row of every
\* slot through all upserts.
THEOREM RecordSidecarAligned == RecordSpec => []SidecarAligned
  BY RecordsRunIdMap, IdMapSidecarAligned, PTL

-----------------------------------------------------------------------------
(* The records implement KeyedRecords.  What a name stands for is what the  *)
(* table of IdMapIndex (Table, Stored) has under the handle of the name.    *)

NameTable == [name \in Names |->
                IF string_to_u64[name] = NoHandle THEN NoVector ELSE VectorOfName(name)]
NameStored == [name \in Names |->
                 IF saved_records.string_to_u64[name] = NoHandle THEN NoVector
                 ELSE saved.rows.at[Indexed(saved.ids)[saved_records.string_to_u64[name]]]]
Busy == replaced # NoneReplaced

\* While the layer is IdMapIndex there are no names.
RustLayerOK ==
  layer = "IdMapIndex" =>
    /\ string_to_u64 = Unrecorded /\ saved_records.string_to_u64 = Unrecorded
    /\ replaced = NoneReplaced

NInv == RInv /\ RustLayerOK

LEMMA RecordInitNInv == RecordInit => NInv
<1>1. RecordInit => Init /\ RustLayerOK
  BY DEF RecordInit, RustLayerOK
<1> QED BY <1>1, InitIInv, RecordInitType, RecordInitAgree DEF NInv, RInv

LEMMA RecordStepNInv == NInv /\ [RecordNext]_allVars => NInv'
<1> SUFFICES ASSUME NInv, [RecordNext]_allVars PROVE NInv'
  OBVIOUS
<1>1. RInv'
  BY RecordStepRInv DEF NInv
<1>2. ASSUME layer = "IdMapIndex" PROVE RustLayerOK'
  BY <1>2 DEF NInv, RustLayerOK, RecordNext, allVars, recordVars, IdMapStep, AddRecords,
              RemoveReplaced, DeleteRecord, SaveRecords, LoadRecords
<1>3. ASSUME layer # "IdMapIndex" PROVE RustLayerOK'
  BY <1>3 DEF RustLayerOK, RecordNext, allVars, IdMapStep, AddRecords, RemoveReplaced,
              DeleteRecord, SaveRecords, LoadRecords
<1>4. RustLayerOK'
  BY <1>2, <1>3
<1> QED BY <1>1, <1>4 DEF NInv

\* A name reads the table of IdMapIndex, a saved name the saved one.
NamesRead ==
  \A name \in Names :
    /\ string_to_u64[name] \in Ids \cup {NoHandle}
    /\ NameTable[name] = IF string_to_u64[name] = NoHandle THEN NoVector
                         ELSE Table[string_to_u64[name]]
SavedNamesRead ==
  \A name \in Names :
    /\ saved_records.string_to_u64[name] \in Ids \cup {NoHandle}
    /\ NameStored[name] = IF saved_records.string_to_u64[name] = NoHandle THEN NoVector
                          ELSE Stored[saved_records.string_to_u64[name]]

\* Every recorded handle has a row.
LEMMA NamesReadTable == NInv => NamesRead
<1> SUFFICES ASSUME NInv, NEW name \in Names, string_to_u64[name] # NoHandle
             PROVE  NameTable[name] = Table[string_to_u64[name]]
  BY DEF NInv, RInv, RecordTypeOK, NameTable, NamesRead
<1>1. layer = "AdapterStore" /\ RecordsAgree
  BY DEF NInv, RInv, RecordTypeOK, RustLayerOK, Unrecorded
<1>2. string_to_u64[name] \in Ids /\ string_to_u64[name] \in Current
  BY DEF NInv, RInv, RecordTypeOK, Current, Recorded
<1>3. id_to_slot[string_to_u64[name]] # NoSlot
  BY <1>1, <1>2 DEF RecordsAgree
<1> QED BY <1>2, <1>3 DEF NameTable, VectorOfName, Table, VectorOf

LEMMA NamesReadStored == NInv => SavedNamesRead
<1> SUFFICES ASSUME NInv, NEW name \in Names, saved_records.string_to_u64[name] # NoHandle
             PROVE  NameStored[name] = Stored[saved_records.string_to_u64[name]]
  BY DEF NInv, RInv, RecordTypeOK, NameStored, SavedNamesRead
<1>1. layer = "AdapterStore" /\ SavedRecordsAgree
  BY DEF NInv, RInv, RecordTypeOK, RustLayerOK, Unrecorded
<1>2. saved_records.string_to_u64[name] \in Ids
  BY DEF NInv, RInv, RecordTypeOK
<1>3. Indexed(saved.ids)[saved_records.string_to_u64[name]] # NoSlot
  BY <1>1, <1>2 DEF SavedRecordsAgree
<1> QED BY <1>2, <1>3 DEF NameStored, Stored, VectorOf

\* A step that leaves both payloads alone
LEMMA NameStoredKept ==
  ASSUME saved' = saved, saved_records' = saved_records
  PROVE  NameStored' = NameStored
  BY DEF NameStored

LEMMA InitPromised == RecordInit => Promised!Init
<1> SUFFICES ASSUME RecordInit PROVE Promised!Init
  OBVIOUS
<1> QED BY DEF RecordInit, Unrecorded, NoneReplaced, Promised!Init, Promised!Empty

\* The batch enters whole: its names read its vectors at once, the others
\* what they read before, the rows it replaces being nobody's any more.
LEMMA AddIsUpsert ==
  ASSUME NInv, NamesRead, NamesRead', NEW d \in Dims, NEW n \in 1..MaxBatch, NEW upsert \in BOOLEAN,
         NEW vectors \in [Slots(n) -> Vectors \cup BadVectors],
         NEW names \in [Slots(n) -> Names], NEW u64s \in [Slots(n) -> Ids],
         AddRecords(d, n, vectors, names, upsert, u64s)
  PROVE  \E batch \in Promised!Tables : Promised!Upsert(batch)
<1> DEFINE InBatch(name) == \E i \in Slots(n) : names[i] = name
<1> DEFINE at(name) == CHOOSE i \in Slots(n) : names[i] = name
<1> DEFINE batch == [name \in Names |-> IF InBatch(name) THEN vectors[at(name)] ELSE NoVector]
<1>1. /\ vectors \in [Slots(n) -> Vectors]
      /\ \A i \in Slots(n) : Table[u64s[i]] = NoVector /\ Table'[u64s[i]] = vectors[i]
      /\ \A u \in Ids : (\A i \in Slots(n) : u64s[i] # u) => Table'[u] = Table[u]
  BY AddTable DEF AddRecords, NInv, RInv
<1>2. \A name \in Names : InBatch(name) => at(name) \in Slots(n) /\ names[at(name)] = name
  OBVIOUS
<1>3. \A name \in Names : batch[name] = IF InBatch(name) THEN vectors[at(name)] ELSE NoVector
  OBVIOUS
<1>4. string_to_u64' = [name \in Names |->
                          IF InBatch(name) THEN u64s[at(name)] ELSE string_to_u64[name]]
  BY DEF AddRecords
<1> HIDE DEF at
<1>5. batch \in Promised!Tables
  BY <1>1, <1>2 DEF Promised!Tables
<1> HIDE DEF batch
<1>6. NoVector \notin Vectors
  BY IdMapVectors
<1>7. \A name \in Names : (batch[name] # NoVector) <=> InBatch(name)
  BY <1>1, <1>2, <1>3, <1>6
<1>8. ASSUME NEW name \in Names, InBatch(name) PROVE NameTable'[name] = batch[name]
  <2>1. at(name) \in Slots(n) /\ string_to_u64'[name] = u64s[at(name)]
    BY <1>2, <1>4, <1>8
  <2>2. u64s[at(name)] \in Ids /\ u64s[at(name)] # NoHandle
    BY <2>1, HandlesArePositive
  <2>3. NameTable'[name] = Table'[u64s[at(name)]]
    BY <2>1, <2>2 DEF NamesRead
  <2> QED BY <1>1, <1>3, <1>8, <2>1, <2>3
<1>9. ASSUME NEW name \in Names, ~InBatch(name) PROVE NameTable'[name] = NameTable[name]
  <2>1. string_to_u64'[name] = string_to_u64[name]
    BY <1>4, <1>9
  <2>2. CASE string_to_u64[name] = NoHandle
    BY <2>1, <2>2 DEF NameTable
  <2>3. CASE string_to_u64[name] # NoHandle
    <3>1. string_to_u64[name] \in Ids /\ string_to_u64[name] \in Current
      BY <2>3 DEF NamesRead, Current, Recorded
    <3>2. \A i \in Slots(n) : id_to_slot[u64s[i]] = NoSlot
      BY DEF AddRecords, Allocates
    <3>3. \A i \in Slots(n) : u64s[i] # string_to_u64[name]
      BY <3>1, <3>2 DEF NInv, RInv, RecordsAgree, AddRecords
    <3> QED BY <1>1, <2>1, <2>3, <3>1, <3>3 DEF NamesRead
  <2> QED BY <2>2, <2>3
<1>10. NameTable' = [name \in Names |-> IF batch[name] # NoVector THEN batch[name]
                                        ELSE NameTable[name]]
  <2>1. \A name \in Names :
          NameTable'[name] = IF batch[name] # NoVector THEN batch[name] ELSE NameTable[name]
    BY <1>7, <1>8, <1>9
  <2> QED BY <2>1 DEF NameTable
<1>11. NameStored' = NameStored
  BY NameStoredKept DEF AddRecords, AddWithIds
<1>12. ~Busy
  BY DEF AddRecords, Busy
<1>13. Promised!Upsert(batch)
  BY <1>10, <1>11, <1>12 DEF Promised!Upsert, NameTable, NameStored, Busy
<1> QED BY <1>5, <1>13

\* Dropping the row of handle h leaves every name with another handle alone.
LEMMA RemoveHandleTable ==
  ASSUME NInv, NEW h \in Ids, RemoveHandle(h)
  PROVE  \A u \in Ids \ {h} : Table'[u] = Table[u]
<1>1. Promise!Drop(h)
  BY RemoveIsDrop DEF RemoveHandle, NInv, RInv
<1>2. Table' = [Table EXCEPT ![h] = NoVector]
  BY <1>1 DEF Promise!Drop, Table
<1> QED BY <1>2 DEF Table

\* A replaced row is no name's, so its removal is not seen; the last one ends
\* the call.
LEMMA RemoveReplacedIsReturn ==
  ASSUME NInv, NamesRead, NamesRead', RemoveReplaced
  PROVE  Promised!Return \/ (NameTable' = NameTable /\ NameStored' = NameStored /\ Busy' = Busy)
<1>1. PICK i \in Slots(MaxBatch) : replaced[i] # NoHandle /\ RemoveHandle(replaced[i])
  BY DEF RemoveReplaced
<1> DEFINE h == replaced[i]
<1>2. h \in Ids /\ h \in Replacing
  BY <1>1 DEF NInv, RInv, RecordTypeOK, Replacing
<1>3. \A u \in Ids \ {h} : Table'[u] = Table[u]
  BY <1>1, <1>2, RemoveHandleTable
<1>4. string_to_u64' = string_to_u64 /\ saved_records' = saved_records /\ saved' = saved
  BY <1>1 DEF RemoveReplaced, RemoveHandle, Remove
<1>5. ASSUME NEW name \in Names PROVE NameTable'[name] = NameTable[name]
  <2>1. CASE string_to_u64[name] = NoHandle
    BY <1>4, <2>1 DEF NameTable
  <2>2. CASE string_to_u64[name] # NoHandle
    <3>1. string_to_u64[name] \in Ids /\ string_to_u64[name] \in Current
      BY <2>2 DEF NamesRead, Current, Recorded
    <3>2. string_to_u64[name] # h
      BY <1>2, <3>1 DEF NInv, RInv, RecordsAgree, RemoveReplaced
    <3> QED BY <1>3, <1>4, <2>2, <3>1, <3>2 DEF NamesRead
  <2> QED BY <2>1, <2>2
<1>6. NameTable' = NameTable
  BY <1>5 DEF NameTable
<1>7. NameStored' = NameStored
  BY <1>4, NameStoredKept
<1>8. Busy
  BY <1>1 DEF Busy, NoneReplaced
<1>9. CASE Busy'
  BY <1>6, <1>7, <1>8, <1>9 DEF Busy
<1>10. CASE ~Busy'
  BY <1>6, <1>7, <1>8, <1>10 DEF Promised!Return, NameTable, NameStored, Busy
<1> QED BY <1>9, <1>10

\* The row that moves into the freed slot keeps its name.
LEMMA DeleteRecordIsDelete ==
  ASSUME NInv, NamesRead, NamesRead', NEW name \in Names, DeleteRecord(name)
  PROVE  Promised!Delete(name)
<1> DEFINE h == string_to_u64[name]
<1>1. h \in Ids /\ RemoveHandle(h) /\ name \in Recorded
  BY DEF NamesRead, DeleteRecord, Recorded
<1>2. \A u \in Ids \ {h} : Table'[u] = Table[u]
  BY <1>1, RemoveHandleTable
<1>3. string_to_u64' = [string_to_u64 EXCEPT ![name] = NoHandle]
      /\ saved_records' = saved_records /\ saved' = saved /\ replaced' = replaced
      /\ replaced = NoneReplaced /\ layer = "AdapterStore"
  BY DEF DeleteRecord, RemoveHandle, Remove
<1>4. /\ string_to_u64'[name] = NoHandle
      /\ \A other \in Names \ {name} : string_to_u64'[other] = string_to_u64[other]
  BY <1>3 DEF NInv, RInv, RecordTypeOK
<1>5. NameTable'[name] = NoVector
  BY <1>4 DEF NameTable
<1>6. ASSUME NEW other \in Names \ {name} PROVE NameTable'[other] = NameTable[other]
  <2>1. CASE string_to_u64[other] = NoHandle
    BY <1>4, <2>1 DEF NameTable
  <2>2. CASE string_to_u64[other] # NoHandle
    <3>1. string_to_u64[other] \in Ids /\ other \in Recorded
      BY <2>2 DEF NamesRead, Recorded
    <3>2. string_to_u64[other] # h
      BY <1>1, <1>3, <3>1, Settled DEF NInv
    <3> QED BY <1>2, <1>4, <2>2, <3>1, <3>2 DEF NamesRead
  <2> QED BY <2>1, <2>2
<1>7. NameTable' = [NameTable EXCEPT ![name] = NoVector]
  BY <1>5, <1>6 DEF NameTable
<1>8. NameStored' = NameStored
  BY <1>3, NameStoredKept
<1> QED BY <1>3, <1>7, <1>8 DEF Promised!Delete, NameTable, NameStored

LEMMA SaveRecordsIsSave ==
  ASSUME NInv, NamesRead, NamesRead', SavedNamesRead', SaveRecords
  PROVE  Promised!Save
<1>1. Promise!Save
  BY WriteIsSave DEF SaveRecords, NInv, RInv
<1>2. Stored' = Table /\ Table' = Table
  BY <1>1 DEF Promise!Save, Stored, Table
<1>3. saved_records'.string_to_u64 = string_to_u64 /\ string_to_u64' = string_to_u64
      /\ replaced' = replaced /\ replaced = NoneReplaced
  BY DEF SaveRecords
<1>4. \A name \in Names : NameStored'[name] = NameTable[name]
  BY <1>2, <1>3 DEF NamesRead, SavedNamesRead
<1>5. NameStored' = NameTable
  BY <1>4 DEF NameStored, NameTable
<1>6. \A name \in Names : NameTable'[name] = NameTable[name]
  BY <1>2, <1>3 DEF NamesRead
<1>7. NameTable' = NameTable
  BY <1>6 DEF NameTable
<1> QED BY <1>3, <1>5, <1>7 DEF Promised!Save, NameStored, NameTable

LEMMA LoadRecordsIsLoad ==
  ASSUME NInv, NamesRead', SavedNamesRead, LoadRecords
  PROVE  Promised!Load
<1>1. Promise!Load
  BY LoadIsLoad DEF LoadRecords, NInv, RInv
<1>2. Table' = Stored
  BY <1>1 DEF Promise!Load, Stored, Table
<1>3. string_to_u64' = saved_records.string_to_u64 /\ replaced' = NoneReplaced
      /\ saved_records' = saved_records /\ saved' = saved
  BY DEF LoadRecords, Load
<1>4. \A name \in Names : NameTable'[name] = NameStored[name]
  BY <1>2, <1>3 DEF NamesRead, SavedNamesRead
<1>5. NameTable' = NameStored
  BY <1>4 DEF NameTable, NameStored
<1>6. NameStored' = NameStored
  BY <1>3, NameStoredKept
<1> QED BY <1>3, <1>5, <1>6 DEF Promised!Load, NameTable, NameStored

\* With no names, what the Rust layer does is not seen.
LEMMA IdMapStepUnseen ==
  ASSUME NInv, IdMapStep
  PROVE  NameTable' = NameTable /\ NameStored' = NameStored /\ Busy' = Busy
<1>1. /\ string_to_u64 = Unrecorded /\ saved_records.string_to_u64 = Unrecorded
      /\ string_to_u64' = string_to_u64 /\ saved_records' = saved_records
      /\ replaced' = replaced
  BY DEF NInv, RustLayerOK, IdMapStep, recordVars
<1>2. \A name \in Names : string_to_u64[name] = NoHandle
                          /\ saved_records.string_to_u64[name] = NoHandle
  BY <1>1 DEF Unrecorded
<1> QED BY <1>1, <1>2 DEF NameTable, NameStored, Busy

LEMMA StepPromised ==
  /\ NInv /\ NamesRead /\ SavedNamesRead
  /\ NamesRead' /\ SavedNamesRead'
  /\ [RecordNext]_allVars
  => [Promised!Next]_<<NameTable, NameStored, Busy>>
<1> SUFFICES ASSUME NInv, NamesRead, NamesRead', SavedNamesRead, SavedNamesRead',
                    [RecordNext]_allVars
             PROVE  [Promised!Next]_<<NameTable, NameStored, Busy>>
  OBVIOUS
<1>1. CASE IdMapStep
  BY <1>1, IdMapStepUnseen
<1>2. ASSUME NEW d \in Dims, NEW n \in 1..MaxBatch, NEW upsert \in BOOLEAN,
             NEW vectors \in [Slots(n) -> Vectors \cup BadVectors],
             NEW names \in [Slots(n) -> Names], NEW u64s \in [Slots(n) -> Ids],
             AddRecords(d, n, vectors, names, upsert, u64s)
      PROVE  Promised!Next
  BY <1>2, AddIsUpsert DEF Promised!Next
<1>3. CASE RemoveReplaced
  BY <1>3, RemoveReplacedIsReturn DEF Promised!Next
<1>4. ASSUME NEW name \in Names, DeleteRecord(name) PROVE Promised!Next
  BY <1>4, DeleteRecordIsDelete DEF Promised!Next
<1>5. CASE SaveRecords
  BY <1>5, SaveRecordsIsSave DEF Promised!Next
<1>6. CASE LoadRecords
  BY <1>6, LoadRecordsIsLoad DEF Promised!Next
<1>7. CASE UNCHANGED allVars
  BY <1>7 DEF allVars, vars, recordVars, NameTable, VectorOfName, NameStored, Busy
<1> QED BY <1>1, <1>2, <1>3, <1>4, <1>5, <1>6, <1>7 DEF RecordNext

\* For any number of names, handles and calls, the Python store is a table from
\* string IDs to vectors: a batch replaces exactly the records it names, no
\* record changes while the replaced rows go, and a load restores the saved table.
THEOREM RecordsKeepTheirVectors == RecordSpec => RecordsKeepVectors
<1>1. RecordSpec => [](NInv /\ NamesRead /\ SavedNamesRead)
  BY RecordInitNInv, RecordStepNInv, NamesReadTable, NamesReadStored, PTL DEF RecordSpec
<1>2. RecordInit => Promised!Init
  BY InitPromised
<1> QED BY <1>1, <1>2, StepPromised, PTL DEF RecordSpec, RecordsKeepVectors, Promised!Spec,
                                            NameTable, NameStored, Busy
=============================================================================
