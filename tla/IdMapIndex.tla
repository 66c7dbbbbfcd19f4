----------------------------- MODULE IdMapIndex -----------------------------
(***************************************************************************)
(* IdMapIndex over OrdinalIndex (ordinaldb/src/id_map.rs, ordinal.rs): the *)
(* rows of the RankQuant and of its optional sign sidecar, and the two ID  *)
(* tables that must follow every append and every swap-remove.             *)
(*                                                                         *)
(* A row is the vector it encodes.  A call that returns Err or false       *)
(* changes nothing, so it is a stuttering step and has no action.          *)
(***************************************************************************)
EXTENDS Vec

CONSTANTS
  Ids,          \* u64 row IDs
  Vectors,      \* vectors whose coordinates pass first_invalid_coord
  BadVectors,   \* vectors with a non-finite or too large coordinate
  NoVector,     \* no vector: an ID that is not present
  Dims,         \* dimensions callers pass
  GoodDims,     \* those validate_add_dim_bits accepts for this index's bits
  SignDims,     \* those sign_compatible accepts
  MaxRows,      \* bound: rows
  MaxBatch      \* bound: rows of one batch

ASSUME IdMapVectors == NoVector \notin Vectors /\ Vectors \cap BadVectors = {}
ASSUME IdMapDims == SignDims \subseteq GoodDims /\ GoodDims \subseteq Dims \ {0}
                    /\ Dims \subseteq Nat
ASSUME IdMapBounds == MaxRows \in Nat /\ MaxBatch \in Nat

Lazy == 0        \* dim: None
NoSlot == -1     \* absent from id_to_slot
SignPolicies == {"Disabled", "Optional", "Required"}
SignLoadPolicies == {"RequireIfSupported", "Require", "Any", "Forbid"}

VARIABLES
  dim,          \* OrdinalIndex.dim
  rows,         \* RankQuant
  hasSign,      \* OrdinalIndex.sign is Some
  sign,         \* SignBitmap
  sign_policy,  \* SignPolicy of the build options, used when dim is committed
  slot_to_id,
  id_to_slot,
  saved         \* the bundle last written, dim Lazy before the first write

vars == <<dim, rows, hasSign, sign, sign_policy, slot_to_id, id_to_slot, saved>>

NothingSaved == [dim |-> Lazy, rows |-> EmptyVec, hasSign |-> FALSE,
                 sign |-> EmptyVec, ids |-> EmptyVec]

\* maybe_new_sign when the index commits to dimension d, and what it refuses
NewSign(d) == sign_policy # "Disabled" /\ d \in SignDims
SignRefused(d) == sign_policy = "Required" /\ d \notin SignDims

\* new_with_build_options commits to a dimension, new_lazy_with_build_options
\* leaves that to the first add.
Init ==
  /\ sign_policy \in SignPolicies
  /\ \/ /\ dim = Lazy /\ hasSign = FALSE
        /\ sign_policy = "Required" => SignDims # {}
     \/ dim \in GoodDims /\ ~SignRefused(dim) /\ hasSign = NewSign(dim)
  /\ rows = EmptyVec /\ sign = EmptyVec
  /\ slot_to_id = EmptyVec
  /\ id_to_slot = [id \in Ids |-> NoSlot]
  /\ saved = NothingSaved

-----------------------------------------------------------------------------
(* add_with_ids_2d: a batch is n rows with their IDs. *)

\* Mutant: the batch is checked against the index but not against itself.
BatchIdsUnchecked(n, ids) == \A i \in Slots(n) : id_to_slot[ids[i]] = NoSlot

\* The ID pass that runs before any row is touched.
BatchIdsFree(n, ids) ==
  /\ \A i \in Slots(n) : id_to_slot[ids[i]] = NoSlot
  /\ \A i, j \in Slots(n) : ids[i] = ids[j] => i = j

\* OrdinalIndex::add_2d returns Ok
Add2dAccepts(d, n, vectors) ==
  /\ d \in GoodDims
  /\ dim \in {Lazy, d}
  /\ \A i \in Slots(n) : vectors[i] \in Vectors
  /\ dim = Lazy => ~SignRefused(d)

Add2d(d, n, vectors) ==
  /\ dim' = d
  /\ hasSign' = IF dim = Lazy THEN NewSign(d) ELSE hasSign
  /\ rows' = Extend(rows, n, vectors)
  /\ sign' = IF hasSign' THEN Extend(sign, n, vectors) ELSE sign
  /\ UNCHANGED sign_policy

\* id_to_slot.insert(id, first_new_slot + offset) for the whole batch
Registered(n, ids) ==
  [id \in Ids |-> IF \E i \in Slots(n) : ids[i] = id
                  THEN rows.len + (CHOOSE i \in Slots(n) : ids[i] = id)
                  ELSE id_to_slot[id]]

AddWithIds(d, n, vectors, ids) ==
  /\ n > 0
  /\ rows.len + n <= MaxRows
  /\ BatchIdsFree(n, ids)
  /\ Add2dAccepts(d, n, vectors)
  /\ Add2d(d, n, vectors)
  /\ id_to_slot' = Registered(n, ids)
  /\ slot_to_id' = Extend(slot_to_id, n, ids)
  /\ UNCHANGED saved

-----------------------------------------------------------------------------
(* remove and OrdinalIndex::swap_remove *)

\* Mutant: the sign sidecar is forgotten.
OrdinalSwapRemoveNoSign(slot) ==
  /\ rows' = SwapRemove(rows, slot)
  /\ UNCHANGED <<dim, hasSign, sign, sign_policy>>

\* Mutant: the later rows move down, as Vec::remove would move them.
Shifted(v, slot) ==
  [len |-> v.len - 1,
   at |-> [k \in Slots(v.len - 1) |-> v.at[IF k < slot THEN k ELSE k + 1]]]
OrdinalShiftRemove(slot) ==
  /\ rows' = Shifted(rows, slot)
  /\ sign' = IF hasSign THEN Shifted(sign, slot) ELSE sign
  /\ UNCHANGED <<dim, hasSign, sign_policy>>

OrdinalSwapRemove(slot) ==
  /\ rows' = SwapRemove(rows, slot)
  /\ sign' = IF hasSign THEN SwapRemove(sign, slot) ELSE sign
  /\ UNCHANGED <<dim, hasSign, sign_policy>>

\* Mutant: the former tail ID keeps its old slot.
RelocatedForgotten(id, slot) == [id_to_slot EXCEPT ![id] = NoSlot]

\* The former tail ID, if it moved, is mapped to the freed slot.
Relocated(id, slot) ==
  [other \in Ids |->
     IF slot < slot_to_id.len - 1 /\ other = slot_to_id.at[slot_to_id.len - 1] THEN slot
     ELSE IF other = id THEN NoSlot
     ELSE id_to_slot[other]]

Remove(id) ==
  /\ id_to_slot[id] # NoSlot
  /\ OrdinalSwapRemove(id_to_slot[id])
  /\ slot_to_id' = SwapRemove(slot_to_id, id_to_slot[id])
  /\ id_to_slot' = Relocated(id, id_to_slot[id])
  /\ UNCHANGED saved

-----------------------------------------------------------------------------
(* write and load *)

\* Refused while the index is lazy; the sidecar is slot_to_id.
Write ==
  /\ dim # Lazy
  /\ saved' = [dim |-> dim, rows |-> rows, hasSign |-> hasSign, sign |-> sign,
               ids |-> slot_to_id]
  /\ UNCHANGED <<dim, rows, hasSign, sign, sign_policy, slot_to_id, id_to_slot>>

\* from_loaded_parts of both types: the shapes agree and no ID repeats
LoadAccepts(b) ==
  /\ b.dim # Lazy
  /\ b.hasSign => b.dim \in SignDims /\ b.sign.len = b.rows.len
  /\ b.ids.len = b.rows.len
  /\ \A i, j \in Slots(b.ids.len) : b.ids.at[i] = b.ids.at[j] => i = j

\* SignLoadPolicy
SignSatisfied(b, policy) ==
  \/ policy = "Any"
  \/ policy = "Require" /\ b.hasSign
  \/ policy = "RequireIfSupported" /\ (b.hasSign \/ b.dim \notin SignDims)
  \/ policy = "Forbid" /\ ~b.hasSign

Indexed(ids) ==
  [id \in Ids |-> IF \E i \in Slots(ids.len) : ids.at[i] = id
                  THEN CHOOSE i \in Slots(ids.len) : ids.at[i] = id
                  ELSE NoSlot]

\* load (RequireIfSupported, any dimension), load_with_options, open_verified
Load(policy, expected_dim) ==
  /\ LoadAccepts(saved) /\ SignSatisfied(saved, policy)
  /\ expected_dim \in {Lazy, saved.dim}
  /\ dim' = saved.dim /\ rows' = saved.rows
  /\ hasSign' = saved.hasSign /\ sign' = saved.sign
  /\ sign_policy' = "Optional"
  /\ slot_to_id' = saved.ids
  /\ id_to_slot' = Indexed(saved.ids)
  /\ UNCHANGED saved

-----------------------------------------------------------------------------
Next ==
  \/ \E d \in Dims, n \in 1..MaxBatch :
       \E vectors \in [Slots(n) -> Vectors \cup BadVectors], ids \in [Slots(n) -> Ids] :
         AddWithIds(d, n, vectors, ids)
  \/ \E id \in Ids : Remove(id)
  \/ Write
  \/ \E policy \in SignLoadPolicies, d \in Dims \cup {Lazy} : Load(policy, d)

Spec == Init /\ [][Next]_vars

-----------------------------------------------------------------------------
(* Properties *)

\* The state is well formed.
TypeOK ==
  /\ dim \in GoodDims \cup {Lazy}
  /\ IsVec(rows, Vectors) /\ IsVec(sign, Vectors)
  /\ hasSign \in BOOLEAN /\ sign_policy \in SignPolicies
  /\ IsVec(slot_to_id, Ids)
  /\ id_to_slot \in [Ids -> Nat \cup {NoSlot}]
  /\ saved.dim \in GoodDims \cup {Lazy} /\ saved.hasSign \in BOOLEAN
  /\ IsVec(saved.rows, Vectors) /\ IsVec(saved.sign, Vectors) /\ IsVec(saved.ids, Ids)

\* slot_to_id and id_to_slot are inverse to each other and dense: after any
\* sequence of batches, removals and loads every slot has exactly one ID
\* ("slot table out of sync with ID map" never fires).
TablesAgree ==
  /\ slot_to_id.len = rows.len
  /\ \A i \in Slots(slot_to_id.len) : id_to_slot[slot_to_id.at[i]] = i
  /\ \A id \in Ids : id_to_slot[id] # NoSlot =>
       id_to_slot[id] \in Slots(slot_to_id.len) /\ slot_to_id.at[id_to_slot[id]] = id

\* The sign sidecar, when there is one, holds the sign row of the same vector
\* in the same slot as the RankQuant, so two-stage search ranks the rows it
\* preselected; a lazy index holds nothing.
SidecarAligned ==
  /\ hasSign => sign = rows
  /\ ~hasSign => sign.len = 0
  /\ dim = Lazy => rows.len = 0
  /\ hasSign => dim \in SignDims

\* from_loaded_parts never refuses what write produced: the ID sidecar has one
\* distinct ID per row, the sign sidecar the rows of the index.
SavedLoads ==
  /\ saved.dim # Lazy => LoadAccepts(saved)
  /\ saved.dim = Lazy => saved.rows.len = 0 /\ saved.ids.len = 0
  /\ saved.hasSign => saved.sign = saved.rows
  /\ ~saved.hasSign => saved.sign.len = 0

\* The refinement: what a caller sees of the slots.
VectorOf(r, s, id) == IF s[id] = NoSlot THEN NoVector ELSE r.at[s[id]]
Promise == INSTANCE KeyedVectors WITH
  table <- [id \in Ids |-> VectorOf(rows, id_to_slot, id)],
  stored <- [id \in Ids |-> VectorOf(saved.rows, Indexed(saved.ids), id)]

\* Every surviving ID keeps resolving to its original vector (id_map.rs,
\* remove), a batch enters whole, and a load restores the written table.
KeepsVectors == Promise!Spec
=============================================================================
