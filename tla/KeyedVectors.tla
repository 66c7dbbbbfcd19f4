---------------------------- MODULE KeyedVectors ----------------------------
(***************************************************************************)
(* What IdMapIndex promises its caller: a table from IDs to vectors in     *)
(* which a batch enters whole or not at all, a removal touches one ID and  *)
(* every other ID keeps its vector, and a load brings back what was last   *)
(* written.  Slots, their reuse and the two sidecars are not visible.      *)
(***************************************************************************)
CONSTANTS Ids, Vectors, NoVector

VARIABLES
  table,    \* ID -> its vector, or NoVector
  stored    \* the table as last written

Tables == [Ids -> Vectors \cup {NoVector}]
Empty == [id \in Ids |-> NoVector]

Init == table = Empty /\ stored = Empty

\* A batch of IDs none of which is present.
Put(batch) ==
  /\ \A id \in Ids : batch[id] # NoVector => table[id] = NoVector
  /\ table' = [id \in Ids |-> IF batch[id] # NoVector THEN batch[id] ELSE table[id]]
  /\ UNCHANGED stored

Drop(id) ==
  /\ table' = [table EXCEPT ![id] = NoVector]
  /\ UNCHANGED stored

Save == stored' = table /\ UNCHANGED table
Load == table' = stored /\ UNCHANGED stored

Next ==
  \/ \E batch \in Tables : Put(batch)
  \/ \E id \in Ids : Drop(id)
  \/ Save
  \/ Load

Spec == Init /\ [][Next]_<<table, stored>>
=============================================================================
