---------------------------- MODULE KeyedRecords ----------------------------
(***************************************************************************)
(* What the Python AdapterStore promises of its records in memory: a table *)
(* from string IDs to vectors in which a batch enters whole, replacing the *)
(* records it names and no others; a deletion touches one record; a save   *)
(* and a load keep the table.  Row handles and slots are not visible, nor  *)
(* are the rows an upsert still has to remove: until it returns, the table *)
(* does not change.                                                        *)
(***************************************************************************)
CONSTANTS Names, Vectors, NoVector

VARIABLES
  table,    \* string ID -> its vector, or NoVector
  stored,   \* the table as last saved
  busy      \* a batch has entered and its call has not returned

Tables == [Names -> Vectors \cup {NoVector}]
Empty == [name \in Names |-> NoVector]

Init == table = Empty /\ stored = Empty /\ busy = FALSE

Upsert(batch) ==
  /\ ~busy /\ busy' \in BOOLEAN
  /\ table' = [name \in Names |-> IF batch[name] # NoVector THEN batch[name] ELSE table[name]]
  /\ UNCHANGED stored

Return == busy /\ busy' = FALSE /\ UNCHANGED <<table, stored>>

Delete(name) ==
  /\ ~busy
  /\ table' = [table EXCEPT ![name] = NoVector]
  /\ UNCHANGED <<stored, busy>>

Save == ~busy /\ stored' = table /\ UNCHANGED <<table, busy>>

\* Also in place of a caller that never saw its call return
Load == table' = stored /\ busy' = FALSE /\ UNCHANGED stored

Next ==
  \/ \E batch \in Tables : Upsert(batch)
  \/ Return
  \/ \E name \in Names : Delete(name)
  \/ Save
  \/ Load

Spec == Init /\ [][Next]_<<table, stored, busy>>
=============================================================================
