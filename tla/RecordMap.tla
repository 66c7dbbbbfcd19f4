----------------------------- MODULE RecordMap -----------------------------
(***************************************************************************)
(* The records of the Python AdapterStore in memory                        *)
(* (ordinaldb-python/python/ordinaldb/adapters/_common.py): a second ID    *)
(* layer over OrdinalIndex beside the Rust IdMapIndex, with string IDs and *)
(* the u64 handles behind them.  Its _slot_to_u64 and _u64_to_slot are     *)
(* the tables slot_to_id and id_to_slot of IdMapIndex, kept by the same    *)
(* appends and swap-removes, so a step of this layer is one of IdMapIndex  *)
(* and its invariants and searches speak of both layers.                   *)
(*                                                                         *)
(* Documents and metadata follow _string_to_u64 and are left out.  An      *)
(* upsert appends its batch and then removes the rows it replaced one by   *)
(* one: each removal is a step.                                            *)
(***************************************************************************)
EXTENDS IdMapIndex

CONSTANTS
  Names,         \* string IDs
  NoName,        \* no string ID
  IdMapIds,      \* bound: the IDs used while the layer is IdMapIndex
  MaxIdMapRows   \* bound: rows while the layer is IdMapIndex

\* u64 handles are counted from 1; Ids is an interval, so that counting up
\* stays among the handles until it has passed the last.
ASSUME RecordNames == NoName \notin Names
ASSUME RecordHandles == Ids \subseteq Nat \ {0} /\ \A u \in Ids : 1..u \subseteq Ids

VARIABLES
  layer,           \* the ID layer over the index: "IdMapIndex" or "AdapterStore"
  string_to_u64,   \* AdapterStore._string_to_u64, NoHandle when absent
  u64_to_string,   \* AdapterStore._u64_to_string, NoName when absent
  next_u64_id,     \* AdapterStore._next_u64_id
  replaced,        \* the handles an upsert has still to remove, by row of its batch
  saved_records    \* the id_map payload last saved

recordVars == <<string_to_u64, u64_to_string, next_u64_id, replaced, saved_records>>
allVars == <<vars, layer, recordVars>>

NoHandle == 0
Unrecorded == [name \in Names |-> NoHandle]
NoneReplaced == [i \in Slots(MaxBatch) |-> NoHandle]

RecordInit ==
  /\ Init
  /\ layer \in {"IdMapIndex", "AdapterStore"}
  /\ layer = "AdapterStore" => sign_policy = "Optional"
  /\ string_to_u64 = Unrecorded
  /\ u64_to_string = [u \in Ids |-> NoName]
  /\ next_u64_id = 1
  /\ replaced = NoneReplaced
  /\ saved_records = [string_to_u64 |-> Unrecorded, next_u64_id |-> 1]

\* The Rust layer is at work.
IdMapStep ==
  /\ layer = "IdMapIndex"
  /\ Next
  /\ rows'.len <= MaxIdMapRows /\ \A id \in Ids \ IdMapIds : id_to_slot'[id] = NoSlot
  /\ UNCHANGED <<layer, recordVars>>

-----------------------------------------------------------------------------
(* add *)

\* _allocate_u64, once for each row: the next handles that are not in use
Allocates(n, u64s) ==
  /\ \A i \in Slots(n) : u64s[i] >= next_u64_id /\ id_to_slot[u64s[i]] = NoSlot
  /\ \A i, j \in Slots(n) : i < j => u64s[i] < u64s[j]
  /\ \A u \in next_u64_id..u64s[n - 1] :
       id_to_slot[u] = NoSlot => \E i \in Slots(n) : u64s[i] = u

\* Mutant: only the first row of a batch is looked up.
ReplacedFirst(n, names) == [NoneReplaced EXCEPT ![0] = string_to_u64[names[0]]]

\* replacement_u64s: the handles the batch's names had before
ReplacedHandles(n, names) ==
  [i \in Slots(MaxBatch) |-> IF i \in Slots(n) THEN string_to_u64[names[i]] ELSE NoHandle]

\* _preflight_batch
BatchAccepted(n, names, upsert) ==
  /\ \A i, j \in Slots(n) : names[i] = names[j] => i = j
  /\ upsert \/ \A i \in Slots(n) : string_to_u64[names[i]] = NoHandle

\* The batch is appended and its names point to the new rows; the rows they
\* pointed to before are still there.
AddRecords(d, n, vectors, names, upsert, u64s) ==
  /\ layer = "AdapterStore" /\ replaced = NoneReplaced
  /\ BatchAccepted(n, names, upsert)
  /\ Allocates(n, u64s)
  /\ AddWithIds(d, n, vectors, u64s)
  /\ string_to_u64' = [name \in Names |->
                         IF \E i \in Slots(n) : names[i] = name
                         THEN u64s[CHOOSE i \in Slots(n) : names[i] = name]
                         ELSE string_to_u64[name]]
  /\ u64_to_string' = [u \in Ids |->
                         IF \E i \in Slots(n) : u64s[i] = u
                         THEN names[CHOOSE i \in Slots(n) : u64s[i] = u]
                         ELSE u64_to_string[u]]
  /\ next_u64_id' = u64s[n - 1] + 1
  /\ replaced' = ReplacedHandles(n, names)
  /\ UNCHANGED <<layer, saved_records>>

\* _remove_u64: the slot is looked up now, after the removals before it
RemoveHandle(u) ==
  /\ Remove(u)
  /\ u64_to_string' = [u64_to_string EXCEPT ![u] = NoName]

\* The next of them, in the batch's order
RemoveReplaced ==
  /\ layer = "AdapterStore"
  /\ \E i \in Slots(MaxBatch) :
       /\ replaced[i] # NoHandle /\ \A j \in Slots(i) : replaced[j] = NoHandle
       /\ RemoveHandle(replaced[i])
       /\ replaced' = [replaced EXCEPT ![i] = NoHandle]
  /\ UNCHANGED <<layer, string_to_u64, next_u64_id, saved_records>>

\* delete, one ID of it
DeleteRecord(name) ==
  /\ layer = "AdapterStore" /\ replaced = NoneReplaced
  /\ string_to_u64[name] # NoHandle
  /\ RemoveHandle(string_to_u64[name])
  /\ string_to_u64' = [string_to_u64 EXCEPT ![name] = NoHandle]
  /\ UNCHANGED <<layer, next_u64_id, replaced, saved_records>>

-----------------------------------------------------------------------------
(* save and load: the generation and the id_map payload of one commit; its  *)
(* u64_to_slot is saved.ids.  A store without a dimension (empty_lazy) is   *)
(* not saved here.                                                          *)

SaveRecords ==
  /\ layer = "AdapterStore" /\ replaced = NoneReplaced
  /\ Write
  /\ saved_records' = [string_to_u64 |-> string_to_u64, next_u64_id |-> next_u64_id]
  /\ UNCHANGED <<layer, string_to_u64, u64_to_string, next_u64_id, replaced>>

\* A new object, whatever became of the old one
LoadRecords ==
  /\ layer = "AdapterStore"
  /\ Load("RequireIfSupported", Lazy)
  /\ string_to_u64' = saved_records.string_to_u64
  /\ u64_to_string' = [u \in Ids |->
                         IF \E name \in Names : saved_records.string_to_u64[name] = u
                         THEN CHOOSE name \in Names : saved_records.string_to_u64[name] = u
                         ELSE NoName]
  /\ next_u64_id' = saved_records.next_u64_id
  /\ replaced' = NoneReplaced
  /\ UNCHANGED <<layer, saved_records>>

-----------------------------------------------------------------------------
RecordNext ==
  \/ IdMapStep
  \/ \E d \in Dims, n \in 1..MaxBatch, upsert \in BOOLEAN :
       \E vectors \in [Slots(n) -> Vectors \cup BadVectors], names \in [Slots(n) -> Names],
          u64s \in [Slots(n) -> Ids] :
         AddRecords(d, n, vectors, names, upsert, u64s)
  \/ RemoveReplaced
  \/ \E name \in Names : DeleteRecord(name)
  \/ SaveRecords
  \/ LoadRecords

RecordSpec == RecordInit /\ [][RecordNext]_allVars

-----------------------------------------------------------------------------
(* Properties *)

Recorded == {name \in Names : string_to_u64[name] # NoHandle}
VectorOfName(name) == rows.at[id_to_slot[string_to_u64[name]]]
Current == {string_to_u64[name] : name \in Recorded}
Replacing == {replaced[i] : i \in Slots(MaxBatch)} \ {NoHandle}

\* The tables of the store describe one set of records at every step of an
\* upsert: each name has a row of its own whose handle names it back, every
\* other row is one the upsert has still to remove, and the handles from
\* next_u64_id on are free (_validate_consistency).
RecordsAgree ==
  layer = "AdapterStore" =>
    /\ \A name \in Recorded : u64_to_string[string_to_u64[name]] = name
    /\ {u \in Ids : u64_to_string[u] # NoName} = Current \cup Replacing
    /\ {u \in Ids : id_to_slot[u] # NoSlot} = Current \cup Replacing
    /\ Current \cap Replacing = {}
    /\ \A i, j \in Slots(MaxBatch) :
         replaced[i] = replaced[j] /\ replaced[i] # NoHandle => i = j
    /\ \A u \in Ids : u >= next_u64_id => id_to_slot[u] = NoSlot

\* The refinement: what a caller sees of handles and slots.
Promised == INSTANCE KeyedRecords WITH
  table <- [name \in Names |->
              IF string_to_u64[name] = NoHandle THEN NoVector ELSE VectorOfName(name)],
  stored <- [name \in Names |->
               IF saved_records.string_to_u64[name] = NoHandle THEN NoVector
               ELSE saved.rows.at[Indexed(saved.ids)[saved_records.string_to_u64[name]]]],
  busy <- replaced # NoneReplaced

\* A batch replaces exactly the records it names, and no record changes while
\* the rows it replaced are removed and others move into their slots;
\* deletions, saves and loads leave every other record with its vector.
RecordsKeepVectors == Promised!Spec
=============================================================================
