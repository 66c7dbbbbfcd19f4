---------------------------- MODULE AdapterStore ----------------------------
(***************************************************************************)
(* The adapter store: one directory holding adapter.redb, the canonical    *)
(* generation bundles vectors/g<id>.odb and the scratch directories of     *)
(* interrupted saves, shared by                                            *)
(*   - Writers: Python AdapterStore handles (load, add, save),             *)
(*   - Clients: direct callers of the Rust commit API,                     *)
(*   - Collectors: `ordinaldb adapter gc` processes.                       *)
(*                                                                         *)
(* A redb write transaction is one assignment to db.  Every redb open may  *)
(* also fail with "Database already open" when another process has the     *)
(* file open at that instant: the Contended disjuncts.  After a client's   *)
(* or a collector's transaction they stand for a failing fsync as well,    *)
(* which has the same effect there.  A writer's record is identified with  *)
(* the writer, a metadata patch with the client, so a snapshot is the set  *)
(* of edits it contains; a bundle's manifest digest is the set of records  *)
(* it holds.                                                               *)
(***************************************************************************)
EXTENDS Integers, FiniteSets, FiniteSetsExt

CONSTANTS
  Writers,        \* Python AdapterStore handles, one process each
  Clients,        \* callers of adapter-store's commit()
  Republishers,   \* the clients that also use ReplaceLegacySnapshot
  Collectors,     \* `ordinaldb adapter gc` processes
  Crashable,      \* the processes that may die in mid-operation
  NoProc,         \* nobody holds the writer lock
  Retain,         \* gc --retain
  MaxGen,         \* bound: generation ids
  MaxOps,         \* bound: saves, commits and gc runs started
  MaxCrashes,     \* bound: process deaths
  MaxContention   \* bound: redb opens refused because of another process, and
                  \* failed fsyncs of clients and collectors

Procs == Writers \cup Clients \cup Collectors

ASSUME ProcAssumption ==
  /\ Republishers \subseteq Clients
  /\ Crashable \subseteq Procs
  /\ NoProc \notin Procs
  /\ Writers \cap Clients = {} /\ Writers \cap Collectors = {}
  /\ Clients \cap Collectors = {}
ASSUME FiniteAssumption == IsFiniteSet(Writers)
ASSUME BoundAssumption ==
  {Retain, MaxGen, MaxOps, MaxCrashes, MaxContention} \subseteq Nat

GenIds == 1..MaxGen
Paths == {"gen", "tmp"} \X GenIds     \* vectors/g<id>.odb, vectors/.g<id>.odb.tmp-*
Gen(n) == <<"gen", n>>
Tmp(n) == <<"tmp", n>>

Records(edits) == edits \cap Writers
Contents == SUBSET Writers
Absent == [dir |-> "absent", records |-> {}]
Bundle(records) == [dir |-> "present", records |-> records]

\* The fields of StoreRevision that vary; seq 0 stands for "no revision".
NoRevision == [seq |-> 0, active |-> 0, digest |-> {}]

LifecycleStates == {"none", "reclaimable", "deleting", "deleted"}

VARIABLES
  db,          \* adapter.redb
  disk,        \* what vectors/ holds under each name
  vectorsDir,  \* vectors/ itself exists
  pins,        \* generations that contain .ordinaldb.pin
  lock,        \* holder of .ordinaldb.write.lock
  pc,          \* where each process is
  handle,      \* the Python AdapterStore objects
  newGen,      \* the generation id a save has chosen
  outcome,     \* what the last save or gc reported
  published,   \* history: the current save's transaction has committed
  rev,         \* the revision a client or a collector last observed
  gc,          \* a collector's local state
  ops, crashes, contentions

envVars == <<ops, crashes, contentions>>
vars == <<db, disk, vectorsDir, pins, lock, pc, handle, newGen, outcome,
          published, rev, gc, ops, crashes, contentions>>

-----------------------------------------------------------------------------
(* adapter.redb and its verification                                       *)

NoRow == [state |-> "none", by |-> 0]
ActiveRow == [state |-> "active", by |-> 0]

EmptyDb ==
  [file |-> "absent", seq |-> 0, active |-> 0, digest |-> {}, payload |-> {},
   generations |-> [n \in GenIds |-> NoRow], n_generations |-> 0,
   gc_rows |-> {}, gc_latest |-> [p \in Paths |-> "none"], n_gc |-> 0,
   audit |-> {}, n_audit |-> 0]

Revision_WithoutSequence(d) ==
  [seq |-> IF d.seq = 0 THEN 0 ELSE 1, active |-> d.active, digest |-> d.digest]

Revision(d) == [seq |-> d.seq, active |-> d.active, digest |-> d.digest]

OnDisk(n) == disk[Gen(n)].dir = "present"
GensOnDisk == {n \in GenIds : OnDisk(n)}
RecordedGens(d) == {n \in GenIds : d.generations[n].state # "none"}
ActiveRows(d) == {n \in GenIds : d.generations[n].state = "active"}

\* verify_table_counts and verify_generation_records
TableCountsMatch(d) ==
  /\ d.n_generations = Cardinality(RecordedGens(d))
  /\ d.n_gc = Cardinality(d.gc_rows)
  /\ d.n_audit = Cardinality(d.audit)

GenerationRecordsMatch(d) ==
  ActiveRows(d) = IF d.active = 0 THEN {} ELSE {d.active}

\* active_generation_checkpoint, validate_against_generation and
\* verify_manifest_generation.  `allowed` is the generation a save has
\* prepared but not yet published (0 for none).
GenerationVerifies(d, allowed) ==
  IF d.active = 0
    THEN GensOnDisk \subseteq {allowed} /\ Records(d.payload) = {}
    ELSE /\ OnDisk(d.active)
         /\ disk[Gen(d.active)].records = d.digest
         /\ Cardinality(Records(d.payload)) = Cardinality(d.digest)

OpenVerifies(allowed) ==
  /\ db.file = "ok"
  /\ TableCountsMatch(db)
  /\ GenerationVerifies(db, allowed)
  /\ GenerationRecordsMatch(db)

-----------------------------------------------------------------------------
(* Transactions                                                            *)

AuditedCommit(d) ==
  [d EXCEPT !.seq = @ + 1, !.audit = @ \cup {d.seq + 1}, !.n_audit = @ + 1]

Retire_AsReclaimable(row, seq) ==
  IF row.state = "active" THEN [state |-> "reclaimable", by |-> seq] ELSE row

\* retire_generation_record: a row keeps the stamp of its first retirement.
Retire(row, seq) ==
  IF row.state = "active" THEN [state |-> "retired", by |-> seq] ELSE row

SnapshotTxn_StaleDigest(d, g, edits, digest) ==
  [AuditedCommit(d) EXCEPT
     !.file = "ok", !.active = g, !.payload = edits, !.n_generations = @ + 1,
     !.generations =
        [n \in GenIds |-> IF n = g THEN ActiveRow ELSE Retire(@[n], d.seq + 1)]]

\* write_legacy_snapshot_inner and write_snapshot_transaction for generation
\* g (0: an empty_lazy snapshot, which has none).
SnapshotTxn(d, g, edits, digest) ==
  [AuditedCommit(d) EXCEPT
     !.file = "ok", !.active = g, !.digest = digest, !.payload = edits,
     !.n_generations = IF g = 0 \/ (d.file = "ok" /\ d.active = g)
                         THEN @ ELSE @ + 1,
     !.generations = IF g = 0 THEN @ ELSE
        [n \in GenIds |-> IF n = g THEN ActiveRow ELSE Retire(@[n], d.seq + 1)]]

\* commit_metadata_patch
PatchTxn(d, c) == [AuditedCommit(d) EXCEPT !.payload = @ \cup {c}]

GcTxn_Unaudited(d, paths, count, state) ==
  [d EXCEPT !.seq = @ + 1, !.gc_rows = @ \cup ((d.n_gc + 1)..(d.n_gc + count)),
            !.n_gc = @ + count]

GcTxn_RestartRowIds(d, paths, count, state) ==
  [AuditedCommit(d) EXCEPT !.gc_rows = @ \cup 1..count, !.n_gc = @ + count]

\* record_generation_gc_inner for `count` rows that put the paths into state:
\* row ids continue from the manifest's own count.
GcTxn(d, paths, count, state) ==
  [AuditedCommit(d) EXCEPT
     !.gc_rows = @ \cup ((d.n_gc + 1)..(d.n_gc + count)),
     !.n_gc = @ + count,
     !.gc_latest = [p \in Paths |-> IF p \in paths THEN state ELSE @[p]]]

-----------------------------------------------------------------------------
(* Environment                                                             *)

Contended ==
  /\ contentions < MaxContention
  /\ contentions' = contentions + 1
  /\ UNCHANGED <<ops, crashes>>

Calm == UNCHANGED envVars

\* A redb open that does not succeed: what it reads does not verify, or the
\* file is open elsewhere.
Refused(verified) == (~verified /\ Calm) \/ Contended

StartOp ==
  /\ ops < MaxOps
  /\ ops' = ops + 1
  /\ UNCHANGED <<crashes, contentions>>

Goto(p, label) == pc' = [pc EXCEPT ![p] = label]

Finish_KeepLock(p, result) ==
  /\ Goto(p, "idle")
  /\ outcome' = [outcome EXCEPT ![p] = result]
  /\ lock' = IF lock = p /\ result # "failed" THEN NoProc ELSE lock

\* Every operation ends by dropping the WriterLockGuard if it holds it.
Finish(p, result) ==
  /\ Goto(p, "idle")
  /\ outcome' = [outcome EXCEPT ![p] = result]
  /\ lock' = IF lock = p THEN NoProc ELSE lock

-----------------------------------------------------------------------------
(* AdapterStore.load: three reads of the directory                         *)

NoHandle == [edits |-> {}, index |-> {}, token |-> NoRevision, src |-> NoRevision]

\* _read_adapter_state: the payloads, with the generation they name.
LoadPayloads(w) ==
  /\ pc[w] = "idle"
  /\ OpenVerifies(0)
  /\ handle' = [handle EXCEPT ![w] =
                  [NoHandle EXCEPT !.edits = db.payload, !.src = Revision(db)]]
  /\ Goto(w, "loadToken")
  /\ outcome' = [outcome EXCEPT ![w] = "none"]
  /\ UNCHANGED <<db, disk, vectorsDir, pins, lock, newGen, published, rev, gc>>
  /\ Calm

\* _current_adapter_commit: the base commit token, from a second open.
LoadToken(w) ==
  /\ pc[w] = "loadToken"
  /\ \/ /\ OpenVerifies(0)
        /\ handle' = [handle EXCEPT ![w].token = Revision(db)]
        /\ Goto(w, "loadIndex")
        /\ UNCHANGED outcome
        /\ Calm
     \/ /\ handle' = [handle EXCEPT ![w] = NoHandle]
        /\ Goto(w, "idle")
        /\ outcome' = [outcome EXCEPT ![w] = "load_failed"]
        /\ Refused(OpenVerifies(0))
  /\ UNCHANGED <<db, disk, vectorsDir, pins, lock, newGen, published, rev, gc>>

LoadIndex_Newest(w) ==
  LET newest == Max({0} \cup GensOnDisk) IN
  /\ pc[w] = "loadIndex"
  /\ handle' = [handle EXCEPT ![w].index =
                   IF newest = 0 THEN {} ELSE disk[Gen(newest)].records]
  /\ outcome' = [outcome EXCEPT ![w] = "loaded"]
  /\ Goto(w, "idle")
  /\ UNCHANGED <<db, disk, vectorsDir, pins, lock, newGen, published, rev, gc>>
  /\ Calm

\* The vectors: OrdinalIndex.load of the generation the payloads name, and
\* the slot map's check that ids and vectors are equally many.  An empty_lazy
\* snapshot is refused as soon as vectors/ exists.
LoadIndex(w) ==
  LET src == handle[w].src
      loadable == IF src.active = 0
                    THEN ~vectorsDir
                    ELSE /\ OnDisk(src.active)
                         /\ Cardinality(disk[Gen(src.active)].records)
                              = Cardinality(Records(handle[w].edits))
      vectors == IF src.active = 0 THEN {} ELSE disk[Gen(src.active)].records
  IN
  /\ pc[w] = "loadIndex"
  /\ handle' = [handle EXCEPT ![w] =
                  IF loadable THEN [@ EXCEPT !.index = vectors] ELSE NoHandle]
  /\ outcome' = [outcome EXCEPT ![w] = IF loadable THEN "loaded" ELSE "load_failed"]
  /\ Goto(w, "idle")
  /\ UNCHANGED <<db, disk, vectorsDir, pins, lock, newGen, published, rev, gc>>
  /\ Calm

\* AdapterStore.add of the writer's own record; memory only.
Add(w) ==
  /\ pc[w] = "idle"
  /\ w \notin handle[w].edits
  /\ handle' = [handle EXCEPT ![w].edits = @ \cup {w}, ![w].index = @ \cup {w}]
  /\ UNCHANGED <<db, disk, vectorsDir, pins, lock, pc, newGen, outcome,
                 published, rev, gc>>
  /\ Calm

-----------------------------------------------------------------------------
(* AdapterStore.save                                                       *)

IsEmptyLazy(w) == handle[w].index = {}

SaveAcquire(w) ==
  /\ pc[w] = "idle"
  /\ StartOp
  /\ published' = [published EXCEPT ![w] = FALSE]
  /\ \/ /\ lock = NoProc
        /\ lock' = w
        /\ Goto(w, "fresh")
        /\ outcome' = [outcome EXCEPT ![w] = "none"]
     \/ /\ lock # NoProc
        /\ outcome' = [outcome EXCEPT ![w] = "failed"]
        /\ UNCHANGED <<lock, pc>>
  /\ UNCHANGED <<db, disk, vectorsDir, pins, handle, newGen, rev, gc>>

\* _require_fresh_base_generation
BaseIsFresh(w) ==
  \/ db.file = "absent"
  \/ OpenVerifies(0) /\ handle[w].token = Revision(db)

NextGeneration_SmallestFree == Min(GenIds \ GensOnDisk)

\* _next_index_path: one more than the largest generation directory.
NextGeneration == Max({0} \cup GensOnDisk) + 1

SaveCheckBase(w) ==
  /\ pc[w] = "fresh"
  /\ \/ /\ BaseIsFresh(w)
        /\ NextGeneration \in GenIds
        /\ newGen' = [newGen EXCEPT ![w] = IF IsEmptyLazy(w) THEN 0 ELSE NextGeneration]
        /\ Goto(w, IF IsEmptyLazy(w) THEN "commit" ELSE "temp")
        /\ UNCHANGED <<lock, outcome>>
        /\ Calm
     \/ /\ Finish(w, "failed")
        /\ UNCHANGED newGen
        /\ db.file # "absent"
        /\ Refused(BaseIsFresh(w))
  /\ UNCHANGED <<db, disk, vectorsDir, pins, handle, published, rev, gc>>

\* _write_generation: write the scratch directory ...
SaveWriteTemp(w) ==
  /\ pc[w] = "temp"
  /\ disk' = [disk EXCEPT ![Tmp(newGen[w])] = Bundle(handle[w].index)]
  /\ vectorsDir' = TRUE
  /\ Goto(w, "rename")
  /\ UNCHANGED <<db, pins, lock, handle, newGen, outcome, published, rev, gc>>
  /\ Calm

\* ... and rename it to the canonical name once it is synced and verified.
SaveRename(w) ==
  /\ pc[w] = "rename"
  /\ disk' = [disk EXCEPT ![Gen(newGen[w])] = disk[Tmp(newGen[w])],
                          ![Tmp(newGen[w])] = Absent]
  /\ Goto(w, "commit")
  /\ UNCHANGED <<db, vectorsDir, pins, lock, handle, newGen, outcome, published,
                 rev, gc>>
  /\ Calm

\* An I/O error before the rename removes the scratch directory; one after it
\* (the directory fsync) leaves the canonical, unreferenced generation.
SaveIoError(w) ==
  /\ pc[w] \in {"rename", "commit"}
  /\ ~IsEmptyLazy(w)
  /\ disk' = [disk EXCEPT ![Tmp(newGen[w])] = Absent]
  /\ Finish(w, "failed")
  /\ UNCHANGED <<db, vectorsDir, pins, handle, newGen, published, rev, gc>>
  /\ Calm

\* write_legacy_snapshot_inner's checks: the snapshot's own generation, then
\* the current store and the expected revision.
SaveAccepted(w) ==
  /\ IF newGen[w] = 0
       THEN GensOnDisk = {} /\ Records(handle[w].edits) = {}
       ELSE /\ OnDisk(newGen[w])
            /\ Cardinality(disk[Gen(newGen[w])].records)
                 = Cardinality(Records(handle[w].edits))
  /\ \/ db.file = "absent"
     \/ OpenVerifies(newGen[w]) /\ handle[w].token = Revision(db)

CommitSnapshot(w) ==
  /\ db' = SnapshotTxn(db, newGen[w], handle[w].edits,
                       IF newGen[w] = 0 THEN {} ELSE disk[Gen(newGen[w])].records)
  /\ published' = [published EXCEPT ![w] = TRUE]
  /\ Goto(w, "verify")

\* A new store is created (Database::create) before its first transaction.
SaveCommit(w) ==
  /\ pc[w] = "commit"
  /\ \/ /\ SaveAccepted(w)
        /\ db.file = "absent"
        /\ db' = [db EXCEPT !.file = "created"]
        /\ Goto(w, "create")
        /\ UNCHANGED <<lock, outcome, published>>
        /\ Calm
     \/ /\ SaveAccepted(w)
        /\ db.file = "ok"
        /\ CommitSnapshot(w)
        /\ UNCHANGED <<lock, outcome>>
        /\ Calm
     \/ /\ ~SaveAccepted(w)
        /\ Finish(w, "failed")
        /\ UNCHANGED <<db, published>>
        /\ Calm
     \/ /\ db.file # "absent"
        /\ Goto(w, "recover")
        /\ UNCHANGED <<db, lock, outcome, published>>
        /\ Contended
  /\ UNCHANGED <<disk, vectorsDir, pins, handle, newGen, rev, gc>>

SaveFirstTransaction(w) ==
  /\ pc[w] = "create"
  /\ CommitSnapshot(w)
  /\ UNCHANGED <<disk, vectorsDir, pins, lock, handle, newGen, outcome, rev, gc>>
  /\ Calm

\* A reported success advances the handle's base token.
ReportSaved(w) ==
  /\ handle' = [handle EXCEPT ![w].token = Revision(db), ![w].src = Revision(db)]
  /\ Finish(w, "saved")

\* The fsyncs of adapter.redb and of its directory, then the post-commit
\* open_verified.  An I/O error of any of them is not contention, so
\* _recover_contended_commit re-raises it as it is ("late_error").
SaveVerify(w) ==
  /\ pc[w] = "verify"
  /\ \/ OpenVerifies(0) /\ ReportSaved(w) /\ Calm
     \/ ~OpenVerifies(0) /\ Finish(w, "failed") /\ UNCHANGED handle /\ Calm
     \/ Finish(w, "late_error") /\ UNCHANGED handle /\ Calm
     \/ Goto(w, "recover") /\ UNCHANGED <<lock, outcome, handle>> /\ Contended
  /\ UNCHANGED <<db, disk, vectorsDir, pins, newGen, published, rev, gc>>

CommittedOurs_NoBase(w) == IsEmptyLazy(w) \/ db.active = newGen[w]

\* _recover_contended_commit: whose commit is the store's current one?
CommittedOurs(w) ==
  /\ Revision(db) # handle[w].token
  /\ IsEmptyLazy(w) \/ db.active = newGen[w]

SaveRecover_AwaitStore(w) ==
  /\ pc[w] = "recover"
  /\ OpenVerifies(0)
  /\ \/ CommittedOurs(w) /\ ReportSaved(w)
     \/ ~CommittedOurs(w) /\ Finish(w, "retry_safe") /\ UNCHANGED handle
  /\ UNCHANGED <<db, disk, vectorsDir, pins, newGen, published, rev, gc>>
  /\ Calm

SaveRecover(w) ==
  /\ pc[w] = "recover"
  /\ \/ OpenVerifies(0) /\ CommittedOurs(w) /\ ReportSaved(w) /\ Calm
     \/ /\ \/ OpenVerifies(0) /\ ~CommittedOurs(w) /\ Finish(w, "retry_safe") /\ Calm
           \/ ~OpenVerifies(0) /\ Finish(w, "unknown") /\ Calm
           \/ Finish(w, "unknown") /\ Contended
        /\ UNCHANGED handle
  /\ UNCHANGED <<db, disk, vectorsDir, pins, newGen, published, rev, gc>>

-----------------------------------------------------------------------------
(* Rust clients: open_verified, then commit() with the revision they saw.  *)
(* commit() holds the writer lock from its checks to its transaction, so   *)
(* it is one step; when the post-commit open is refused the caller gets an *)
(* error and keeps its old revision.                                       *)

ClientOpen(c) ==
  /\ OpenVerifies(0)
  /\ rev' = [rev EXCEPT ![c] = Revision(db)]
  /\ UNCHANGED <<db, disk, vectorsDir, pins, lock, pc, handle, newGen, outcome,
                 published, gc>>
  /\ Calm

ClientCommitted(c) ==
  \/ rev' = [rev EXCEPT ![c] = Revision(db')] /\ UNCHANGED contentions
  \/ /\ UNCHANGED rev
     /\ contentions < MaxContention /\ contentions' = contentions + 1

ClientPatch(c) ==
  /\ ops < MaxOps /\ ops' = ops + 1
  /\ lock = NoProc
  /\ OpenVerifies(0)
  /\ rev[c] = Revision(db)
  /\ Records(db.payload) # {}
  /\ db' = PatchTxn(db, c)
  /\ ClientCommitted(c)
  /\ UNCHANGED <<disk, vectorsDir, pins, lock, pc, handle, newGen, outcome,
                 published, gc, crashes>>

\* ReplaceLegacySnapshot naming a generation bundle that is already on disk.
ClientReplace(c, g) ==
  /\ c \in Republishers
  /\ ops < MaxOps /\ ops' = ops + 1
  /\ lock = NoProc
  /\ OnDisk(g)
  /\ OpenVerifies(g)
  /\ rev[c] = Revision(db)
  /\ db' = SnapshotTxn(db, g, (db.payload \ Writers) \cup disk[Gen(g)].records,
                       disk[Gen(g)].records)
  /\ ClientCommitted(c)
  /\ UNCHANGED <<disk, vectorsDir, pins, lock, pc, handle, newGen, outcome,
                 published, gc, crashes>>

-----------------------------------------------------------------------------
(* ordinaldb adapter gc                                                    *)

\* `looked` is history: the pins there were when recovery looked for one in
\* the directory it is about to remove.
NoGc == [pinned |-> {}, reclaim |-> {}, todo |-> {}, looked |-> {}, recovered |-> {},
         deleted |-> {}]

gcUnchanged == <<vectorsDir, handle, newGen, published>>

\* open_verified, before the writer lock is taken.
GcOpen(c) ==
  /\ pc[c] = "idle"
  /\ StartOp
  /\ OpenVerifies(0)
  /\ rev' = [rev EXCEPT ![c] = Revision(db)]
  /\ gc' = [gc EXCEPT ![c] = NoGc]
  /\ outcome' = [outcome EXCEPT ![c] = "none"]
  /\ Goto(c, "gcScan")
  /\ UNCHANGED <<db, disk, pins, lock, gcUnchanged>>

\* generation_directory_summary and the retention loop, newest first: a pinned
\* generation is kept without using the budget.
Retained(c) == GensOnDisk \ {rev[c].active}
BeyondBudget_OffByOne(S) ==
  {n \in S : Cardinality({m \in S : m > n}) + 1 >= Retain}

BeyondBudget(S) == {n \in S : Cardinality({m \in S : m > n}) >= Retain}

GcScan(c) ==
  /\ pc[c] = "gcScan"
  /\ gc' = [gc EXCEPT ![c].pinned = Retained(c) \cap pins,
                      ![c].reclaim = {Gen(n) : n \in BeyondBudget(Retained(c) \ pins)}
                         \cup {Tmp(n) : n \in {m \in GenIds : disk[Tmp(m)] # Absent}}]
  /\ Goto(c, "gcLock")
  /\ UNCHANGED <<db, disk, pins, lock, outcome, rev, gcUnchanged>>
  /\ Calm

GcAcquire(c) ==
  /\ pc[c] = "gcLock"
  /\ \/ lock = NoProc /\ lock' = c /\ Goto(c, "gcLedger") /\ UNCHANGED outcome
     \/ lock # NoProc /\ Finish(c, "failed")
  /\ UNCHANGED <<db, disk, pins, rev, gc, gcUnchanged>>
  /\ Calm

\* recover_interrupted_adapter_gc: the paths whose latest event is "deleting",
\* except the active path read before the lock.
GcLedger(c) ==
  /\ pc[c] = "gcLedger"
  /\ \/ /\ gc' = [gc EXCEPT ![c].todo =
                    {p \in Paths : db.gc_latest[p] = "deleting"} \ {Gen(rev[c].active)}]
        /\ Goto(c, "gcRecover")
        /\ UNCHANGED <<lock, outcome>>
        /\ Calm
     \/ Finish(c, "failed") /\ UNCHANGED gc /\ Contended
  /\ UNCHANGED <<db, disk, pins, rev, gcUnchanged>>

\* Path order: scratch names begin with a dot.
Before(p, q) == IF p[1] = q[1] THEN p[2] <= q[2] ELSE p[1] = "tmp"
IsFirst(p, S) == p \in S /\ \A q \in S : Before(p, q)

DeletePath(p) ==
  /\ disk' = [disk EXCEPT ![p] = Absent]
  /\ pins' = IF p[1] = "gen" THEN pins \ {p[2]} ELSE pins

IsPinned_Ignored(p) == FALSE

IsPinned(p) == p[1] = "gen" /\ p[2] \in pins

\* Recovery's stat of the next interrupted directory and its look for a pin
\* in it ...
GcRecoverCheck(c) ==
  /\ pc[c] = "gcRecover"
  /\ \E p \in Paths :
       /\ IsFirst(p, gc[c].todo)
       /\ \/ /\ disk[p] # Absent /\ IsPinned(p)
             /\ gc' = [gc EXCEPT ![c].todo = @ \ {p}]
             /\ UNCHANGED pc
          \/ /\ disk[p] = Absent
             /\ gc' = [gc EXCEPT ![c].todo = @ \ {p}, ![c].recovered = @ \cup {p}]
             /\ UNCHANGED pc
          \/ /\ disk[p] # Absent /\ ~IsPinned(p)
             /\ gc' = [gc EXCEPT ![c].looked = pins]
             /\ Goto(c, "gcRemove")
  /\ UNCHANGED <<db, disk, pins, lock, outcome, rev, gcUnchanged>>
  /\ Calm

\* ... and its removal, which looks for none.
GcRecoverRemove(c) ==
  /\ pc[c] = "gcRemove"
  /\ \E p \in Paths :
       /\ IsFirst(p, gc[c].todo)
       /\ DeletePath(p)
       /\ gc' = [gc EXCEPT ![c].todo = @ \ {p}, ![c].looked = {},
                           ![c].recovered = @ \cup {p}]
  /\ Goto(c, "gcRecover")
  /\ UNCHANGED <<db, lock, outcome, rev, gcUnchanged>>
  /\ Calm

GcRecord_NoCas(c, paths, count, state, label) ==
  /\ OpenVerifies(0)
  /\ db' = GcTxn(db, paths, count, state)
  /\ rev' = [rev EXCEPT ![c] = Revision(db')]
  /\ Goto(c, label)
  /\ UNCHANGED <<lock, outcome, disk, pins, gc, gcUnchanged>>
  /\ Calm

\* record_generation_gc_with_existing_lock: CAS against the revision the
\* collector holds; the error after a refused post-commit open ends the run.
GcRecord(c, paths, count, state, label) ==
  /\ \/ /\ OpenVerifies(0)
        /\ rev[c] = Revision(db)
        /\ db' = GcTxn(db, paths, count, state)
        /\ rev' = [rev EXCEPT ![c] = Revision(db')]
        /\ \/ Goto(c, label) /\ UNCHANGED <<lock, outcome>> /\ Calm
           \/ Finish(c, "failed") /\ Contended
     \/ /\ Finish(c, "failed")
        /\ UNCHANGED <<db, rev>>
        /\ Refused(OpenVerifies(0) /\ rev[c] = Revision(db))
  /\ UNCHANGED <<disk, pins, gc, gcUnchanged>>

GcRecordRecovered_Unrecorded(c) ==
  /\ pc[c] = "gcRecover"
  /\ gc[c].todo = {}
  /\ Goto(c, "gcMain")
  /\ UNCHANGED <<db, disk, pins, lock, outcome, rev, gc, gcUnchanged>>
  /\ Calm

GcRecordRecovered(c) ==
  /\ pc[c] = "gcRecover"
  /\ gc[c].todo = {}
  /\ \/ /\ gc[c].recovered # {}
        /\ GcRecord(c, gc[c].recovered, Cardinality(gc[c].recovered), "deleted", "gcMain")
     \/ /\ gc[c].recovered = {}
        /\ Goto(c, "gcMain")
        /\ UNCHANGED <<db, disk, pins, lock, outcome, rev, gc, gcUnchanged>>
        /\ Calm

GcRecordReclaimable(c) ==
  /\ pc[c] = "gcMain"
  /\ \/ /\ gc[c].reclaim # {}
        /\ GcRecord(c, gc[c].reclaim, Cardinality(gc[c].reclaim), "reclaimable", "gcMark")
     \/ /\ gc[c].reclaim = {}
        /\ Finish(c, "ok")
        /\ UNCHANGED <<db, disk, pins, rev, gc, gcUnchanged>>
        /\ Calm

GcRecordDeleting(c) ==
  /\ pc[c] = "gcMark"
  /\ GcRecord(c, gc[c].reclaim, Cardinality(gc[c].reclaim), "deleting", "gcDelete")

\* delete_generation_dir: a canonical directory that is gone is an error,
\* scratch that is gone is not.
GcDeleteOne(c) ==
  /\ pc[c] = "gcDelete"
  /\ \E p \in Paths :
       /\ IsFirst(p, gc[c].reclaim \ gc[c].deleted)
       /\ \/ /\ p[1] = "tmp" \/ disk[p] # Absent
             /\ DeletePath(p)
             /\ gc' = [gc EXCEPT ![c].deleted = @ \cup {p}]
             /\ UNCHANGED <<lock, pc, outcome>>
          \/ /\ p[1] = "gen" /\ disk[p] = Absent
             /\ Finish(c, "failed")
             /\ UNCHANGED <<disk, pins, gc>>
  /\ UNCHANGED <<db, rev, gcUnchanged>>
  /\ Calm

\* The final event names the recovered paths again, one row per list entry.
GcRecordDeleted(c) ==
  /\ pc[c] = "gcDelete"
  /\ gc[c].deleted = gc[c].reclaim
  /\ GcRecord(c, gc[c].recovered \cup gc[c].deleted,
              Cardinality(gc[c].recovered) + Cardinality(gc[c].deleted),
              "deleted", "gcDone")

GcReport(c) ==
  /\ pc[c] = "gcDone"
  /\ Finish(c, "ok")
  /\ UNCHANGED <<db, disk, pins, rev, gc, gcUnchanged>>
  /\ Calm

-----------------------------------------------------------------------------
(* Operators and process deaths                                            *)

\* An operator creates or removes .ordinaldb.pin inside a generation.
TogglePin(n) ==
  /\ OnDisk(n)
  /\ pins' = IF n \in pins THEN pins \ {n} ELSE pins \cup {n}
  /\ UNCHANGED <<db, disk, vectorsDir, lock, pc, handle, newGen, outcome,
                 published, rev, gc>>
  /\ Calm

\* A dead process loses its memory and its advisory lock; files stay.
Crash(p) ==
  /\ p \in Crashable
  /\ pc[p] # "idle"
  /\ crashes < MaxCrashes
  /\ crashes' = crashes + 1
  /\ Finish(p, "none")
  /\ handle' = [w \in Writers |-> IF w = p THEN NoHandle ELSE handle[w]]
  /\ gc' = [c \in Collectors |-> IF c = p THEN NoGc ELSE gc[c]]
  /\ UNCHANGED <<db, disk, vectorsDir, pins, newGen, published, rev, ops, contentions>>

-----------------------------------------------------------------------------
LoadStep(w) == LoadToken(w) \/ LoadIndex(w)

SaveStep(w) ==
  \/ SaveCheckBase(w) \/ SaveWriteTemp(w) \/ SaveRename(w) \/ SaveIoError(w)
  \/ SaveCommit(w) \/ SaveFirstTransaction(w) \/ SaveVerify(w) \/ SaveRecover(w)

GcStep(c) ==
  \/ GcScan(c) \/ GcAcquire(c) \/ GcLedger(c) \/ GcRecoverCheck(c)
  \/ GcRecoverRemove(c) \/ GcRecordRecovered(c) \/ GcRecordReclaimable(c)
  \/ GcRecordDeleting(c) \/ GcDeleteOne(c) \/ GcRecordDeleted(c) \/ GcReport(c)

Init ==
  /\ db = EmptyDb
  /\ disk = [p \in Paths |-> Absent]
  /\ vectorsDir = FALSE
  /\ pins = {}
  /\ lock = NoProc
  /\ pc = [p \in Procs |-> "idle"]
  /\ handle = [w \in Writers |-> NoHandle]
  /\ newGen = [w \in Writers |-> 0]
  /\ outcome = [p \in Procs |-> "none"]
  /\ published = [w \in Writers |-> FALSE]
  /\ rev = [p \in Clients \cup Collectors |-> NoRevision]
  /\ gc = [c \in Collectors |-> NoGc]
  /\ ops = 0 /\ crashes = 0 /\ contentions = 0

Next ==
  \/ \E w \in Writers : LoadPayloads(w) \/ Add(w) \/ SaveAcquire(w)
  \/ \E w \in Writers : LoadStep(w) \/ SaveStep(w)
  \/ \E c \in Clients : ClientOpen(c) \/ ClientPatch(c)
  \/ \E c \in Clients, g \in GenIds : ClientReplace(c, g)
  \/ \E c \in Collectors : GcOpen(c) \/ GcStep(c)
  \/ \E n \in GenIds : TogglePin(n)
  \/ \E p \in Procs : Crash(p)

Spec == Init /\ [][Next]_vars

\* A started operation keeps running: nothing in it waits for another process.
Fairness ==
  /\ \A w \in Writers : WF_vars(LoadStep(w) \/ SaveStep(w))
  /\ \A c \in Collectors : WF_vars(GcStep(c))

FairSpec == Spec /\ Fairness

-----------------------------------------------------------------------------
(* Properties                                                              *)

WriterLabels == {"fresh", "temp", "rename", "commit", "create", "verify", "recover"}
CollectorLabels ==
  {"gcLedger", "gcRecover", "gcRemove", "gcMain", "gcMark", "gcDelete", "gcDone"}
LockedLabels == WriterLabels \cup CollectorLabels
Labels == {"idle", "loadToken", "loadIndex", "gcScan", "gcLock"} \cup LockedLabels
Outcomes == {"none", "loaded", "load_failed", "saved", "retry_safe", "unknown",
             "late_error", "failed", "ok"}

Revisions == [seq : Nat, active : 0..MaxGen, digest : Contents]
Rows == [state : {"none", "active", "retired"}, by : Nat]
Databases ==
  [file : {"absent", "created", "ok"}, seq : Nat, active : 0..MaxGen,
   digest : Contents, payload : SUBSET (Writers \cup Clients),
   generations : [GenIds -> Rows], n_generations : Nat,
   gc_rows : SUBSET Nat, gc_latest : [Paths -> LifecycleStates], n_gc : Nat,
   audit : SUBSET Nat, n_audit : Nat]
Handles == [edits : SUBSET (Writers \cup Clients), index : Contents,
            token : Revisions, src : Revisions]
GcStates == [pinned : SUBSET GenIds, reclaim : SUBSET Paths, todo : SUBSET Paths,
             looked : SUBSET GenIds, recovered : SUBSET Paths, deleted : SUBSET Paths]

\* The values every variable of the store, its directory and its processes
\* may take.
TypeOK ==
  /\ db \in Databases
  /\ disk \in [Paths -> [dir : {"absent", "present"}, records : Contents]]
  /\ vectorsDir \in BOOLEAN
  /\ pins \subseteq GenIds
  /\ lock \in Procs \cup {NoProc}
  /\ pc \in [Procs -> Labels]
  /\ handle \in [Writers -> Handles]
  /\ newGen \in [Writers -> 0..MaxGen]
  /\ outcome \in [Procs -> Outcomes]
  /\ published \in [Writers -> BOOLEAN]
  /\ rev \in [Clients \cup Collectors -> Revisions]
  /\ gc \in [Collectors -> GcStates]
  /\ ops \in Nat /\ crashes \in Nat /\ contentions \in Nat

\* The writer lock is held by exactly the process that is between its
\* acquisition and its release, whatever crashed, failed or lost a race in
\* between: the guard is dropped on every exit path of save and gc.
LockDiscipline == \A p \in Procs : pc[p] \in LockedLabels <=> lock = p

\* The manifest's table_counts and the generation records agree with the
\* tables after every committed transaction: one active row, the manifest's,
\* and no open_verified ever fails on a count.
TablesConsistent == TableCountsMatch(db) /\ GenerationRecordsMatch(db)

\* Every commit sequence up to the current one has its audit row, whichever
\* of the snapshot, patch and GC transactions produced it.
AuditComplete == db.audit = 1..db.seq /\ db.n_audit = db.seq

\* The active generation is the newest one ever published: max+1 over the
\* directories never hands out an id the generations table still records.
ActiveIsNewest == \A n \in RecordedGens(db) : n <= db.active

\* Once a vector generation is published the store stays openable: its bundle
\* is on disk with the digest and the number of vectors the manifest records.
PublishedStoreOpens == db.file = "ok" /\ db.active # 0 => OpenVerifies(0)

\* What a save's report says of its snapshot.  "saved" means it is published,
\* "retry_safe" that it is not, so that retrying cannot insert it twice
\* (_recover_contended_commit).  A plain error says neither: it leaves the
\* snapshot out when it precedes the transaction (or the table counts then
\* keep the store from being opened), and in when it is the error of an fsync
\* or a read after it, which the caller is not told.
VerdictSound ==
  \A w \in Writers :
    /\ outcome[w] = "saved" => published[w]
    /\ outcome[w] = "retry_safe" => ~published[w]
    /\ outcome[w] = "failed" => ~published[w] \/ ~TableCountsMatch(db)
    /\ outcome[w] = "late_error" => published[w]

\* A loaded handle pairs the ids of one snapshot with the vectors of that same
\* snapshot, although the two are read at different moments.
LoadedHandleConsistent ==
  \A w \in Writers : outcome[w] = "loaded" => handle[w].index = Records(handle[w].edits)

\* Whatever gc is about to delete, at least Retain newer generations besides
\* the active one stay: the list made before the lock is not stale when used.
RetentionHonoured ==
  \A c \in Collectors : pc[c] \in {"gcMark", "gcDelete"} =>
    \A n \in GenIds : Gen(n) \in gc[c].reclaim =>
      Cardinality({m \in GensOnDisk \ {db.active} :
                     m > n /\ Gen(m) \notin gc[c].reclaim}) >= Retain

\* A gc run that reports success leaves no "deleting" event for a directory
\* that is gone, save for the path that was active when the run began.
OkSettlesLedger ==
  [][\A c \in Collectors :
       (pc[c] # "idle" /\ outcome'[c] = "ok" /\ pc'[c] = "idle") =>
         \A p \in Paths : db.gc_latest[p] = "deleting" =>
           disk[p] # Absent \/ p = Gen(rev[c].active)]_vars

\* Committed edits are never dropped by a later commit.
NoLostUpdate == [][db.payload \subseteq db'.payload]_vars

\* A save whose handle took its payloads and its token from the same revision
\* keeps every edit committed before it (the CAS on StoreRevision).
UntornSavesLoseNothing ==
  [][\A w \in Writers :
       (published'[w] /\ ~published[w] /\ handle[w].src = handle[w].token) =>
         db.payload \subseteq db'.payload]_vars

\* Contention is harmless: after a save that met it, the store still opens.
ContentionNeverCorrupts ==
  \A w \in Writers : outcome[w] \in {"retry_safe", "unknown"} /\ lock = NoProc
                       => OpenVerifies(0)

\* A pin that gc saw when it listed the generations, or that is there when
\* recovery looks for one, keeps its generation: only a pin placed after the
\* look of the process that removes the directory is overlooked.
PinsSeenAreKept ==
  [][\A n \in pins : OnDisk(n)' \/
       \E c \in Collectors :
         \/ pc[c] = "gcDelete" /\ n \notin gc[c].pinned
         \/ pc[c] = "gcRemove" /\ n \notin gc[c].looked]_vars

\* The gc run that follows an interrupted one leaves the interrupted paths
\* recorded as deleted.
InterruptedGcReconciled ==
  \A c \in Collectors : pc[c] = "idle" =>
    \A p \in gc[c].recovered : db.gc_latest[p] = "deleted"

\* The store implements VersionedStore: the token of a writer's handle and the
\* revision a client or a collector holds are the sessions' bases.
Promise == INSTANCE VersionedStore WITH
  Sessions <- Procs,
  Values <- SUBSET (Writers \cup Clients),
  InitialValue <- {},
  revision <- db.seq,
  value <- db.payload,
  base <- [p \in Procs |-> IF p \in Writers THEN handle[p].token.seq ELSE rev[p].seq]

\* Whatever interleaving of loads, saves, commits, gc runs, crashes and refused
\* opens produced it, every commit came from a process that held the store's
\* current revision (expected_revision), and it took the next sequence.
KeepsPromise == Promise!Spec

\* An operation that holds the writer lock gives it back.
LockReleased == \A p \in Procs : lock = p ~> lock # p

=============================================================================
