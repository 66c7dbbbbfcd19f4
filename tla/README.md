# OrdinalDB: TLA+ models, checks and proofs

OrdinalDB is an embedded ordinal vector store. This directory models the parts
of it that keep state and share it between processes, checks them with TLC on
small instances and proves the central results with TLAPS for every instance.

## The system's parts

| Part | State | Operations | What is hard about it |
|---|---|---|---|
| Adapter store engine (`ordinaldb-adapter-store`) | `adapter.redb`: manifest (commit sequence, active generation, digest, table counts), payload tables, `generations`, `gc_queue`, `audit_log` | `open_verified`, `commit`, `write_legacy_snapshot*`, `record_generation_gc*`, `acquire_writer_lock` | compare-and-swap between processes; counts kept by hand beside the tables; redb allows one open handle, so any reader can make a writer's open fail |
| Writer lock (`WriterLockGuard`) | a registry in each process, an OS lock on one file | `acquire`, `release` | threads and processes; locks that belong to the process on some file systems; every step may fail |
| Python `AdapterStore` (`adapters/_common.py`) | in-memory ids, documents, vectors, base commit token | `load`, `add`, `delete`, `search_by_vector`, `save`, `_recover_contended_commit` | `load` reads the directory at three moments; `save` writes a directory, then commits, then verifies, and may be refused or die at each point; an upsert appends rows and then removes the old ones one by one |
| `ordinaldb adapter gc` (`ordinaldb-cli`) | lists computed before the lock, the ledger in `gc_queue` | scan, lock, recover, record, delete, record | decisions made before the lock are used after it; a crash between any two steps; re-runs |
| Other CLI commands | none | `verify`, `inspect`, `stats`, import, export | one-shot |
| Bundle persistence (`ordinaldb/src/io.rs`) | a bundle directory, scratch and backup siblings | write, replace, recover, load | crash windows between two renames; readers that repair |
| `OrdinalIndex`, `IdMapIndex` | vectors by slot, id maps | add, remove, search, write, load | swap-remove keeps two maps inverse; candidate counts, padding and allowlists of a search |
| Sparse index (`ordinaldb-hybrid/src/sparse.rs`) | one file, mapped | build, write, open, search | writer, reader and query must normalise alike; a file is read without a digest |
| Fusion and LTR models (`ordinaldb-hybrid`) | none | RRF fusion, LTR features, tree ensembles | ties, windows, missing sources, trees that loop |
| LTR feature caches (`ordinaldb-ltr`) | directories of a bundle, entries of its manifest | write, attach, verify | trainers share `manifest.json` without a lock; full disks, crashes, republication |
| `HybridBundle` (`ordinaldb/src/hybrid.rs`) | a dense and a sparse handle | `open_verified` | two verifications of a path that may be replaced |

Processes meet only in the directory: `vectors/g<id>.odb` generations, scratch
directories `vectors/.g<id>.odb.tmp-*`, `adapter.redb`, the lock file
`.ordinaldb.write.lock` and the pin files `.ordinaldb.pin`; and, for a bundle outside
a store, in its `manifest.json` and the auxiliary files beside it.

The bundle a generation directory holds is written and read by `io.rs`, which the
Python store, the CLI and embedding programs also call directly on any path.
`IdMapIndex` is what they write and load.

## What makes each part correct

| Part | Correct when |
|---|---|
| Adapter store engine | a commit replaces exactly the revision its session was based on; the counts in the manifest agree with the tables; the audit log has no gap; exactly one generation is active and it is the newest |
| Python `AdapterStore` | contents, vectors and token of a handle belong together; a save either publishes all it holds or leaves the store as it was; a published store opens |
| gc | never removes what the store refers to or a later session needs; a run that says it succeeded left no ledger row half-way; an interrupted run is finished by the next |
| Bundle persistence | the path holds nothing or one whole bundle; an acknowledged write is never lost to an older one; a load returns one write |
| `IdMapIndex` | the ID tables stay inverse and dense; the sign sidecar has the same rows; what was written loads; an ID keeps its vector |
| Writer lock | two threads never hold it; a failed acquisition does not cost the holder its lock |
| Sparse index | what is written opens; a search returns the best documents of the texts it was built from |
| Fusion, LTR models | every row of both windows once, with its ranks; ties break by ID; accepted trees always score |
| LTR feature caches | attaching never costs the bundle or its other auxiliaries; a cache that verified is complete |
| `HybridBundle` | both halves are those of one bundle |

## Modules

* `VersionedStore` - what the adapter store promises: one value with a revision
  number, replaced only by a session that holds the current revision.
* `AdapterStore` - the engine, the Python writers, direct Rust clients and the
  collectors over one directory, with crashes, redb contention and failing fsyncs. It implements
  `VersionedStore` (`KeepsPromise`).
* `BundleIO` - `write_bundle`, `replace_bundle`, `recover_bundle_if_missing` and
  `load_bundle` over one parent directory, with process deaths, power losses and
  failing system calls.
* `KeyedVectors` - what an ID-mapped index promises: a table from IDs to vectors.
* `Vec` - a Rust `Vec` and the two operations the index needs.
* `IdMapIndex` - `IdMapIndex` over `OrdinalIndex`; it implements `KeyedVectors`
  (`KeepsVectors`).
* `WriterLock` - the lock below `AdapterStore`: registry and OS lock, step by step.
* `RecordMap` - the records of the Python store over the same index: names, handles
  and slots, with each removal of an upsert as a step. `KeyedRecords` is what it
  promises (`RecordsKeepVectors`).
* `RankFusion` - ranked batches and reciprocal-rank fusion; pure operators.
* `DenseSearch` - every search of `OrdinalIndex` and `IdMapIndex` over the state of
  `IdMapIndex`; `RecordSearch` - the filtered search of the Python store over `RecordMap`.
* `SparseIndex` - tokenizer, builder, file layout, validation, opening and search.
* `LtrModel` - features, model validation, scoring and reranking.
* `FeatureCache` - trainers writing and attaching caches to one bundle, and a publisher
  that takes the bundle away and puts another in its place.
* `HybridBundle` - composes the last four with a publisher, the sparse file beside
  the bundle and the readers of both halves.
* `MCAdapterStore`, `MCWriterLock`, `MCBundleIO`, `MCIdMapIndex`, `MCHybridBundle` -
  model values and symmetry for TLC. `MCWriterLock` explores the store or its lock.
* `AdapterStoreProofs`, `WriterLockProofs`, `BundleIOProofs`, `RecordMapProofs`,
  `RankFusionProofs`, `SearchProofs`, `FeatureCacheProofs`, `HybridBundleProofs` -
  the theorems.

### How `AdapterStore` corresponds to the code

* `db` is `adapter.redb`. A redb transaction is atomic, so it is one assignment:
  `SnapshotTxn` (`write_snapshot_transaction`), `PatchTxn`
  (`commit_metadata_patch`) and `GcTxn` (`record_generation_gc_inner`), each with
  the manifest counts the code computes by hand (`n_generations`, `n_gc`,
  `n_audit`) beside the tables they describe. `OpenVerifies` is `open_verified`:
  the counts, the single active row, and the active bundle with its digest.
  `db.file = "created"` is the file between `Database::create` and its first
  transaction.
* `disk` is `vectors/`. A bundle is the set of records it holds, and its manifest
  digest is that set. A scratch directory carries its writer's pid and time; the
  model keeps one per generation id.
* A writer's record and a client's metadata patch stand for their edits, so a
  snapshot is the set of edits it contains, and a lost update is a missing member.
* `handle` is the Python object: `edits` (ids, documents, metadata), `index`
  (vectors), `token` (the base commit token) and `src`, the revision the payloads
  were read from; the generation to load is `src.active`.
* `load` is `LoadPayloads`, `LoadToken`, `LoadIndex`; `save` is `SaveAcquire`,
  `SaveCheckBase`, `SaveWriteTemp`, `SaveRename`, `SaveCommit` (or
  `SaveFirstTransaction`), `SaveVerify` and, after contention, `SaveRecover`;
  `SaveIoError` is the clean-up path of `_write_generation`. `SaveVerify` is the two
  fsyncs after the transaction and the `open_verified` that ends the call: an I/O error
  of any of them is no contention, so the save raises it as it is although the snapshot
  is in (`late_error`).
* A collector runs `GcOpen` and `GcScan` without the lock, then `GcAcquire`,
  `GcLedger`, for each path `GcRecoverCheck` (is it there, is it pinned) and
  `GcRecoverRemove`, then `GcRecordRecovered`, `GcRecordReclaimable`,
  `GcRecordDeleting`, `GcDeleteOne`\*, `GcRecordDeleted`, `GcReport`. `looked` is a
  history variable: the pins recovery saw.
* A client's `commit` takes the lock, checks, commits and releases it inside one
  call with nothing another process can see in between: one action.
* Contention: the `Contended` disjuncts. A client or a collector whose fsync fails
  after its transaction ends as one does whose verification is refused, which
  `Contended` gives it. Crashes: `Crash`, which drops the
  process's memory and its advisory lock and leaves the files.

### How `BundleIO` corresponds to the code

* A bundle directory is a number, given in the order writes begin; `tree` says what
  is in it and `names` which directory entry it has: the path, a scratch name
  (`temp_bundle_path`) or a backup name (`unique_backup_bundle_path`, newest stamp
  greatest).
* `survivable` is the set of parent directories a power loss may leave: every one
  since the last fsync of the parent. `tree = "written"` is a bundle whose files are
  not synced, `"synced"` one after `sync_bundle_tree`.
* A writer is at `contents`, `sync`, `replace`, `backup`, `move`, `backup_sync`,
  `publish`, `publish_sync`, `cleanup`, `unlink` or `restore`: one step per system call
  that others can see or that can fail. `StampBackup` reads the clock for the backup's
  name and `TakeBackup` moves the bundle to it, so two writers may do these in opposite
  orders. Where the code tests a name and then renames, the
  two are one step, because rename repeats the test: it is refused when the source
  is gone or the target is a directory with something in it.
* A load is at `scan`, `try`, `recover`, `recover_sync` (`recover_bundle_if_missing`),
  then `verify`, `read_index`, `read_ids` (`load_bundle`), each of which opens the
  path again.
* `pub`, `acked`, `newest` and `raced` are history variables: the order of publication,
  the newest one acknowledged, the newest stamp a bundle was moved away under, and
  whether a backup was put back after a newer one had been moved, or one was moved under
  a stamp older than one already used.

### How `IdMapIndex` corresponds to the code

* `rows` and `sign` are the `RankQuant` and the `SignBitmap` as vectors of the rows
  they encode; `dim`, `slot_to_id` and `id_to_slot` are the fields of those names;
  slots count from 0. `saved` is the bundle last written.
* `AddWithIds`, `Remove`, `Write` and `Load` are the methods, with the
  `OrdinalIndex` calls inside them. A call that returns `Err` or `false` changes
  nothing, so it is a stuttering step; its conditions are the guards.
* `Init` has every sign policy, lazy and with a dimension; `Load` takes each
  `SignLoadPolicy` and an expected dimension.

`DenseSearch` adds the searches. They change nothing, so each is an operator on the
state with the code's sizing (`CandidateCount`, `EffectiveK`), its allowlists and its
batches, and the properties quantify over the calls. `ordvec` ranks by an arbitrary
table `RankScore` and preselects by `SignScore`; which of several equal rows it takes
is its own choice, so a search yields a set of results. A search does not read
`saved`, so the properties look at the states just after a write or a load: every
other state has one of those with the same rows (`JustSaved`).

### How `RecordMap` corresponds to the code

* It extends `IdMapIndex`: `_slot_to_u64` and `_u64_to_slot` are `slot_to_id` and
  `id_to_slot`, kept by the same appends and swap-removes. `string_to_u64`,
  `u64_to_string` and `next_u64_id` are the fields of those names.
* `AddRecords` is `add` up to the append, with `_preflight_batch` (`BatchAccepted`)
  and `_allocate_u64` (`Allocates`); `RemoveReplaced` is one turn of the loop that
  removes the rows an upsert replaced, so what that loop leaves behind at each turn
  is a state. `DeleteRecord` is one ID of `delete`; `SaveRecords` and `LoadRecords` are the
  `id_map` payload and its generation.
* `layer` says which of the two ID layers is over the index. One run checks both.

### How `WriterLock` corresponds to the code

* `registry` is `held_writer_locks` of each process, `osLock` the owner of the
  advisory lock, `at` where a thread is in `acquire` or `release`. `scope` is what an
  OS lock belongs to: the open file description (`flock`) or the process (`fcntl`, the
  environment the comment at `lib.rs:2939` names).
* `Reserve`, `OpenLockFile`, `TryLock`, `Stamp` and, on failure, `CloseRefused` and
  `RollBack` are `acquire`; `Unlock`, `Unregister`, `CloseReleased` are `release` and
  the end of its block. `Die` is a process death.

### How `HybridBundle` and the modules it extends correspond to the code

* `written` is the sparse file beside the bundle with the documents it was built
  from; `Damage` changes one field of it. A file is a record of its header fields and
  sections (`SparseIndex`), a word a base and the number of its trailing `s`, which is
  what `normalize_term` tells apart.
* `WriteMmap`, `OpenSparseFile`, `OpenDense`, `OpenSparseHalf` (the two verifications
  of `open_verified`), `WithdrawBundle` and `PublishBundle` (the two renames of a new
  publication with the sparse file) and `LoadModel` are calls; the searches, fusion and reranking are operators
  that the properties compare with definitions over the documents themselves.
* A trainer of `FeatureCache` is at `writing`, `flushing`, `describing`, `manifest`,
  `closing`, `loading`, `hashing`, `committing` or `verifying`:
  `write_feature_cache_bundle_auxiliary` with two steps per file, its creation and the
  arrival of its content (`CreateFile`, `FlushFile`, and the same for the cache's own
  manifest), and the read, hash, write and re-read of `manifest.json`. A file
  is [who wrote it, from which data, elements, what it says of other files], and its
  digest is that. A file that is not yet, or never, whole has size 0; the error of a
  full disk is either reported, or lost with the `BufWriter` that is dropped.
* `place` is what is at the bundle's path. `Withdraw` takes the bundle away with
  whatever the trainers have put into it, `Publish` puts the next one there, whose other
  auxiliaries are its own (`OtherEntries(gen)`). `BeginCache` in between creates the path
  (`create_dir_all`): then `replace_bundle` cannot publish, does not restore its backup
  and recovery does nothing, until the path is taken away once more. `raced` is a history
  variable: a trainer was at work when the bundle was taken away, or began while it was
  away. Several publishers, their crashes and the recovery of a bundle that was taken
  away are `BundleIO`'s, which knows no trainers.
* Actions that do not read each other's state are not interleaved: the guards
  `TrainersIdle`, `FirstFile` and the like are named as bounds in the module.

Operators with a suffix (`Retire_Restamp`, `GcRecord_NoCas`) in `AdapterStore`, and
those whose comment begins with "Mutant" in the other modules, are faulty variants
of the definition that follows them. Nothing uses them in the specification;
substituting one for its original makes the property named beside
it in `PROJECT.json` fail, which shows that the property can fail.

## Runs

| Run | Instance | Checks |
|---|---|---|
| `store_saves` | 2 writers that crash, 1 collector, 3 operations; beside it, 2 processes of 2 threads at the writer lock, both kinds of OS lock | `TypeOK`, `PublishedStoreOpens`, `LoadedHandleConsistent`, `WriterExclusion`, `RefusalKeepsHolder` |
| `store_gc` | writer, 2 crashing collectors, `--retain 1`, pins, 5 operations | `TablesConsistent`, `ActiveIsNewest`, `RetentionHonoured`, `OkSettlesLedger`, `PinsSeenAreKept` |
| `store_promise` | writer, republishing client, collector, a crash and refused opens, fair | `LockDiscipline`, `AuditComplete`, `VerdictSound`, `KeepsPromise`, `LockReleased`, `UntornSavesLoseNothing` |
| `bundle_replace` | 2 writers of one path, a reader with 2 loads, 4 bundles, a failing call and a death or power loss | `TypeOK`, `PathIntact`, `CommittedSurvives`, `LoadFresh` |
| `id_map` | 2 names, 4 handles (3 IDs for the Rust layer), 2 vectors and a rejected one, 3 dimensions, batches of 2, 4 rows (3), 2 queries, every `k` up to 4 | `TablesAgree`, `SidecarAligned`, `SavedLoads`, `KeepsVectors`, `SearchKeepsPromise`, `FilteredSearchKeepsPromise`, `RecordsAgree`, `RecordsKeepVectors`, `RecordSearchFindsBest` |
| `hybrid_ltr` | 5 corpora, 5 queries, every one-field damage but of the header's tokenizer, `k1` and `b`, 2 trainers of nested names with a fault, a second publication in two steps, all trees of up to 3 nodes | `NamesUnique`, `AttachedEntriesVerify`, `OtherAuxiliariesKept`, `VerifiedCacheIsWhole`, `AcceptedDataVerifies`, `SparseSearchIsSound`, `WrittenFileOpens`, `FusionIsSound`, `AcceptedTreesScore`, `RerankIsSound` |
| `bug_*` | the smallest instance that shows a disagreement | one property each, see below |

Bounds. `MaxOps` counts saves, commits and gc runs, so a run of `MaxOps = 3`
has every interleaving of any three operations with every load, add, crash and
refused open. Three are enough for save / save / gc and for commit between a load
and a save; five for two retained generations, an interrupted gc and its re-run
(`store_gc`). `MaxGen` is at least the number of saves, so the guard
`NextGeneration \in GenIds` never disables a save. `CHECK_DEADLOCK FALSE`: when
`MaxOps` is used up everybody may be idle for good.

`bundle_replace` gives the two writers three rewrites over a bundle that may already
be there, which is what it takes for one to publish between the two renames of
another and a third to take a backup of that; one failing call reaches `Restore`,
one crash any window, and one load may be overtaken at each of its steps; a second
load follows what the first one recovered. The bundle an earlier run left
has the shape of the next two, a later one differs, so a load both accepts and
refuses a replaced index. `id_map` has no counter to use up: it is every reachable
state of an index of up to three rows, and of four under the Python layer, where an
upsert of two rows over two has both. Three rows tell the tail, its neighbour and
the removed slot apart; dimension 64 has a sign sidecar, 4 has none, 3 is invalid. The
two-stage options include each of the two ways to a candidate count of zero; one
query ranks the two vectors one way by scores and by signs, the other has signs that
disagree with its scores.

In `hybrid_ltr` the words differ in base, in how many `s` follow it, in case and in
bytes the tokenizer refuses, one is split into subtokens; the corpora have a repeated
row, equal documents, an empty list and a term that occurs more often than a posting
can hold (`MaxTf = 2` stands for `u16::MAX`). Two trainers, one of whose names extends
the other's, with one failing write or death and one publication are what each
interleaving of the attach needs; a third changes nothing, as an attach meets only
the manifest and its own files. Trees of up to three nodes are all there are: cycles,
shared children, unreachable nodes and splits on an unknown feature. The second
publication has other rows than the first, so that a reader between the two opens
halves that disagree.

A publication is two steps, and every step of a trainer falls before, between and after
them; a trainer at work across it is what `raced` records, and the properties that name
it are checked for every other order: before, after, and across nothing.

`store_saves` has the writer lock as a second, separate state space: `AdapterStore`
takes the lock in one step, so the two share no step worth interleaving. Two threads
in each of two processes give every pair of contenders, local and remote.

Fairness. `FairSpec` asks only that a load, save or gc run that has started keeps
taking its own steps: each is straight-line code that waits for nobody (the lock
and redb are tried, never waited for).

## What the runs found

Six runs end in a violation, each of a statement the repository makes (the operations
guide supports one writable process per adapter directory and promises nothing of
concurrent readers and writers, so some of them are limits to know of):

* `bug_torn_load` - `AdapterStore.load` takes the payloads and the commit token
  from two opens. A commit between them yields a handle with the old contents and
  the new token, and its `save` silently overwrites that commit. A handle whose
  two reads saw the same revision never does (`UntornSavesLoseNothing`).
* `bug_gc_active` - gc recovery spares the active path read before the lock. A
  path left `deleting` by a dead run, re-created and published by a save between
  that read and the lock, is deleted. With collectors that do not die the active
  generation is safe (`store_saves`). The operations guide forbids gc beside a live
  writer, yet says of that race that nothing corrupts the store.
* `bug_gc_rerun` - after a run that died between marking and deleting, with
  nothing retained, the next run deletes the directory in recovery, lists it
  again, and fails on its own deletion, leaving the ledger at `deleting`.
* `bug_republish` - `commit(ReplaceLegacySnapshot)` naming a retired generation
  counts its row twice; no later open verifies. Republishing one that
  was never recorded (left by an I/O error) lowers the active id instead: once gc has
  removed the newer directory, a save is given its recorded id, counts that row twice,
  and is durable although it fails. Every later open is refused, so no retry inserts
  anything twice, and `VerdictSound` allows for it.
* `bug_lazy_contention` - contention in the first vector-bearing save over an
  `empty_lazy` store leaves a canonical generation, after which every open,
  gc's included, is refused.
* `bug_torn_bundle` - `load_bundle` verifies the manifest, then reopens the index and
  the IDs by path and compares only their shapes. One rewrite in between yields the
  manifest of one write with the index of another, or rows with another write's IDs,
  although `io.rs` and `IdMapIndex::write` call the replacement atomic.

`replace_bundle` and recovery take no lock, so the properties of `bundle_replace`
say `~raced`. Without that guard TLC finds that a load which lists the backups while
the path is missing may put its candidate back two rewrites later, when the first has
published and the second has moved that bundle to a newer backup: the path then holds
a bundle older than an acknowledged one, or the remains of one that was being removed.
In the same way a writer whose publishing rename fails can put back a backup older
than another writer's acknowledged publication. And a writer that moves an acknowledged
bundle away under a stamp older than one already used leaves it behind an older bundle:
the clock is read (`io.rs:358`) before the rename (359), two writers may do the two in
opposite orders, and the newest backup is then the older bundle. While neither has happened a recovery is harmless, even in the
middle of a rewrite, which then fails: this is what the proof shows. A failing fsync after the backup rename (`io.rs:360`) returns an error
with the path absent; the next load recovers it.

Other things the models show, without a run of their own:

* A pin placed after gc has listed the generations is not seen by its deletions
  (`main.rs:430`, `502`), and one placed between recovery's look and its removal
  (`main.rs:557`, `560`) is not either; `docs/persistence.md:219` says that a pinned
  generation is protected. `PinsSeenAreKept` states what is kept.
* Two trainers attach at once under two names (ltr `lib.rs:509`, `555`): one writes back
  the manifest it loaded before the other attached, whose entries are gone.
* A publication between a trainer's load and write of `manifest.json`: the new bundle
  gets the manifest of the one it replaced, its IDs and sparse entries included.
  `OtherAuxiliariesKept` says that it does not verify with it; it has to be published again.
* `HybridBundle::open_verified` verifies and opens the dense half, then the sparse half
  (`hybrid.rs:174`, `176`). A publication in between pairs the halves of two bundles, and
  nothing compares their rows. `FusionIsSound` holds of such halves too.
* The release of the writer lock takes the path out of the registry before the file is
  closed (`lib.rs:2897`). Where OS locks belong to the process, the late close drops a
  lock that another thread of that process has taken meanwhile, and another process
  can take it too: hence the exception in `WriterExclusion`. With `flock` there is none.
* A save whose fsync or verification meets an I/O error after the transaction fails
  although its snapshot is in, and the error does not say so (`lib.rs:1032`,
  `_common.py:1198`): the docstring of `_recover_contended_commit` promises an answer only
  for contention. `VerdictSound` says that such a save is in, entirely.
* Attaching `a` drops every `a.*`. A trainer that failed or died leaves files that
  `create_new` refuses from then on. As long as no publication takes the directories
  away, that refusal also keeps trainers out of each other's files, so that nobody
  describes a file before its content is there; two trainers at work across a
  publication can describe each other's half-written files, and mix them in one cache.
* A trainer that begins between the two renames of a publication makes it fail for good:
  its `create_dir_all` (`ordinaldb-ltr/src/lib.rs:401`) creates the path, the rename is
  refused, the backup is not restored (`io.rs:374`) and recovery finds something there
  (`io.rs:393`).
* `VerifiedCacheIsWhole` holds of the four binary files, whose sizes are checked; a torn
  queries, split, provenance or schema file is hashed as it is and verifies.
* The LTR documentation speaks of backfilling scores for documents BM25 did not return
  (`ordinaldb-ltr/src/lib.rs:36`); BM25 gives none to a document without a query term,
  and a model that needs the score refuses the whole batch (`RerankIsSound`).
* A header whose `postings_count` is too small passes `validate_layout`; only `inspect`
  reports it. A document that repeats a term 65,536 times makes the whole sparse write
  fail, leaving the old file. The sparse `atomic_write` does not fsync the parent.
* A bundle written without signs at a dimension that could have them is refused by the
  default load policy, as its documentation says.

One more: the Python loader refuses an `empty_lazy` store as soon as `vectors/` exists,
which any interrupted first save leaves (`_common.py:1653`).

## Proofs

`AdapterStoreProofs` proves, for every set of processes and every bound, from the
assumptions named in `AdapterStore` (the process classes are disjoint, `NoProc` is
not a process, the bounds are natural numbers):

* `TypeCorrect` - `TypeOK`. It is inductive: one lemma per group of actions, over
  lemmas that the three transactions map databases to databases.
* `LockSafe` - `LockDiscipline`, inductive beside `TypeOK`: every action either
  leaves the locked region through `Finish`, stays on its side of it, or enters it
  when nobody holds the lock.
* `AuditIsComplete` - `AuditComplete`: `DbStep` lists what a step may do to the
  database, and each transaction extends a gap-free log by its own number.
* `StoreKeepsPromise` - the refinement of `VersionedStore`. The commits of clients,
  collectors and later saves compare the revision themselves; the first one does
  not, because there is nothing to compare with. The strengthening `FirstCommit`
  (before the first transaction nobody holds a token, and only the lock holder can
  be about to write it) covers that case, and needs `LockDiscipline`.
* `VerdictIsSound` - `VerdictSound`, and `UntornSavesKeepEdits` -
  `UntornSavesLoseNothing`, from `WInv`. `Saving` says what the store is at each step of
  a save: before the commit it is absent or at the handle's token; after it, it is what
  the save made it (`Landed`), so that recovery recognises its own commit and only the
  table counts can refuse the post-commit open, and an I/O error after it finds the
  snapshot in; in recovery it is one or the other. The
  lock makes these facts stable: no other process changes the store or its directory
  under a holder (`HolderAlone`). `Sourced` says that a handle has every edit of the
  revision its payloads came from.
* `TablesStayConsistent` and `ActiveStaysNewest` - `TablesConsistent` and
  `ActiveIsNewest`, assuming `Republishers = {}` (`bug_republish` shows why). Neither is
  inductive: a commit's row is new only because its id is larger than the active one
  (`Newer`), which holds because the save began where the active directory is listed
  (`NextIsNewer`).
* `OkRunsSettleLedger` - `OkSettlesLedger`, and `SeenPinsAreKept` - `PinsSeenAreKept`,
  from `HouseInv`, without further assumptions. `Settled` bounds, step by step of a gc
  run, which announced deletions may have happened without being recorded: during
  recovery those it has yet to visit or to write back, afterwards none, and while the run
  deletes only those on its own list; the lock keeps other runs out of the ledger. A pin that a run listed stays off its list
  (`Listing`), and recovery, which looks again, removes only what was not pinned when it
  looked; between the look and the removal a pin comes too late.
* `LoadedHandlesAgree` - `LoadedHandleConsistent`, from `BundleInv`, again for
  `Republishers = {}`. The manifest, the active directory and the ids hold the same
  records (`RecordedDigest`, `BundleKept`); a load that has read its payloads finds
  their generation's vectors or no such directory (`Loading`, `SourceKept`), because an
  id that the generations table records is never given to a later save.
* `RetentionIsHonoured` - `RetentionHonoured`, from `RetInv` and `Republishers = {}`. A
  collector scans before it takes the lock, so its list is within the budget only while
  its revision is the store's (`OnBudget`, `Listed`). What an interrupted run announced
  is counted as kept by the next scan and then removed by the next recovery; the
  property survives because an announced generation had enough newer ones that are not
  announced (`LedgerGuarded`), and a save's new directory is not among them until it is
  published (`InFlight`).
* `PublishedStoresOpen` - `PublishedStoreOpens`, from `OpenInv`, for
  `Republishers = {}` and either `Retain >= 1` (the CLI's default is 1) or no
  interrupted gc run (no collector dies, and redb refuses it no open and no fsync). Neither assumption
  can be dropped: `bug_republish` and `bug_gc_active` violate the property without
  them. With `Retain >= 1` every announced generation has a newer one on disk
  (`LedgerGuarded`), so `max + 1` is never an announced id (`Unannounced`). With
  `Retain = 0` that argument is not there; `Undisturbed` takes its place: paths are
  announced only under a collector that is deleting them and will finish.

The first half of `RecordMapProofs` proves, for all sets of IDs, vectors and dimensions and all bounds
(the assumptions are those of `IdMapIndex`: `NoVector` is not a vector, `0` is not a
valid dimension, the bounds are natural numbers), that the conjunction
`IInv == TypeOK /\ TablesAgree /\ SidecarAligned /\ SavedLoads` is inductive.
`TablesAgree` alone is not: after a load the tables are those of `saved`, so
`SavedLoads` must say that what was written has distinct IDs and one per row, and
`SidecarAligned` that the two row stores have one length. From it:

* `IdMapTypeCorrect`, `IdMapTablesAgree`, `IdMapSidecarAligned`, `IdMapSavedLoads`;
* `IdMapKeepsVectors` - the refinement of `KeyedVectors`, one lemma per method. The
  case that needs the inverse tables is `Remove`: the tail row moves, and only the
  tail's ID may be resolved differently.

The second half proves that the Python layer runs `IdMapIndex` (`RecordsRunIdMap`:
each of its steps is an `IdMapIndex` step or leaves that state alone), so the theorems
above hold of its tables too, and from `RInv`, that `RecordsAgree` holds at every step of
an upsert (`RecordsConsistent`). `RecordsAgree` is not inductive: a load needs
`SavedRecordsAgree`, which relates the `id_map` payload to the IDs of its generation.
`RecordsKeepTheirVectors` is the refinement of `KeyedRecords`: a name reads the table of
`IdMapIndex` under its handle (`NamesRead`), so each step follows from what the Rust step
does to that table. The rows an upsert still has to remove are no name's, which is where
`RecordsAgree` is needed. The assumptions are that handles are an interval from 1 and that
`NoName` is no name.

`SearchProofs` proves, for any vectors, scores, queries, options and bounds, that searches
answer by ID what the tables hold now, however rows were appended, swap-removed, replaced
and loaded before:

* `SearchesKeepPromise` - `SearchKeepsPromise`: the exact search, and a two-stage one;
* `AllowlistsFilter` - `FilteredSearchKeepsPromise`: a search restricted by IDs, slots or
  a mask is that search over the rows it names, and a batch of two searches, each
  with its own allowlist, answers each query as if it were alone;
* `RecordSearchesFindBest` - `RecordSearchFindsBest`: the filtered search of the Python
  store, through two more tables.

The argument has three steps. `CountingLists`, in `RankFusionProofs`: counting the smaller
members numbers a finite, totally ordered set without a gap, so candidate lists hold every
slot once. `Ranked`: what `ordvec`
returns for such a list is best by slot (`SubsetIsRanked`). `RankedIds`: where the tables
are inverse (`IInv`), best by slot is best by ID. An allowlist may name one ID for each
row, which needs `RowsBounded` of `RecordMapProofs`. A two-stage search scores only its
candidates; under the default options these are all rows only up to 256 rows, hence
`ScoresEveryRow` in `SearchFindsBest`. Beyond that it returns as many hits as its plan
reports and none that a row left out beats in both scores.

The batches go through the ranked lists of fusion. `NormalizeRanks` says that normalising
a list of distinct rows keeps all of them and puts a better row first, so `Ranked` answers
survive it although rows of equal score change places (`NormalizedIds`). The slot batch
writes every query's hits into one flat array, padded to the longest: `RowsOfQuery` reads
the rows of one query back from its cells and finds no padding among them. The assumptions
are that scores and row IDs are numbers, that `NonFinite` is none, that `Err` is no list of
hits and `None` no mask.

`BundleIOProofs` proves every property of `bundle_replace`, for any writers, readers and
bounds: `BundleTypeCorrect`, `PathStaysIntact`, `CommitsSurvive` and `LoadsAreFresh`. The
invariant `IInv` is about the bundle that a directory *serves*: what the path holds, or
the newest backup when there is nothing. Every directory a power loss may leave serves a
synced bundle, at least as new as what was acknowledged; a backup that is being removed is
served by none of them; a recovery whose stamp is current has every backup on its
list, so that its candidate is the served one. A stamp that a writer has read but not
yet used names no backup (`StampsOK`), so a bundle it moves away without having been
overtaken becomes the newest backup and stays served. Only `Publish` changes what is served: each
other action has a lemma that says so. Two arguments count: a write uses up one bundle
number and at most one backup stamp (`Counted`), which bounds the clock and the
publication numbers by cardinalities. The assumptions are those of `BundleIO`.

`WriterLockProofs` proves `LockExcludes` and `LockRefusalHarmless` for any processes and
threads. The invariant `LockInv` says that a registration belongs to one thread of a
process and, with per-description locks, that the OS lock is that of the thread which
took it. Refusals are harmless whatever an OS lock belongs to: the registry keeps the
other threads of the process from opening the file.

`FeatureCacheProofs` proves `CacheTypeCorrect`, `CacheNamesUnique`, `CacheKeepsOthers`,
`CacheEntriesVerify`, `CacheVerifiedIsWhole` and `CacheAcceptedVerifies` for any trainers,
names and data. In `IInv` a manifest, whether it is the bundle's or a copy a trainer has
read, lists each name once, and its other auxiliaries are all those of the publication it
was made for, and of no other. `Calm` is about publications no trainer was at work across:
then every manifest is of the bundle that is there, a file that an entry or a description
names is on disk as it says, and one that is still to be written is nobody else's, because
`create_new` refuses. This is what `CacheKeepsOthers` and `CacheEntriesVerify` need. `FilesInv`
says that every file comes from validated data and, under `Calm`, that a cache manifest
describes the files of one trainer beside it; the last two theorems follow from it.
`HybridBundleProofs` proves that the composed system implements `FeatureCache`
(`BundleRunsCaches`) and so that its bundle verifies (`BundleEntriesVerify`).

`TreesScore` proves `AcceptedTreesScore` for any trees, feature vectors and options: what
`validate_reachable_tree` accepts once, over both children of every split, `score_tree` can
follow for every feature vector. The two recursions are functions from a bounded interval
to functions of the nodes, and exist by `IterationExists` (in `RankFusionProofs`, with the
other facts about counting). Along the nodes that the features lead to,
a walk that has not failed goes on one level deeper and meets no node twice
(`WalkFollows`); so a leaf comes within `max_depth` levels, after fewer splits than there
are nodes (`LeafReached`), which is as many steps as `score_tree` has (`LeafScored`). The
assumption `TreeLists` is that a model lists its names, its trees and their nodes, with
numbers for leaves, base score and learning rate, and that limits are natural numbers.

`WrittenFilesOpen` proves `WrittenFileOpens` for any corpora: `validate_layout` recomputes
every offset, length and total of the file and finds nothing to refuse in what the builder
wrote. Until it is damaged the file is what the builder made of one of the corpora
(`WrittenInv`); the rest is about that file. Each term the tokenizer gives is normalized
(`NormalizeTermIs`), the documents have row IDs of their own (`PendingDocsIs`), the terms
stand in the order of their bytes (`TermOrderLists`) and each has a posting for every
document it is in, in order (`PostingsAre`). `Layout` says where these lists lie in the
section of postings: `FlattenIs` and `SumBeforeIs` give the offsets, hence the term table
(`TableIsValid`). The lengths need two counts of one set: summed over the section, a
document's postings give its terms once for each entry (`DocLenIs`, by `SumOfOne` for the
one posting a block has of it), and counting each distinct term of a text gives its length
(`CountsSum`). The assumptions are that bases are numbered and have lengths, that corpora
are texts over them with u64 row IDs, and that the first bundle could be written.

`FusionsAreSound` proves `FusionIsSound` for any corpora, texts, dense scores, windows and
rank constants. The arithmetic is in `RankFusionProofs`: the common denominator is a
multiple of `rank_constant + rank` for every rank (`DenominatorIs`), so a better rank
contributes more (`ContributionIs`) and a row that is as good in both sources and better in
one has the larger sum (`FusedRowsRight`); `RankOrderLists` needs the rows to be finitely
many with a number each. That the two searches give such lists is the other half. Every
file the system meets, damaged or not, is typed and has as many rows as some corpus
(`DataInv`, where `DamageIsTyped` goes through every damage); what `validate_layout`
accepted has postings within bounds, of different documents (`AcceptedPostings`), the binary
search stays within the term table (`FindTermIs`), so each weight is a number
(`TermWeightIs`) and a search ranks each document once (`SparseSearchIs`). The assumptions
are `InputsAreTyped` and `IdfIsGiven`: ID lists name rows the dense search scores, each
once, configurations are those `RrfConfig::validate` accepts, and the inverse document
frequency is a number.

`RerankingsAreSound` proves `RerankIsSound` for any models that were accepted. What a fused
row says of the two lists is what the features look up in them again (`FusedSees`), so
`from_inputs` refuses the batch exactly when some row has no value for some feature name
(`FeatureIs`, `FeaturesAre`); otherwise each tree has a leaf for it (`TreeValueIs`, from the
lemma under `TreesScore`), each row a number (`ScoreIsInt`), and the rows in rank order,
laid end to end and taken apart again (`LaidEndToEnd`), are the result. The assumption
`ResultsAreNeither` is that `Err` and `None` are not values a call returns.

`SparseSearchesAreSound` proves `SparseSearchIsSound` for any corpora, damage, allowlists and
`top_k`. An opened file was accepted by `validate_layout`, and if nothing has touched it, it
is what the builder made (`IndexInv`). Its terms are strictly sorted, so the binary search
finds the entry of a term exactly when there is one (`FindTermFinds`, from bounds each step
keeps, `BoundsStay`). The reference computes everything from documents; these are what the
tables say (`MeantBy`): of a damaged file by definition (`TableTfFits`), of an intact one
because the builder counted the terms of the texts (`BuiltCounts`). So a query term weighs the
same in both, with the number of its postings for the document frequency (`FrequencyIs`,
`MeantWeightIs`). The code adds the weights in the order of first occurrence, the reference in
any order: two lists of the same numbers have the same sum (`SumsReordered`). The rows ranked
are then those of the reference (`RowsAreMeant`), their best are returned (`RankedIsBest`), and
the lists of a batch are taken apart at the offsets they were put together with
(`BatchIsRight`).

Only model-checked: liveness (`LockReleased`), which the prover does not handle.

## What is left

`import-legacy` as a client of the store, and the standalone cache directory of the LTR
crate.

## Not modelled

JSON parsing and schema validation, file digests and UUIDs (a digest is the set it
digests), symlink and path checks, the legacy JSON layout, vector arithmetic (in the
external `ordvec`), benchmarks and examples. The CLI's `verify`, `inspect` and `stats`
read and print; `import-legacy` and `export-json` convert once. The Python bindings and
framework adapters convert arguments (the masked search of `PyOrdinalIndex` is in
`RecordSearch`), and the manifest helpers re-export `ordvec-manifest`.

In `RecordMap` documents and metadata follow the names and are left out, with the
metadata filters and the MMR reranking over them; an `empty_lazy` store is saved in
`AdapterStore` only. In `BundleIO` the encoding of `ids.bin`, the validation of auxiliary
artifacts, symlinked backups and the retried rename on Windows are left out, and the
clock that stamps backups is assumed not to go back. In `SparseIndex` bytes are fields,
and f32 scores are integers, so rounding is not seen. The disk is assumed to keep
what was synced.
