------------------------------ MODULE BundleIO ------------------------------
(***************************************************************************)
(* Replacing and loading one `.odb` bundle directory (ordinaldb/src/io.rs):*)
(* write to a scratch directory, verify, fsync, move the old bundle to a   *)
(* backup name, rename the new one into place, remove the backup; and the  *)
(* load that recovers a backup when the path is missing.  Writers and      *)
(* readers are processes that share nothing but the parent directory, and  *)
(* io.rs takes no lock.                                                    *)
(*                                                                         *)
(* A bundle directory is an inode numbered in the order writes begin;      *)
(* names maps directory entries to inodes.  survivable is the set of       *)
(* parent directories a power loss may leave: every one since the last     *)
(* fsync of the parent.                                                    *)
(***************************************************************************)
EXTENDS Integers, FiniteSets, FiniteSetsExt

CONSTANTS
  Writers,      \* processes calling OrdinalIndex::write or IdMapIndex::write
  Readers,      \* processes calling load
  MaxBundles,   \* bound: bundles: one that may exist at first, one per write
  MaxLoads,     \* bound: loads started
  MaxErrors,    \* bound: system calls that fail
  MaxCrashes,   \* bound: process deaths and power losses
  RowsOf        \* RankQuant::len of each bundle

ASSUME BundleBounds ==
  MaxBundles \in Nat \ {0} /\ {MaxLoads, MaxErrors, MaxCrashes} \subseteq Nat
ASSUME BundleRows == RowsOf \in [1..MaxBundles -> Nat]
ASSUME BundleProcs == Writers \cap Readers = {}

Bundles == 1..MaxBundles
None == 0                                   \* no such directory entry
Foreign == -1                               \* a symlink or a plain file
Path == <<"path", 0>>                       \* the requested target
Tmp(b) == <<"tmp", b>>                      \* .{name}.tmp-{pid}-{nanos}
Bak(n) == <<"bak", n>>                      \* .{name}.bak-{pid}-{nanos}, n the time
Names == {Path} \cup {Tmp(b) : b \in Bundles} \cup {Bak(n) : n \in Bundles}

VARIABLES
  names,       \* the parent directory: entry -> bundle
  tree,        \* what each bundle directory holds
  survivable,  \* the parent directories a power loss may leave behind
  writer,      \* each writer's place in write_bundle
  reader,      \* each reader's place in load_bundle
  begun,       \* bundle numbers used
  clock,       \* backup stamps handed out: SystemTime, assumed monotonic
  newest,      \* the newest stamp a bundle was moved away under
  pub,         \* order of publication of each bundle, 0 before it
  acked,       \* the newest publication some write has returned Ok for
  raced,       \* two rewrites overlapped so that a backup was put back after a
               \* newer one was taken, or one was taken under an older stamp
  loads, errors, crashes

fsVars == <<names, tree, survivable>>
counters == <<begun, clock, newest, loads, errors, crashes>>
vars == <<fsVars, writer, reader, pub, acked, raced, counters>>

TreeStates == {"none", "partial", "written", "synced", "removing"}
WriterPcs == {"idle", "contents", "sync", "replace", "backup", "move", "backup_sync",
              "publish", "publish_sync", "restore", "cleanup", "unlink"}
ReaderPcs == {"idle", "scan", "try", "recover", "recover_sync", "verify",
              "read_index", "read_ids", "ok", "err"}

IdleWriter == [pc |-> "idle", bundle |-> None, backup |-> None]
IdleReader == [pc |-> "idle", cands |-> {}, seen |-> 0, floor |-> 0,
               manifest |-> None, index |-> None, ids |-> None]

\* The path is free, taken by something else, or holds a bundle (number 1)
\* of an earlier run.
Init ==
  \E at \in {None, Foreign, 1} :
    /\ names = [x \in Names |-> IF x = Path THEN at ELSE None]
    /\ tree = [b \in Bundles |-> IF b = at THEN "synced" ELSE "none"]
    /\ pub = [b \in Bundles |-> IF b = at THEN 1 ELSE 0]
    /\ acked = IF at = 1 THEN 1 ELSE 0
    /\ survivable = {names}
    /\ writer = [p \in Writers |-> IdleWriter]
    /\ reader = [q \in Readers |-> IdleReader]
    /\ begun = 1 /\ clock = 0 /\ newest = 0
    /\ raced = FALSE
    /\ loads = 0 /\ errors = 0 /\ crashes = 0

-----------------------------------------------------------------------------
(* The file system as io.rs uses it. *)

Moved(from, to) == [names EXCEPT ![to] = names[from], ![from] = None]
Unlinked(x) == [names EXCEPT ![x] = None]

\* A change of the parent directory that nothing has synced yet.
Change(ns) == names' = ns /\ survivable' = survivable \cup {ns}
\* fs::rename, remove_dir_all or create_dir_all followed by its fsync.
ChangeSynced(ns) == names' = ns /\ survivable' = {ns}
\* sync_parent_directory
SyncParent == survivable' = {names} /\ UNCHANGED names

\* verify_for_load: the manifest is there and every artifact matches it.
Intact(b) == b \in Bundles /\ tree[b] \in {"written", "synced"}

\* Backups that exist, and the newest that verifies: what a load falls back on.
BackupsOnDisk == {n \in Bundles : names[Bak(n)] # None}
IntactBackups == {n \in BackupsOnDisk : Intact(names[Bak(n)])}
Recovered == IF names[Path] # None THEN names[Path]
             ELSE IF IntactBackups # {} THEN names[Bak(Max(IntactBackups))]
             ELSE None

\* A backup goes back to the path although one newer than stamp n was taken.
Overtaken(n) == newest # n

Fail == errors < MaxErrors /\ errors' = errors + 1

-----------------------------------------------------------------------------
(* write_bundle and replace_bundle *)

Goto(p, pc) == writer' = [writer EXCEPT ![p].pc = pc]

ReturnErr(p) == writer' = [writer EXCEPT ![p] = IdleWriter]

ReturnOk(p) ==
  /\ writer' = [writer EXCEPT ![p] = IdleWriter]
  /\ acked' = IF pub[writer[p].bundle] > acked THEN pub[writer[p].bundle] ELSE acked

\* The scratch name carries pid and nanos, so it never exists beforehand.
WriteBegin(p) ==
  /\ writer[p].pc = "idle" /\ begun < MaxBundles
  /\ begun' = begun + 1
  /\ writer' = [writer EXCEPT ![p] = [pc |-> "contents", bundle |-> begun + 1,
                                      backup |-> None]]
  /\ ChangeSynced([names EXCEPT ![Tmp(begun + 1)] = begun + 1])
  /\ tree' = [tree EXCEPT ![begun + 1] = "partial"]
  /\ UNCHANGED <<reader, pub, acked, raced, clock, newest, loads, errors, crashes>>

\* write_bundle_contents and verify_written_bundle
WriteContents(p) ==
  /\ writer[p].pc = "contents"
  /\ tree' = [tree EXCEPT ![writer[p].bundle] = "written"]
  /\ Goto(p, "sync")
  /\ UNCHANGED <<names, survivable, reader, pub, acked, raced, counters>>

\* Mutant: the new bundle is published without sync_bundle_tree.
SyncTreeSkipped(p) ==
  /\ writer[p].pc = "sync"
  /\ Goto(p, "replace")
  /\ UNCHANGED <<fsVars, reader, pub, acked, raced, counters>>

SyncTree(p) ==
  /\ writer[p].pc = "sync"
  /\ tree' = [tree EXCEPT ![writer[p].bundle] = "synced"]
  /\ Goto(p, "replace")
  /\ UNCHANGED <<names, survivable, reader, pub, acked, raced, counters>>

DropTemp(p) ==
  /\ Change(Unlinked(Tmp(writer[p].bundle)))
  /\ tree' = [tree EXCEPT ![writer[p].bundle] = "none"]

WriteFails(p) ==
  /\ writer[p].pc \in {"contents", "sync"}
  /\ Fail /\ DropTemp(p) /\ ReturnErr(p)
  /\ UNCHANGED <<reader, pub, acked, raced, begun, clock, newest, loads, crashes>>

\* Mutant: what is at the path is replaced without a look at its type.
ReplaceCheckAnyType(p) ==
  /\ writer[p].pc = "replace"
  /\ Goto(p, IF names[Path] = None THEN "publish" ELSE "backup")
  /\ UNCHANGED <<fsVars, reader, pub, acked, raced, counters>>

\* symlink_metadata(path), then path.exists()
ReplaceCheck(p) ==
  /\ writer[p].pc = "replace"
  /\ \/ /\ names[Path] = Foreign
        /\ DropTemp(p) /\ ReturnErr(p) /\ UNCHANGED errors
     \/ /\ names[Path] # Foreign
        /\ Goto(p, IF names[Path] = None THEN "publish" ELSE "backup")
        /\ UNCHANGED <<fsVars, errors>>
     \/ Fail /\ ReturnErr(p) /\ UNCHANGED fsVars
  /\ UNCHANGED <<reader, pub, acked, raced, begun, clock, newest, loads, crashes>>

\* unique_backup_bundle_path reads the clock; nothing has moved yet.
StampBackup(p) ==
  /\ writer[p].pc = "backup"
  /\ clock' = clock + 1
  /\ writer' = [writer EXCEPT ![p].pc = "move", ![p].backup = clock + 1]
  /\ UNCHANGED <<fsVars, reader, pub, acked, raced, begun, newest, loads, errors, crashes>>

\* rename_path(path, &backup_path)?: another writer may have moved it away, or
\* taken a backup of what it holds now under a newer stamp.
TakeBackup(p) ==
  /\ writer[p].pc = "move"
  /\ \/ /\ names[Path] # None
        /\ Change(Moved(Path, Bak(writer[p].backup)))
        /\ newest' = Max({newest, writer[p].backup})
        /\ raced' = (raced \/ writer[p].backup < newest)
        /\ Goto(p, "backup_sync")
        /\ UNCHANGED errors
     \/ /\ \/ names[Path] = None /\ UNCHANGED errors
           \/ Fail
        /\ ReturnErr(p) /\ UNCHANGED <<names, survivable, newest, raced>>
  /\ UNCHANGED <<tree, reader, pub, acked, begun, clock, loads, crashes>>

BackupSync(p) ==
  /\ writer[p].pc = "backup_sync"
  /\ \/ SyncParent /\ Goto(p, "publish") /\ UNCHANGED errors
     \/ Fail /\ ReturnErr(p) /\ UNCHANGED <<names, survivable>>
  /\ UNCHANGED <<tree, reader, pub, acked, raced, begun, clock, newest, loads, crashes>>

\* rename_path(temp, path): refused when the path names a directory again.
Publish(p) ==
  /\ writer[p].pc = "publish"
  /\ \/ /\ names[Path] = None
        /\ Change(Moved(Tmp(writer[p].bundle), Path))
        /\ pub' = [pub EXCEPT ![writer[p].bundle] = 1 + Max({pub[b] : b \in Bundles})]
        /\ Goto(p, "publish_sync")
        /\ UNCHANGED errors
     \/ /\ \/ names[Path] # None /\ UNCHANGED errors
           \/ Fail
        /\ IF writer[p].backup = None THEN ReturnErr(p)
           ELSE Goto(p, "restore")
        /\ UNCHANGED <<names, survivable, pub>>
  /\ UNCHANGED <<tree, reader, acked, raced, begun, clock, newest, loads, crashes>>

\* Put the backup back unless someone has filled the path; errors are ignored.
Restore(p) ==
  /\ writer[p].pc = "restore"
  /\ ReturnErr(p)
  /\ \/ /\ names[Path] = None /\ names[Bak(writer[p].backup)] # None
        /\ ChangeSynced(Moved(Bak(writer[p].backup), Path))
        /\ raced' = (raced \/ Overtaken(writer[p].backup))
        /\ UNCHANGED errors
     \/ /\ \/ names[Path] # None /\ UNCHANGED errors
           \/ names[Bak(writer[p].backup)] = None /\ UNCHANGED errors
           \/ Fail
        /\ UNCHANGED <<names, survivable, raced>>
  /\ UNCHANGED <<tree, reader, pub, acked, begun, clock, newest, loads, crashes>>

\* Mutant: the parent directory is not synced after the publishing rename.
PublishSyncSkipped(p) ==
  /\ writer[p].pc = "publish_sync"
  /\ IF writer[p].backup = None THEN ReturnOk(p)
     ELSE Goto(p, "cleanup") /\ UNCHANGED acked
  /\ UNCHANGED <<fsVars, reader, pub, raced, counters>>

PublishSync(p) ==
  /\ writer[p].pc = "publish_sync"
  /\ \/ /\ SyncParent /\ UNCHANGED errors
        /\ IF writer[p].backup = None THEN ReturnOk(p)
           ELSE Goto(p, "cleanup") /\ UNCHANGED acked
     \/ Fail /\ ReturnErr(p) /\ UNCHANGED <<names, survivable, acked>>
  /\ UNCHANGED <<tree, reader, pub, raced, begun, clock, newest, loads, crashes>>

\* remove_dir_all(&backup_path) empties the directory, then unlinks its name;
\* every error of it, and of the fsync after it, is ignored.
Cleanup(p) ==
  /\ writer[p].pc = "cleanup"
  /\ \/ /\ names[Bak(writer[p].backup)] # None
        /\ tree' = [tree EXCEPT ![names[Bak(writer[p].backup)]] = "removing"]
        /\ Goto(p, "unlink") /\ UNCHANGED <<acked, errors>>
     \/ /\ \/ names[Bak(writer[p].backup)] = None /\ UNCHANGED errors
           \/ Fail
        /\ ReturnOk(p) /\ UNCHANGED tree
  /\ UNCHANGED <<names, survivable, reader, pub, raced, begun, clock, newest, loads,
                 crashes>>

Unlink(p) ==
  /\ writer[p].pc = "unlink"
  /\ \/ ChangeSynced(Unlinked(Bak(writer[p].backup))) /\ UNCHANGED errors
     \/ Fail /\ UNCHANGED <<names, survivable>>
  /\ ReturnOk(p)
  /\ UNCHANGED <<tree, reader, pub, raced, begun, clock, newest, loads, crashes>>

-----------------------------------------------------------------------------
(* load_bundle and recover_bundle_if_missing.  A load whose read fails       *)
(* changes nothing but its own outcome, so only its renames and fsyncs fail. *)

ReaderGoto(q, pc) == reader' = [reader EXCEPT ![q].pc = pc]

\* symlink_metadata(path)
LoadBegin(q) ==
  /\ reader[q].pc \in {"idle", "ok", "err"} /\ loads < MaxLoads
  /\ loads' = loads + 1
  /\ reader' = [reader EXCEPT ![q] =
       [IdleReader EXCEPT !.pc = CASE names[Path] = Foreign -> "err"
                                   [] names[Path] = None -> "scan"
                                   [] OTHER -> "verify",
                          !.floor = acked]]
  /\ UNCHANGED <<fsVars, writer, pub, acked, raced, begun, clock, newest, errors,
                 crashes>>

\* backup_bundle_candidates: what read_dir lists, newest stamp first
LoadScan(q) ==
  /\ reader[q].pc = "scan"
  /\ reader' = [reader EXCEPT ![q].cands = BackupsOnDisk, ![q].seen = newest,
                              ![q].pc = IF BackupsOnDisk = {} THEN "verify" ELSE "try"]
  /\ UNCHANGED <<fsVars, writer, pub, acked, raced, counters>>

\* Mutant: candidates sorted oldest first.
NextCandidateOldest(q) == Min(reader[q].cands)

\* The order recovery tries the candidates in.
NextCandidate(q) == Max(reader[q].cands)

\* verify_for_load of the next candidate; one that fails is skipped
LoadTry(q) ==
  /\ reader[q].pc = "try"
  /\ LET n == NextCandidate(q) IN
     reader' = IF Intact(names[Bak(n)])
               THEN [reader EXCEPT ![q].pc = "recover"]
               ELSE [reader EXCEPT ![q].cands = @ \ {n},
                                   ![q].pc = IF reader[q].cands = {n} THEN "verify"
                                             ELSE "try"]
  /\ UNCHANGED <<fsVars, writer, pub, acked, raced, counters>>

\* rename_path(&backup, path)?: refused when either name has changed hands
LoadRecover(q) ==
  /\ reader[q].pc = "recover"
  /\ LET n == NextCandidate(q) IN
     \/ /\ names[Path] = None /\ names[Bak(n)] # None
        /\ Change(Moved(Bak(n), Path))
        /\ raced' = (raced \/ Overtaken(reader[q].seen))
        /\ ReaderGoto(q, "recover_sync")
        /\ UNCHANGED errors
     \/ /\ \/ (names[Path] # None \/ names[Bak(n)] = None) /\ UNCHANGED errors
           \/ Fail
        /\ ReaderGoto(q, "err")
        /\ UNCHANGED <<names, survivable, raced>>
  /\ UNCHANGED <<tree, writer, pub, acked, begun, clock, newest, loads, crashes>>

LoadRecoverSync(q) ==
  /\ reader[q].pc = "recover_sync"
  /\ \/ SyncParent /\ ReaderGoto(q, "verify") /\ UNCHANGED errors
     \/ Fail /\ ReaderGoto(q, "err") /\ UNCHANGED <<names, survivable>>
  /\ UNCHANGED <<tree, writer, pub, acked, raced, begun, clock, newest, loads, crashes>>

\* verify_for_load(path): the plan keeps the manifest's facts and file paths
LoadVerify(q) ==
  /\ reader[q].pc = "verify"
  /\ reader' = IF Intact(names[Path])
               THEN [reader EXCEPT ![q].pc = "read_index", ![q].manifest = names[Path]]
               ELSE [reader EXCEPT ![q].pc = "err"]
  /\ UNCHANGED <<fsVars, writer, pub, acked, raced, counters>>

\* RankQuant::load and SignBitmap::load reopen the plan's paths, and only the
\* shape is compared with the verified manifest.
LoadIndex(q) ==
  /\ reader[q].pc = "read_index"
  /\ reader' = IF /\ Intact(names[Path])
                  /\ RowsOf[names[Path]] = RowsOf[reader[q].manifest]
               THEN [reader EXCEPT ![q].pc = "read_ids", ![q].index = names[Path]]
               ELSE [reader EXCEPT ![q].pc = "err"]
  /\ UNCHANGED <<fsVars, writer, pub, acked, raced, counters>>

\* read_ids_file, then OrdinalIndex and IdMapIndex::from_loaded_parts
LoadIds(q) ==
  /\ reader[q].pc = "read_ids"
  /\ reader' = IF /\ Intact(names[Path])
                  /\ RowsOf[names[Path]] = RowsOf[reader[q].index]
               THEN [reader EXCEPT ![q].pc = "ok", ![q].ids = names[Path]]
               ELSE [reader EXCEPT ![q].pc = "err"]
  /\ UNCHANGED <<fsVars, writer, pub, acked, raced, counters>>

-----------------------------------------------------------------------------
(* Failures *)

WriterCrash(p) ==
  /\ writer[p].pc # "idle" /\ crashes < MaxCrashes
  /\ crashes' = crashes + 1
  /\ writer' = [writer EXCEPT ![p] = IdleWriter]
  /\ UNCHANGED <<fsVars, reader, pub, acked, raced, begun, clock, newest, loads, errors>>

\* What the files of a bundle directory may be after a power loss when they
\* were not synced: torn, or not removed after all.
AfterLoss(b) == IF tree[b] = "written" THEN "partial" ELSE "synced"

PowerLoss ==
  /\ crashes < MaxCrashes
  /\ crashes' = crashes + 1
  /\ names' \in survivable /\ survivable' = {names'}
  /\ \E lost \in SUBSET {b \in Bundles : tree[b] \in {"written", "removing"}} :
       tree' = [b \in Bundles |-> IF b \in lost THEN AfterLoss(b) ELSE tree[b]]
  /\ writer' = [p \in Writers |-> IdleWriter]
  /\ reader' = [q \in Readers |-> IdleReader]
  /\ UNCHANGED <<pub, acked, raced, begun, clock, newest, loads, errors>>

-----------------------------------------------------------------------------
WriterStep(p) ==
  \/ WriteBegin(p) \/ WriteContents(p) \/ SyncTree(p) \/ WriteFails(p)
  \/ ReplaceCheck(p) \/ StampBackup(p) \/ TakeBackup(p) \/ BackupSync(p) \/ Publish(p)
  \/ Restore(p) \/ PublishSync(p) \/ Cleanup(p) \/ Unlink(p) \/ WriterCrash(p)

ReaderStep(q) ==
  \/ LoadBegin(q) \/ LoadScan(q) \/ LoadTry(q) \/ LoadRecover(q)
  \/ LoadRecoverSync(q) \/ LoadVerify(q) \/ LoadIndex(q) \/ LoadIds(q)

Next ==
  \/ \E p \in Writers : WriterStep(p)
  \/ \E q \in Readers : ReaderStep(q)
  \/ PowerLoss

Spec == Init /\ [][Next]_vars

-----------------------------------------------------------------------------
(* Properties *)

\* The state is well formed: scratch and backup entries name bundles (what is
\* not a bundle stays at the path), counters stay in bounds.
TypeOK ==
  /\ \A x \in Names \ {Path} : names[x] # Foreign
  /\ names \in [Names -> Bundles \cup {None, Foreign}]
  /\ tree \in [Bundles -> TreeStates]
  /\ survivable \subseteq [Names -> Bundles \cup {None, Foreign}]
  /\ writer \in [Writers -> [pc : WriterPcs, bundle : Bundles \cup {None},
                             backup : Bundles \cup {None}]]
  /\ reader \in [Readers -> [pc : ReaderPcs, cands : SUBSET Bundles,
                             seen : 0..MaxBundles, floor : 0..MaxBundles,
                             manifest : Bundles \cup {None},
                             index : Bundles \cup {None}, ids : Bundles \cup {None}]]
  /\ begun \in Bundles /\ clock \in 0..begun /\ newest \in 0..clock
  /\ acked \in 0..MaxBundles
  /\ pub \in [Bundles -> 0..MaxBundles]
  /\ raced \in BOOLEAN
  /\ loads \in 0..MaxLoads /\ errors \in 0..MaxErrors /\ crashes \in 0..MaxCrashes

\* Whatever crashes, power losses and failing system calls interrupt
\* replace_bundle, the requested path never names a half-written or
\* half-removed bundle.
PathIntact ==
  ~raced => \A ns \in survivable \cup {names} :
              ns[Path] \in Bundles => Intact(ns[Path])

\* Once a write has returned Ok, its bundle or a later one is what the path
\* holds or what recover_bundle_if_missing would put there, while the system
\* runs and after a death or a power loss.
CommittedSurvives ==
  ~raced /\ acked > 0 => Recovered \in Bundles /\ pub[Recovered] >= acked

\* A load that succeeds never returns a bundle older than one whose write had
\* returned Ok before the load began, however stale its list of backups.
LoadFresh ==
  ~raced => \A q \in Readers : reader[q].pc = "ok" =>
    \A b \in {reader[q].manifest, reader[q].index, reader[q].ids} :
      pub[b] >= reader[q].floor

\* "Write the index as a .odb bundle (including the ID sidecar) to path,
\* atomically" (id_map.rs): a load sees the artifacts of one write.
LoadUntorn ==
  \A q \in Readers : reader[q].pc = "ok" =>
    reader[q].index = reader[q].manifest /\ reader[q].ids = reader[q].manifest
=============================================================================
