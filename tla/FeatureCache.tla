---------------------------- MODULE FeatureCache ----------------------------
(***************************************************************************)
(* The LTR feature caches of a bundle (ordinaldb-ltr/src/lib.rs).          *)
(*                                                                         *)
(* A trainer runs write_feature_cache_bundle_auxiliary: it writes the      *)
(* files of a cache into a directory of the bundle, one by one, describes  *)
(* them in the cache's own manifest, attaches all of them to the bundle's  *)
(* manifest.json and verifies the result.  Trainers are processes that     *)
(* share the bundle without a lock; the disk may fill up, a trainer may    *)
(* crash, and somebody may publish the bundle anew in between, which takes *)
(* the old bundle away before it puts the new one in its place.  (One      *)
(* publisher at a time: several, their crashes and the recovery of the     *)
(* bundle taken away are BundleIO's.)                                      *)
(*                                                                         *)
(* A name is the sequence of its dot-separated segments.  A file's content *)
(* is [by, data, size, sums]: who wrote it, from which dataset, how many   *)
(* elements, and for a cache manifest what it says of the other files.     *)
(* Size 0 is a file of which only a part is there, if anything.  The       *)
(* SHA-256 of a content is the content itself.                             *)
(***************************************************************************)
EXTENDS Integers, Sequences, FiniteSets

CONSTANTS
  Trainers,
  NameOf,           \* NameOf[t]: the auxiliary name trainer t attaches under
  Dirs,             \* directories of the bundle a cache may go to
  Datasets,         \* the FeatureCacheData a trainer may be given, by name
  DataOf,           \* DataOf[d]: the dataset of that name
  CacheFiles,       \* the files of a cache, in the order they are written
  OtherNames,       \* names of the bundle's other auxiliary artifacts
  MaxRuns,          \* bound: caches the trainers start to write
  MaxFaults,        \* bound: failed writes and crashes
  MaxPublications   \* bound: publications of the bundle

\* A cache goes to a directory below the bundle's root, its own manifest is
\* none of its other files, and the bundle's other auxiliaries (IDs, sign
\* sidecar, sparse index) are not attached under a name of a cache.
ASSUME CacheBounds ==
  /\ MaxRuns \in Nat /\ MaxFaults \in Nat /\ MaxPublications \in Nat
  /\ "root" \notin Dirs /\ "nobody" \notin Trainers
  /\ CacheFiles \in Seq(STRING) /\ CacheFiles # <<>>
  /\ \A i \in DOMAIN CacheFiles : CacheFiles[i] # "manifest"
  /\ NameOf \in [Trainers -> Seq(STRING)]
  /\ \A n \in OtherNames, t \in Trainers :
       ~(Len(NameOf[t]) <= Len(n) /\ SubSeq(n, 1, Len(NameOf[t])) = NameOf[t])

VARIABLES
  gen,        \* the number of the last publication
  place,      \* what is at the bundle's path: that publication ("bundle"),
              \* nothing ("missing"), or what trainers made there ("lost")
  raced,      \* history: a trainer was at work when the bundle was taken away,
              \* or began while it was away
  manifest,   \* manifest.json: [gen, aux], aux a set of [name, dir, file, sum]
              \* and gen the publication whose primary files it describes
  made,       \* the cache directories that exist
  disk,       \* disk[d][f]: the content of file f of directory d, or Absent
  pc,         \* where each trainer is
  job,        \* its directory and data, and what it has computed so far
  runs, faults

cacheVars == <<gen, place, raced, manifest, made, disk, pc, job, runs, faults>>

Manifest == "manifest"
Files == {CacheFiles[i] : i \in DOMAIN CacheFiles}
AllFiles == Files \cup {Manifest}
NoData == "none"

Content(by, data, size, sums) == [by |-> by, data |-> data, size |-> size, sums |-> sums]
Absent == Content("nobody", NoData, 0, <<>>)

-----------------------------------------------------------------------------
(* A dataset is [names, groups, group_rows, queries, row_ids, labels,       *)
(* features, finite]: the feature names, the lengths of the vectors, the    *)
(* sum of the groups, and whether all the numbers are finite.               *)

DistinctNames(names) == names # <<>> /\ Cardinality({names[i] : i \in DOMAIN names}) = Len(names)

\* Mutant: the labels are not counted.
ValidDataButLabels(d) ==
  /\ DistinctNames(d.names) /\ d.finite
  /\ d.groups = d.queries
  /\ d.group_rows = d.row_ids
  /\ d.features = d.group_rows * Len(d.names)

\* validate_data
ValidData(d) ==
  /\ DistinctNames(d.names) /\ d.finite
  /\ d.groups = d.queries
  /\ d.group_rows = d.row_ids /\ d.group_rows = d.labels
  /\ d.features = d.group_rows * Len(d.names)

\* The elements of file f written from dataset d; a file without fixed-width
\* elements counts as one.
ElementsIn(d, f) ==
  CASE f = "groups" -> d.groups
    [] f = "row_ids" -> d.row_ids
    [] f = "labels" -> d.labels
    [] f = "features" -> d.features
    [] OTHER -> 1

\* Mutant: the byte counts of the binary files are not checked.
ManifestShapeOnly(d, sizes) == DistinctNames(d.names) /\ d.queries = d.groups

\* validate_feature_cache_manifest_shape, checked_bytes
ManifestShape(d, sizes) ==
  /\ DistinctNames(d.names) /\ d.queries = d.groups
  /\ \A f \in Files :
       CASE f = "groups" -> sizes[f] = d.groups
         [] f \in {"row_ids", "labels"} -> sizes[f] = d.row_ids
         [] f = "features" -> sizes[f] = d.row_ids * Len(d.names)
         [] OTHER -> TRUE

-----------------------------------------------------------------------------
(* The bundle's manifest                                                    *)

\* feature_cache_auxiliary_paths: aux_name itself is the cache's manifest
EntryName(name, f) == IF f = Manifest THEN name ELSE name \o <<f>>

\* Mutant: every auxiliary under the same first segment is a cache's.
SharesFirstSegment(name, aux) == name[1] = aux[1]

\* Mutant: only aux_name itself is taken for the cache's.
IsManifestName(name, aux) == name = aux

\* is_feature_cache_auxiliary_name: aux_name, or aux_name and a dot before
\* the rest
IsCacheName(name, aux) == Len(aux) <= Len(name) /\ SubSeq(name, 1, Len(aux)) = aux

\* The auxiliaries publication g comes with; the digest is of its own files.
OtherEntries(g) ==
  {[name |-> n, dir |-> "root", file |-> "none", sum |-> Content("publisher", NoData, g, <<>>)] :
     n \in OtherNames}

NoManifest == [gen |-> 0, aux |-> {}]

\* verify_for_load: the primary index and every required auxiliary are the
\* ones the manifest describes.
EntryVerifies(e) == e.dir # "root" => disk[e.dir][e.file] = e.sum
VerifiesForLoad ==
  place = "bundle" /\ manifest.gen = gen /\ \A e \in manifest.aux : EntryVerifies(e)

HasEntry(name) == \E e \in manifest.aux : e.name = name
EntryOf(name) == CHOOSE e \in manifest.aux : e.name = name
FileAt(name) == EntryOf(name).sum

\* read_verified_feature_cache_bundle_auxiliary for t's name: a torn cache
\* manifest, or a file that is none, does not parse.
CacheReads(t) ==
  /\ VerifiesForLoad
  /\ \A f \in AllFiles : HasEntry(EntryName(NameOf[t], f))
  /\ LET cache == FileAt(NameOf[t]) IN
     /\ cache.size > 0 /\ cache.sums # <<>>
     /\ ManifestShape(DataOf[cache.data], [f \in Files |-> cache.sums[f].size])
     /\ \A f \in Files : cache.sums[f] = FileAt(EntryName(NameOf[t], f))

-----------------------------------------------------------------------------
(* The steps of write_feature_cache_bundle_auxiliary                        *)

NoJob == [dir |-> "root", data |-> NoData, written |-> 0, sums |-> <<>>,
          loaded |-> NoManifest, entries |-> {}]

At(t, here) == pc[t] = here
Working(t) == pc[t] \notin {"idle", "done", "failed"}
GoTo(t, there) == pc' = [pc EXCEPT ![t] = there]
Fail(t) == GoTo(t, "failed") /\ job' = [job EXCEPT ![t] = NoJob]

CacheInit ==
  /\ gen = 1
  /\ place = "bundle" /\ raced = FALSE
  /\ manifest = [gen |-> 1, aux |-> OtherEntries(1)]
  /\ made = {}
  /\ disk = [d \in Dirs |-> [f \in AllFiles |-> Absent]]
  /\ pc = [t \in Trainers |-> "idle"]
  /\ job = [t \in Trainers |-> NoJob]
  /\ runs = 0 /\ faults = 0

\* validate_data, create_dir_all: where the bundle was taken away, its path
\* is created again
BeginCache(t, d, data) ==
  /\ ~Working(t) /\ runs < MaxRuns
  /\ runs' = runs + 1
  /\ IF ValidData(DataOf[data])
     THEN /\ made' = made \cup {d}
          /\ place' = IF place = "missing" THEN "lost" ELSE place
          /\ raced' = (raced \/ place = "missing")
          /\ GoTo(t, "writing")
          /\ job' = [job EXCEPT ![t] = [NoJob EXCEPT !.dir = d, !.data = data]]
     ELSE Fail(t) /\ UNCHANGED <<made, place, raced>>
  /\ UNCHANGED <<gen, manifest, disk, faults>>

\* Mutant: an existing file is truncated and written again.
MayCreateAnyway(t, f) == job[t].dir \in made

\* create_new_feature_cache_file: the directory exists and the file does not
MayCreate(t, f) == job[t].dir \in made /\ disk[job[t].dir][f] = Absent

\* What the file would hold
NextContent(t, f) ==
  IF f = Manifest THEN Content(t, job[t].data, 1, job[t].sums)
  ELSE Content(t, job[t].data, ElementsIn(DataOf[job[t].data], f), <<>>)

NextFile(t) == CacheFiles[job[t].written + 1]

PutFile(t, f, content) == disk' = [disk EXCEPT ![job[t].dir][f] = content]

\* The file is created; what is written to it stays in the BufWriter.
CreateOne(t, f, there) ==
  IF MayCreate(t, f)
  THEN PutFile(t, f, [NextContent(t, f) EXCEPT !.size = 0]) /\ GoTo(t, there) /\ UNCHANGED job
  ELSE Fail(t) /\ UNCHANGED disk

\* The BufWriter is dropped and its content reaches the file, which may have
\* been taken away with the bundle by now.  On a full disk the file stays torn.
FlushOne(t, f) ==
  \/ /\ IF disk[job[t].dir][f].by = t THEN PutFile(t, f, NextContent(t, f)) ELSE UNCHANGED disk
     /\ UNCHANGED faults
  \/ faults < MaxFaults /\ faults' = faults + 1 /\ UNCHANGED disk

\* A write reports the full disk; an error at the drop is lost, and the
\* trainer continues.
Reported(t) == faults' # faults /\ Fail(t)

\* write_json, write_u32_file, ... of the next file
CreateFile(t) ==
  /\ At(t, "writing")
  /\ CreateOne(t, NextFile(t), "flushing")
  /\ UNCHANGED <<gen, place, raced, manifest, made, runs, faults>>

FlushFile(t) ==
  /\ At(t, "flushing")
  /\ FlushOne(t, NextFile(t))
  /\ \/ /\ job' = [job EXCEPT ![t].written = @ + 1]
        /\ GoTo(t, IF job[t].written + 1 = Len(CacheFiles) THEN "describing" ELSE "writing")
     \/ Reported(t)
  /\ UNCHANGED <<gen, place, raced, manifest, made, runs>>

\* describe: size and hash of each file as it is on disk.  (As long as the
\* bundle stays, nobody else writes to a directory a trainer has files in, so
\* the moment at which each file is read makes no difference.)
DescribeFiles(t) ==
  /\ At(t, "describing")
  /\ IF \E f \in Files : disk[job[t].dir][f] = Absent THEN Fail(t)
     ELSE /\ job' = [job EXCEPT ![t].sums = [f \in Files |-> disk[job[t].dir][f]]]
          /\ GoTo(t, "manifest")
  /\ UNCHANGED <<gen, place, raced, manifest, made, disk, runs, faults>>

CreateCacheManifest(t) ==
  /\ At(t, "manifest")
  /\ CreateOne(t, Manifest, "closing")
  /\ UNCHANGED <<gen, place, raced, manifest, made, runs, faults>>

FlushCacheManifest(t) ==
  /\ At(t, "closing")
  /\ FlushOne(t, Manifest)
  /\ \/ GoTo(t, "loading") /\ job' = [job EXCEPT ![t].sums = <<>>]
     \/ Reported(t)
  /\ UNCHANGED <<gen, place, raced, manifest, made, runs>>

\* attach_feature_cache_auxiliaries: load_manifest_file_with_options
LoadManifest(t) ==
  /\ At(t, "loading")
  /\ IF manifest = NoManifest THEN Fail(t)
     ELSE job' = [job EXCEPT ![t].loaded = manifest] /\ GoTo(t, "hashing")
  /\ UNCHANGED <<gen, place, raced, manifest, made, disk, runs, faults>>

FileEntry(t, f) ==
  [name |-> EntryName(NameOf[t], f), dir |-> job[t].dir, file |-> f,
   sum |-> disk[job[t].dir][f]]

\* sha256_path of each of the cache's files
HashFiles(t) ==
  /\ At(t, "hashing")
  /\ IF \E f \in AllFiles : disk[job[t].dir][f] = Absent THEN Fail(t)
     ELSE /\ job' = [job EXCEPT ![t].entries = {FileEntry(t, f) : f \in AllFiles}]
          /\ GoTo(t, "committing")
  /\ UNCHANGED <<gen, place, raced, manifest, made, disk, runs, faults>>

\* retain the other auxiliaries of the manifest it loaded, push the cache's
Attached(t) ==
  [gen |-> job[t].loaded.gen,
   aux |-> {e \in job[t].loaded.aux : ~IsCacheName(e.name, NameOf[t])} \cup job[t].entries]

\* write_manifest_file: over whatever manifest is there by now, but it creates
\* no directory
WriteManifest(t) ==
  /\ At(t, "committing")
  /\ IF place = "missing" THEN Fail(t) /\ UNCHANGED manifest
     ELSE /\ manifest' = Attached(t)
          /\ GoTo(t, "verifying")
          /\ job' = [job EXCEPT ![t].loaded = NoManifest]
  /\ UNCHANGED <<gen, place, raced, made, disk, runs, faults>>

\* verify_feature_cache_bundle_auxiliary
VerifyCache(t) ==
  /\ At(t, "verifying")
  /\ GoTo(t, IF CacheReads(t) THEN "done" ELSE "failed")
  /\ job' = [job EXCEPT ![t] = NoJob]
  /\ UNCHANGED <<gen, place, raced, manifest, made, disk, runs, faults>>

\* The trainer's process dies, or an I/O error other than the ones above ends
\* its run; what it wrote stays.
CrashTrainer(t) ==
  /\ Working(t) /\ faults < MaxFaults
  /\ faults' = faults + 1
  /\ GoTo(t, "idle") /\ job' = [job EXCEPT ![t] = NoJob]
  /\ UNCHANGED <<gen, place, raced, manifest, made, disk, runs>>

\* replace_bundle, first rename: the bundle moves to its backup's name with
\* all that is in it.  So does what trainers made at its path.
Withdraw ==
  /\ place # "missing" /\ gen <= MaxPublications
  /\ place' = "missing"
  /\ raced' = (raced \/ \E t \in Trainers : Working(t))
  /\ manifest' = NoManifest
  /\ made' = {}
  /\ disk' = [d \in Dirs |-> [f \in AllFiles |-> Absent]]
  /\ UNCHANGED <<gen, pc, job, runs, faults>>

\* Second rename: the new bundle, with the auxiliaries the publisher declares
\* and no caches.  Where a trainer created the path meanwhile the rename fails,
\* and neither the restore of the backup nor a later recovery replaces a path
\* that exists: nothing changes.
Publish ==
  /\ place = "missing"
  /\ place' = "bundle" /\ gen' = gen + 1
  /\ manifest' = [gen |-> gen + 1, aux |-> OtherEntries(gen + 1)]
  /\ UNCHANGED <<raced, made, disk, pc, job, runs, faults>>

TrainerStep ==
  \E t \in Trainers :
    \/ \E d \in Dirs, data \in Datasets : BeginCache(t, d, data)
    \/ CreateFile(t) \/ FlushFile(t) \/ DescribeFiles(t)
    \/ CreateCacheManifest(t) \/ FlushCacheManifest(t)
    \/ LoadManifest(t) \/ HashFiles(t) \/ WriteManifest(t) \/ VerifyCache(t)
    \/ CrashTrainer(t)

CacheNext == TrainerStep \/ Withdraw \/ Publish
CacheSpec == CacheInit /\ [][CacheNext]_cacheVars

-----------------------------------------------------------------------------
(* Properties                                                               *)

Stages == {"idle", "writing", "flushing", "describing", "manifest", "closing", "loading",
           "hashing", "committing", "verifying", "done", "failed"}

\* The shape of the state: files exist only in directories that were made
\* for them, and a trainer that writes has a file left to write.
CacheTypeOK ==
  /\ gen \in 1..(MaxPublications + 1) /\ manifest.gen \in 0..gen
  /\ place \in {"bundle", "missing", "lost"} /\ raced \in BOOLEAN
  /\ place = "missing" => made = {} /\ gen <= MaxPublications
  /\ runs \in 0..MaxRuns /\ faults \in 0..MaxFaults
  /\ made \subseteq Dirs
  /\ \A d \in Dirs, f \in AllFiles : disk[d][f] # Absent => d \in made
  /\ pc \in [Trainers -> Stages]
  /\ \A t \in Trainers :
       /\ Working(t) => job[t].dir \in Dirs /\ job[t].data \in Datasets
       /\ pc[t] \in {"writing", "flushing"} => job[t].written \in 0..(Len(CacheFiles) - 1)

\* A name is attached once, however often a cache is attached again, by
\* whom, and under names one of which extends the other: with two entries
\* of one name the manifest is refused.
NamesUnique ==
  \A e, f \in manifest.aux : e.name = f.name => e = f

\* Attaching never costs the bundle, whatever the trainers fail at and in
\* whichever order they write: unless one of them was at work across a
\* publication, the bundle that is there verifies, half-written caches and all.
AttachedEntriesVerify == ~raced /\ place = "bundle" => VerifiesForLoad

\* The auxiliaries a publication came with (IDs, sign sidecar, sparse index)
\* stay in the manifest, whatever is attached, with the digests of that very
\* publication, again unless a trainer was at work across a publication.  Even
\* then, where a trainer can put the manifest of a bundle that is gone into the
\* one that is there, the bundle does not verify without its own auxiliaries.
OtherAuxiliariesKept ==
  place = "bundle" /\ (~raced \/ VerifiesForLoad) => OtherEntries(gen) \subseteq manifest.aux

\* Property helper: the files under t's name in the bundle's manifest are
\* complete, and unless a trainer was at work across a publication they are
\* one trainer's from one dataset.
IsWhole(t) ==
  LET FileOf(f) == LET e == EntryOf(EntryName(NameOf[t], f)) IN disk[e.dir][e.file]
  IN \A f \in Files :
       /\ ~raced => /\ FileOf(f).by = FileOf(Manifest).by
                    /\ FileOf(f).data = FileOf(Manifest).data
       /\ f \in {"groups", "row_ids", "labels", "features"} =>
            FileOf(f).size = ElementsIn(DataOf[FileOf(Manifest).data], f)

\* When a trainer is told its cache verifies, each binary file under its
\* name is complete, although a full disk is not noticed when the file is
\* written; and the files are those of one trainer and one dataset.  (A
\* publication while they are written can mix the files of two trainers.)
VerifiedCacheIsWhole ==
  [][\A t \in Trainers : At(t, "verifying") /\ pc'[t] = "done" => IsWhole(t)]_cacheVars

\* On a healthy disk, data that validate_data accepts passes every later
\* check of the reader, unless another trainer took entries of this one out
\* of the manifest again.  (After a publication a trainer may still put back
\* the manifest of the bundle that was replaced.)
AcceptedDataVerifies ==
  [][\A t \in Trainers : At(t, "verifying") /\ pc'[t] = "failed" =>
       \/ faults > 0
       \/ ~(job[t].entries \subseteq manifest.aux)
       \/ raced]_cacheVars
=============================================================================
