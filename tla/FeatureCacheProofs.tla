------------------------- MODULE FeatureCacheProofs -------------------------
(***************************************************************************)
(* Theorems about FeatureCache, for every set of trainers, names and       *)
(* directories, every dataset and every bound.                             *)
(*                                                                         *)
(* Three invariants, each resting on the one before: what a manifest may   *)
(* name (IInv), what holds of the publications while no trainer was at     *)
(* work across one (Calm), and what is in the files (FilesInv).            *)
(***************************************************************************)
EXTENDS FeatureCache, SequenceTheorems, FiniteSetTheorems, TLAPS

-----------------------------------------------------------------------------
(* The inductive invariant                                                  *)

IsJob(j) ==
  j = [dir |-> j.dir, data |-> j.data, written |-> j.written, sums |-> j.sums,
       loaded |-> j.loaded, entries |-> j.entries]

\* An entry that is not the publisher's is of a file in a cache's directory.
Listed(e) == e.dir # "root" => e.dir \in Dirs /\ e.file \in AllFiles /\ e.sum # Absent

\* What a manifest of publication g promises.
GoodManifest(g, aux) ==
  /\ g \in 0..gen
  /\ g # 0 => OtherEntries(g) \subseteq aux
  /\ \A e \in aux : e.dir = "root" => e \in OtherEntries(g)
  /\ \A e, f \in aux : e.name = f.name => e = f
  /\ \A e \in aux : Listed(e)

\* What the entries a trainer is about to attach promise.
GoodEntries(t) ==
  /\ \A e \in job[t].entries : e.dir # "root" /\ IsCacheName(e.name, NameOf[t]) /\ Listed(e)
  /\ \A e, f \in job[t].entries : e.name = f.name => e = f

\* What holds of the trainer's own state, ...
Local(t) ==
  /\ pc[t] \in Stages /\ IsJob(job[t])
  /\ Working(t) => job[t].dir \in Dirs /\ job[t].data \in Datasets
  /\ pc[t] \in {"writing", "flushing"} => job[t].written \in 0..(Len(CacheFiles) - 1)
  /\ pc[t] \in {"hashing", "committing"} => GoodManifest(job[t].loaded.gen, job[t].loaded.aux)
  /\ pc[t] = "committing" => GoodEntries(t)

\* ... and of what the trainers share.
Shared ==
  /\ gen \in 1..(MaxPublications + 1)
  /\ place \in {"bundle", "missing", "lost"} /\ raced \in BOOLEAN
  /\ place = "missing" => made = {} /\ gen <= MaxPublications
  /\ runs \in 0..MaxRuns /\ faults \in 0..MaxFaults
  /\ made \subseteq Dirs
  /\ disk = [d \in Dirs |-> [f \in AllFiles |-> disk[d][f]]]
  /\ \A d \in Dirs, f \in AllFiles : disk[d][f] # Absent => d \in made
  /\ GoodManifest(manifest.gen, manifest.aux)

IInv ==
  /\ Shared
  /\ pc = [t \in Trainers |-> pc[t]] /\ job = [t \in Trainers |-> job[t]]
  /\ \A t \in Trainers : Local(t)

-----------------------------------------------------------------------------
(* Names                                                                    *)

LEMMA FilesFacts ==
  /\ Manifest \in AllFiles /\ Files \subseteq AllFiles
  /\ Manifest \notin Files
  /\ Files \subseteq STRING
  /\ Len(CacheFiles) \in Nat \ {0} /\ DOMAIN CacheFiles = 1..Len(CacheFiles)
  /\ Files # {}
<1>1. Len(CacheFiles) \in Nat \ {0} /\ DOMAIN CacheFiles = 1..Len(CacheFiles)
  BY CacheBounds
<1>2. \A i \in DOMAIN CacheFiles : CacheFiles[i] \in STRING /\ CacheFiles[i] # "manifest"
  BY CacheBounds
<1>3. CacheFiles[1] \in Files
  BY <1>1 DEF Files
<1>4. Manifest \notin Files
  BY <1>2 DEF Files, Manifest
<1>5. Files \subseteq STRING
  BY <1>2 DEF Files
<1> QED BY <1>1, <1>3, <1>4, <1>5 DEF AllFiles

\* A name with one more segment has the name as its prefix.
LEMMA OneMore ==
  ASSUME NEW S, NEW name \in Seq(S), NEW g \in S
  PROVE  /\ Len(name) \in Nat
         /\ Len(name \o <<g>>) = Len(name) + 1
         /\ (name \o <<g>>)[Len(name) + 1] = g
         /\ SubSeq(name \o <<g>>, 1, Len(name)) = name
         /\ SubSeq(name, 1, Len(name)) = name
<1>1. <<g>> \in Seq(S) /\ Len(<<g>>) = 1 /\ <<g>>[1] = g /\ Len(name) \in Nat
  OBVIOUS
<1>2. /\ name \o <<g>> \in Seq(S)
      /\ Len(name \o <<g>>) = Len(name) + 1
      /\ \A i \in 1..Len(name) + 1 :
           (name \o <<g>>)[i] = IF i <= Len(name) THEN name[i] ELSE <<g>>[i - Len(name)]
  BY <1>1, ConcatProperties
<1>3. ASSUME NEW s \in Seq(S), Len(s) >= Len(name), \A i \in 1..Len(name) : s[i] = name[i]
      PROVE  SubSeq(s, 1, Len(name)) = name
  <2>1. \A i \in 1..Len(name) : s[i] \in S
    BY <1>3
  <2>2. /\ SubSeq(s, 1, Len(name)) \in Seq(S)
        /\ Len(SubSeq(s, 1, Len(name))) = Len(name)
        /\ \A i \in 1..Len(name) : SubSeq(s, 1, Len(name))[i] = s[i]
    BY <1>1, <2>1
  <2> QED BY <1>3, <2>2, SeqEqual
<1>4. SubSeq(name \o <<g>>, 1, Len(name)) = name
  BY <1>1, <1>2, <1>3
<1>5. SubSeq(name, 1, Len(name)) = name
  BY <1>1, <1>3
<1>6. (name \o <<g>>)[Len(name) + 1] = g
  BY <1>1, <1>2
<1> QED BY <1>1, <1>2, <1>4, <1>5, <1>6

\* The names a cache is attached under are its own, and differ.
LEMMA EntryNames ==
  ASSUME NEW t \in Trainers, NEW f \in AllFiles
  PROVE  /\ IsCacheName(EntryName(NameOf[t], f), NameOf[t])
         /\ \A g \in AllFiles :
              EntryName(NameOf[t], f) = EntryName(NameOf[t], g) => f = g
<1> DEFINE name == NameOf[t]
<1>1. name \in Seq(STRING)
  BY CacheBounds
<1>2. ASSUME NEW g \in Files
      PROVE  /\ Len(name) \in Nat
             /\ Len(name \o <<g>>) = Len(name) + 1
             /\ (name \o <<g>>)[Len(name) + 1] = g
             /\ SubSeq(name \o <<g>>, 1, Len(name)) = name
             /\ SubSeq(name, 1, Len(name)) = name
             /\ EntryName(name, g) = name \o <<g>> /\ EntryName(name, g) # name
  <2>1. /\ Len(name) \in Nat
        /\ Len(name \o <<g>>) = Len(name) + 1
        /\ (name \o <<g>>)[Len(name) + 1] = g
        /\ SubSeq(name \o <<g>>, 1, Len(name)) = name
        /\ SubSeq(name, 1, Len(name)) = name
    BY <1>1, OneMore, FilesFacts
  <2>2. EntryName(name, g) = name \o <<g>>
    BY FilesFacts DEF EntryName
  <2> QED BY <2>1, <2>2
<1>3. EntryName(name, Manifest) = name /\ \E g \in Files : TRUE
  BY FilesFacts DEF EntryName
<1> HIDE DEF name
<1>4. IsCacheName(EntryName(name, f), name)
  <2>1. Len(name) \in Nat /\ SubSeq(name, 1, Len(name)) = name
    BY <1>2, <1>3
  <2>2. CASE f \in Files
    <3>1. /\ EntryName(name, f) = name \o <<f>>
          /\ Len(name \o <<f>>) = Len(name) + 1
          /\ SubSeq(name \o <<f>>, 1, Len(name)) = name
      BY <1>2, <2>2
    <3> QED BY <2>1, <3>1 DEF IsCacheName
  <2>3. CASE f = Manifest
    BY <1>3, <2>1, <2>3 DEF IsCacheName
  <2> QED BY <2>2, <2>3 DEF AllFiles
<1>5. ASSUME NEW g \in AllFiles, EntryName(name, f) = EntryName(name, g) PROVE f = g
  <2>1. CASE f \in Files /\ g \in Files BY <1>2, <1>5, <2>1
  <2>2. CASE f = Manifest \/ g = Manifest BY <1>2, <1>3, <1>5, <2>2 DEF AllFiles
  <2> QED BY <2>1, <2>2 DEF AllFiles
<1> QED BY <1>4, <1>5 DEF name

\* No other auxiliary has a name of a cache.
LEMMA OtherNamesKept ==
  ASSUME NEW t \in Trainers, NEW g, NEW e \in OtherEntries(g)
  PROVE  e.dir = "root" /\ ~IsCacheName(e.name, NameOf[t])
BY CacheBounds DEF OtherEntries, IsCacheName

LEMMA OtherEntriesUnique ==
  ASSUME NEW g
  PROVE  /\ \A e, f \in OtherEntries(g) : e.name = f.name => e = f
         /\ \A e \in OtherEntries(g) : e.dir = "root"
BY DEF OtherEntries

-----------------------------------------------------------------------------
(* Steps                                                                    *)

\* A step of trainer t leaves the other trainers alone.
Others(t) ==
  /\ \A u \in Trainers \ {t} : pc'[u] = pc[u] /\ job'[u] = job[u]
  /\ pc' = [u \in Trainers |-> pc'[u]] /\ job' = [u \in Trainers |-> job'[u]]

LEMMA OneTrainer ==
  ASSUME IInv, NEW t \in Trainers, gen' = gen, Others(t), Local(t)', Shared'
  PROVE  IInv'
<1>1. ASSUME NEW u \in Trainers, u # t PROVE Local(u)'
  <2>1. Local(u) /\ pc'[u] = pc[u] /\ job'[u] = job[u] /\ gen' = gen
    BY <1>1 DEF IInv, Others
  <2>2. pc[u] \in {"hashing", "committing"} =>
          GoodManifest(job[u].loaded.gen, job[u].loaded.aux)'
    BY <2>1 DEF Local, GoodManifest
  <2>3. pc[u] = "committing" => GoodEntries(u)'
    BY <2>1 DEF Local, GoodEntries
  <2> QED BY <2>1, <2>2, <2>3 DEF Local, Working
<1> QED BY <1>1 DEF IInv, Others

\* A step that leaves what is shared alone but for the counters.
LEMMA QuietStep ==
  ASSUME IInv, NEW t \in Trainers, UNCHANGED <<gen, place, raced, manifest, made, disk>>,
         Others(t), Local(t)', runs' \in 0..MaxRuns, faults' \in 0..MaxFaults
  PROVE  IInv'
<1>1. Shared'
  BY DEF IInv, Shared, GoodManifest
<1> QED BY <1>1, OneTrainer

\* A trainer that ends its run.
Ends(t, how) ==
  Others(t) /\ pc'[t] = how /\ job'[t] = NoJob

LEMMA EndsLocal ==
  ASSUME NEW t \in Trainers, NEW how \in {"idle", "done", "failed"}, Ends(t, how)
  PROVE  Local(t)' /\ ~Working(t)'
BY DEF Ends, Local, IsJob, NoJob, Working, Stages

LEMMA EndFacts ==
  ASSUME IInv, NEW t \in Trainers, NEW how, GoTo(t, how), job' = [job EXCEPT ![t] = NoJob]
  PROVE  Ends(t, how)
<1>1. pc' = [pc EXCEPT ![t] = how]
  BY DEF GoTo
<1>2. pc = [u \in Trainers |-> pc[u]] /\ job = [u \in Trainers |-> job[u]]
  BY DEF IInv
<1> QED BY <1>1, <1>2 DEF Ends, Others

LEMMA FailFacts ==
  ASSUME IInv, NEW t \in Trainers, Fail(t)
  PROVE  Ends(t, "failed") /\ Local(t)' /\ ~Working(t)'
BY EndFacts, EndsLocal DEF Fail

\* A step that takes the trainer to another stage of its run.
LEMMA MoveFacts ==
  ASSUME IInv, NEW t \in Trainers, NEW there, GoTo(t, there), UNCHANGED job
  PROVE  Others(t) /\ pc'[t] = there /\ job'[t] = job[t]
<1>1. pc' = [pc EXCEPT ![t] = there] /\ job' = job
  BY DEF GoTo
<1>2. pc = [u \in Trainers |-> pc[u]] /\ job = [u \in Trainers |-> job[u]]
  BY DEF IInv
<1> QED BY <1>1, <1>2 DEF Others

LEMMA JobFacts ==
  ASSUME IInv, NEW t \in Trainers, NEW there, GoTo(t, there),
         NEW ACTION j, job' = [job EXCEPT ![t] = j]
  PROVE  Others(t) /\ pc'[t] = there /\ job'[t] = j
<1>1. pc' = [pc EXCEPT ![t] = there]
  BY DEF GoTo
<1>2. pc = [u \in Trainers |-> pc[u]] /\ job = [u \in Trainers |-> job[u]]
  BY DEF IInv
<1> QED BY <1>1, <1>2 DEF Others

\* A file is put into the trainer's directory.
LEMMA PutFacts ==
  ASSUME IInv, NEW t \in Trainers, NEW f \in AllFiles, job[t].dir \in Dirs,
         NEW STATE c, PutFile(t, f, c)
  PROVE  /\ disk'[job[t].dir][f] = c
         /\ \A d \in Dirs, g \in AllFiles :
              d # job[t].dir \/ g # f => disk'[d][g] = disk[d][g]
         /\ disk' = [d \in Dirs |-> [g \in AllFiles |-> disk'[d][g]]]
<1> DEFINE dir == job[t].dir
<1>1. disk = [d \in Dirs |-> [g \in AllFiles |-> disk[d][g]]]
  BY DEF IInv, Shared
<1>2. disk' = [disk EXCEPT ![dir][f] = c] /\ dir \in Dirs
  BY DEF PutFile
<1> HIDE DEF dir
<1>3. DOMAIN disk = Dirs /\ \A d \in Dirs : DOMAIN disk[d] = AllFiles
  BY <1>1
<1>4. /\ disk'[dir][f] = c
      /\ \A d \in Dirs, g \in AllFiles : d # dir \/ g # f => disk'[d][g] = disk[d][g]
  BY <1>2, <1>3
<1>5. disk' = [d \in Dirs |-> [g \in AllFiles |-> disk'[d][g]]]
  BY <1>1, <1>2
<1> QED BY <1>4, <1>5 DEF dir

\* A step that writes to one file of the trainer's directory.
LEMMA PutStep ==
  ASSUME IInv, NEW t \in Trainers, NEW f \in AllFiles, job[t].dir \in Dirs, job[t].dir \in made,
         NEW STATE c, PutFile(t, f, c), UNCHANGED <<gen, place, raced, manifest, made, runs>>,
         Others(t), Local(t)', faults' \in 0..MaxFaults
  PROVE  IInv'
<1>1. \A d \in Dirs, g \in AllFiles : disk'[d][g] # Absent => d \in made'
  BY PutFacts DEF IInv, Shared
<1>2. GoodManifest(manifest.gen, manifest.aux)'
  BY DEF IInv, Shared, GoodManifest
<1>3. Shared'
  BY <1>1, <1>2, PutFacts DEF IInv, Shared
<1> QED BY <1>3, OneTrainer

LEMMA BeginStep ==
  ASSUME IInv, NEW t \in Trainers, NEW d \in Dirs, NEW data \in Datasets, BeginCache(t, d, data)
  PROVE  IInv'
<1>1. runs' \in 0..MaxRuns /\ faults' \in 0..MaxFaults
  BY CacheBounds DEF BeginCache, IInv, Shared
<1>2. CASE ~ValidData(DataOf[data])
  BY <1>1, <1>2, FailFacts, QuietStep DEF BeginCache, Ends
<1>3. CASE ValidData(DataOf[data])
  <2>1. Others(t) /\ pc'[t] = "writing" /\ job'[t] = [NoJob EXCEPT !.dir = d, !.data = data]
    BY <1>3, JobFacts DEF BeginCache
  <2>2. IsJob(job[t])' /\ job'[t].dir = d /\ job'[t].data = data /\ job'[t].written = 0
    BY <2>1 DEF IsJob, NoJob
  <2>3. 0 \in 0..(Len(CacheFiles) - 1)
    BY FilesFacts
  <2>4. Local(t)'
    BY <2>1, <2>2, <2>3 DEF Local, Stages
  <2>5. /\ made' = made \cup {d} /\ place' = (IF place = "missing" THEN "lost" ELSE place)
        /\ raced' = (raced \/ place = "missing") /\ UNCHANGED <<gen, manifest, disk>>
    BY <1>3 DEF BeginCache
  <2>6. GoodManifest(manifest.gen, manifest.aux)'
    BY <2>5 DEF IInv, Shared, GoodManifest
  <2>7. Shared'
    BY <1>1, <2>5, <2>6 DEF IInv, Shared
  <2> QED BY <2>1, <2>4, <2>5, <2>7, OneTrainer
<1> QED BY <1>2, <1>3

\* What a trainer's step does to its own state in each stage of writing.
LEMMA CreateLocal ==
  ASSUME IInv, NEW t \in Trainers, NEW there, GoTo(t, there), UNCHANGED job, gen' = gen,
         \/ pc[t] = "writing" /\ there = "flushing"
         \/ pc[t] = "manifest" /\ there = "closing"
  PROVE  Others(t) /\ Local(t)' /\ pc'[t] = there /\ job'[t] = job[t]
<1>1. Others(t) /\ pc'[t] = there /\ job'[t] = job[t]
  BY MoveFacts
<1>2. Local(t) /\ Working(t)
  BY DEF IInv, Working
<1> QED BY <1>1, <1>2 DEF Local, Working, Stages

LEMMA CreateStep ==
  ASSUME IInv, NEW t \in Trainers, NEW f \in AllFiles, NEW there, CreateOne(t, f, there),
         UNCHANGED <<gen, place, raced, manifest, made, runs, faults>>,
         \/ pc[t] = "writing" /\ there = "flushing"
         \/ pc[t] = "manifest" /\ there = "closing"
  PROVE  IInv'
<1>1. runs' \in 0..MaxRuns /\ faults' \in 0..MaxFaults
  BY DEF IInv, Shared
<1>2. CASE ~MayCreate(t, f)
  BY <1>1, <1>2, FailFacts, QuietStep DEF CreateOne, Ends
<1>3. CASE MayCreate(t, f)
  <2>1. PutFile(t, f, [NextContent(t, f) EXCEPT !.size = 0]) /\ GoTo(t, there) /\ UNCHANGED job
    BY <1>3 DEF CreateOne
  <2>2. Others(t) /\ Local(t)'
    BY <2>1, CreateLocal
  <2>3. job[t].dir \in Dirs /\ job[t].dir \in made
    BY <1>3 DEF MayCreate, IInv, Local, Working
  <2> QED BY <1>1, <2>1, <2>2, <2>3, PutStep
<1> QED BY <1>2, <1>3

\* A flush changes one file, if any, that is there already.
LEMMA FlushStep ==
  ASSUME IInv, NEW t \in Trainers, NEW f \in AllFiles, Working(t), FlushOne(t, f),
         UNCHANGED <<gen, place, raced, manifest, made, runs>>, Others(t), Local(t)'
  PROVE  IInv'
<1>1. runs' \in 0..MaxRuns /\ faults' \in 0..MaxFaults
  BY CacheBounds DEF IInv, Shared, FlushOne
<1>2. CASE UNCHANGED disk
  BY <1>1, <1>2, QuietStep
<1>3. CASE ~UNCHANGED disk
  <2>1. disk[job[t].dir][f].by = t /\ PutFile(t, f, NextContent(t, f))
    BY <1>3 DEF FlushOne
  <2>2. job[t].dir \in Dirs
    BY DEF IInv, Local
  <2>3. disk[job[t].dir][f] # Absent
    BY <2>1, CacheBounds DEF Absent, Content
  <2>4. job[t].dir \in made
    BY <2>2, <2>3 DEF IInv, Shared
  <2> QED BY <1>1, <2>1, <2>2, <2>4, PutStep
<1> QED BY <1>2, <1>3

\* What becomes of the trainer when it flushed the file.
LEMMA FlushFileLocal ==
  ASSUME IInv, NEW t \in Trainers, FlushFile(t)
  PROVE  /\ Others(t) /\ Local(t)'
         /\ \/ ~Working(t)' /\ faults' # faults
            \/ /\ pc'[t] \in {"writing", "describing"}
               /\ pc'[t] = "describing" => job[t].written + 1 = Len(CacheFiles)
               /\ job'[t] = [job[t] EXCEPT !.written = @ + 1]
               /\ job'[t].written = job[t].written + 1
               /\ job'[t].dir = job[t].dir /\ job'[t].data = job[t].data
<1>1. CASE Reported(t)
  BY <1>1, FailFacts DEF Reported, Ends
<1>2. CASE ~Reported(t)
  <2> DEFINE there == IF job[t].written + 1 = Len(CacheFiles) THEN "describing" ELSE "writing"
  <2>1. job' = [job EXCEPT ![t].written = @ + 1] /\ pc' = [pc EXCEPT ![t] = there]
    BY <1>2 DEF FlushFile, GoTo
  <2>2. pc = [u \in Trainers |-> pc[u]] /\ job = [u \in Trainers |-> job[u]]
    BY DEF IInv
  <2>3. Others(t) /\ pc'[t] = there /\ job'[t] = [job[t] EXCEPT !.written = @ + 1]
    BY <2>1, <2>2 DEF Others
  <2>4. Local(t) /\ pc[t] = "flushing" /\ Working(t)
    BY DEF IInv, FlushFile, At, Working
  <2>5. /\ IsJob(job[t])' /\ job'[t].dir = job[t].dir /\ job'[t].data = job[t].data
        /\ job'[t].written = job[t].written + 1
    BY <2>3, <2>4 DEF Local, IsJob
  <2>6. pc'[t] = "writing" => job'[t].written \in 0..(Len(CacheFiles) - 1)
    BY <2>3, <2>4, <2>5, FilesFacts DEF Local
  <2>7. Local(t)'
    BY <2>3, <2>4, <2>5, <2>6 DEF Local, Stages
  <2> QED BY <2>3, <2>5, <2>7
<1> QED BY <1>1, <1>2

LEMMA NextFileFacts ==
  ASSUME IInv, NEW t \in Trainers, pc[t] \in {"writing", "flushing"}
  PROVE  /\ NextFile(t) \in Files /\ NextFile(t) \in AllFiles /\ NextFile(t) # Manifest
         /\ job[t].written \in 0..(Len(CacheFiles) - 1)
<1>1. job[t].written \in 0..(Len(CacheFiles) - 1)
  BY DEF IInv, Local
<1>2. job[t].written + 1 \in DOMAIN CacheFiles
  BY <1>1, FilesFacts
<1> QED BY <1>1, <1>2, FilesFacts DEF Files, NextFile

LEMMA FlushFileStep ==
  ASSUME IInv, NEW t \in Trainers, FlushFile(t)
  PROVE  IInv'
<1>1. FlushOne(t, NextFile(t)) /\ NextFile(t) \in AllFiles /\ Working(t)
  BY NextFileFacts DEF FlushFile, At, Working
<1>2. UNCHANGED <<gen, place, raced, manifest, made, runs>>
  BY DEF FlushFile
<1> QED BY <1>1, <1>2, FlushFileLocal, FlushStep

LEMMA FlushManifestLocal ==
  ASSUME IInv, NEW t \in Trainers, FlushCacheManifest(t)
  PROVE  /\ Others(t) /\ Local(t)'
         /\ \/ ~Working(t)' /\ faults' # faults
            \/ /\ pc'[t] = "loading"
               /\ job'[t].dir = job[t].dir /\ job'[t].data = job[t].data
<1>1. CASE Reported(t)
  BY <1>1, FailFacts DEF Reported, Ends
<1>2. CASE ~Reported(t)
  <2>1. job' = [job EXCEPT ![t].sums = <<>>] /\ pc' = [pc EXCEPT ![t] = "loading"]
    BY <1>2 DEF FlushCacheManifest, GoTo
  <2>2. pc = [u \in Trainers |-> pc[u]] /\ job = [u \in Trainers |-> job[u]]
    BY DEF IInv
  <2>3. Others(t) /\ pc'[t] = "loading" /\ job'[t] = [job[t] EXCEPT !.sums = <<>>]
    BY <2>1, <2>2 DEF Others
  <2>4. Local(t) /\ Working(t)
    BY DEF IInv, FlushCacheManifest, At, Working
  <2>5. IsJob(job[t])' /\ job'[t].dir = job[t].dir /\ job'[t].data = job[t].data
    BY <2>3, <2>4 DEF Local, IsJob
  <2>6. Local(t)'
    BY <2>3, <2>4, <2>5 DEF Local, Stages
  <2> QED BY <2>3, <2>5, <2>6
<1> QED BY <1>1, <1>2

LEMMA FlushManifestStep ==
  ASSUME IInv, NEW t \in Trainers, FlushCacheManifest(t)
  PROVE  IInv'
<1>1. FlushOne(t, Manifest) /\ Manifest \in AllFiles /\ Working(t)
  BY FilesFacts DEF FlushCacheManifest, At, Working
<1>2. UNCHANGED <<gen, place, raced, manifest, made, runs>>
  BY DEF FlushCacheManifest
<1> QED BY <1>1, <1>2, FlushManifestLocal, FlushStep

LEMMA DescribeLocal ==
  ASSUME IInv, NEW t \in Trainers, DescribeFiles(t)
  PROVE  /\ Others(t) /\ Local(t)'
         /\ \/ ~Working(t)'
            \/ /\ pc'[t] = "manifest"
               /\ job'[t].dir = job[t].dir /\ job'[t].data = job[t].data
               /\ job'[t].sums = [f \in Files |-> disk[job[t].dir][f]]
<1>1. CASE Fail(t)
  BY <1>1, FailFacts DEF Ends
<1>2. CASE ~Fail(t)
  <2> DEFINE sums == [f \in Files |-> disk[job[t].dir][f]]
  <2>1. pc' = [pc EXCEPT ![t] = "manifest"] /\ job' = [job EXCEPT ![t].sums = sums]
    BY <1>2 DEF DescribeFiles, GoTo
  <2> HIDE DEF sums
  <2>2. pc = [u \in Trainers |-> pc[u]] /\ job = [u \in Trainers |-> job[u]]
    BY DEF IInv
  <2>3. Others(t) /\ pc'[t] = "manifest" /\ job'[t] = [job[t] EXCEPT !.sums = sums]
    BY <2>1, <2>2 DEF Others
  <2>4. Local(t) /\ Working(t)
    BY DEF IInv, DescribeFiles, At, Working
  <2>5. /\ IsJob(job[t])' /\ job'[t].dir = job[t].dir /\ job'[t].data = job[t].data
        /\ job'[t].sums = sums
    BY <2>3, <2>4 DEF Local, IsJob
  <2>6. Local(t)'
    BY <2>3, <2>4, <2>5 DEF Local, Stages
  <2> QED BY <2>3, <2>5, <2>6 DEF sums
<1> QED BY <1>1, <1>2

LEMMA DescribeStep ==
  ASSUME IInv, NEW t \in Trainers, DescribeFiles(t)
  PROVE  IInv'
<1>1. /\ UNCHANGED <<gen, place, raced, manifest, made, disk>>
      /\ runs' \in 0..MaxRuns /\ faults' \in 0..MaxFaults
  BY DEF DescribeFiles, IInv, Shared
<1> QED BY <1>1, DescribeLocal, QuietStep

LEMMA LoadLocal ==
  ASSUME IInv, NEW t \in Trainers, LoadManifest(t)
  PROVE  /\ Others(t) /\ Local(t)'
         /\ \/ ~Working(t)'
            \/ /\ pc'[t] = "hashing"
               /\ job'[t].dir = job[t].dir /\ job'[t].data = job[t].data
               /\ job'[t].loaded = manifest
<1>1. CASE Fail(t)
  BY <1>1, FailFacts DEF Ends
<1>2. CASE ~Fail(t)
  <2>1. pc' = [pc EXCEPT ![t] = "hashing"] /\ job' = [job EXCEPT ![t].loaded = manifest]
    BY <1>2 DEF LoadManifest, GoTo
  <2>2. pc = [u \in Trainers |-> pc[u]] /\ job = [u \in Trainers |-> job[u]]
    BY DEF IInv
  <2>3. Others(t) /\ pc'[t] = "hashing" /\ job'[t] = [job[t] EXCEPT !.loaded = manifest]
    BY <2>1, <2>2 DEF Others
  <2>4. Local(t) /\ Working(t)
    BY DEF IInv, LoadManifest, At, Working
  <2>5. /\ IsJob(job[t])' /\ job'[t].dir = job[t].dir /\ job'[t].data = job[t].data
        /\ job'[t].loaded = manifest
    BY <2>3, <2>4 DEF Local, IsJob
  <2>6. GoodManifest(job[t].loaded.gen, job[t].loaded.aux)'
    BY <2>5 DEF IInv, Shared, GoodManifest, LoadManifest
  <2>7. Local(t)'
    BY <2>3, <2>4, <2>5, <2>6 DEF Local, Stages
  <2> QED BY <2>3, <2>5, <2>7
<1> QED BY <1>1, <1>2

LEMMA LoadStep ==
  ASSUME IInv, NEW t \in Trainers, LoadManifest(t)
  PROVE  IInv'
<1>1. /\ UNCHANGED <<gen, place, raced, manifest, made, disk>>
      /\ runs' \in 0..MaxRuns /\ faults' \in 0..MaxFaults
  BY DEF LoadManifest, IInv, Shared
<1> QED BY <1>1, LoadLocal, QuietStep

LEMMA HashLocal ==
  ASSUME IInv, NEW t \in Trainers, HashFiles(t)
  PROVE  /\ Others(t) /\ Local(t)'
         /\ \/ ~Working(t)'
            \/ /\ pc'[t] = "committing"
               /\ job'[t].dir = job[t].dir /\ job'[t].data = job[t].data
               /\ job'[t].loaded = job[t].loaded
               /\ job'[t].entries = {FileEntry(t, f) : f \in AllFiles}
<1>1. CASE Fail(t)
  BY <1>1, FailFacts DEF Ends
<1>2. CASE ~Fail(t)
  <2> DEFINE hashed == {FileEntry(t, f) : f \in AllFiles}
  <2>1. /\ pc' = [pc EXCEPT ![t] = "committing"] /\ job' = [job EXCEPT ![t].entries = hashed]
        /\ \A f \in AllFiles : disk[job[t].dir][f] # Absent
    BY <1>2 DEF HashFiles, GoTo
  <2>2. Local(t) /\ Working(t) /\ job[t].dir \in Dirs /\ gen' = gen
        /\ GoodManifest(job[t].loaded.gen, job[t].loaded.aux)
    BY DEF IInv, Local, HashFiles, At, Working
  <2>3. \A e \in hashed : e.dir # "root" /\ IsCacheName(e.name, NameOf[t]) /\ Listed(e)
    BY <2>1, <2>2, EntryNames, CacheBounds DEF FileEntry, Listed
  <2>4. \A e, f \in hashed : e.name = f.name => e = f
    BY EntryNames DEF FileEntry
  <2> HIDE DEF hashed
  <2>5. pc = [u \in Trainers |-> pc[u]] /\ job = [u \in Trainers |-> job[u]]
    BY DEF IInv
  <2>6. Others(t) /\ pc'[t] = "committing" /\ job'[t] = [job[t] EXCEPT !.entries = hashed]
    BY <2>1, <2>5 DEF Others
  <2>7. /\ IsJob(job[t])' /\ job'[t].dir = job[t].dir /\ job'[t].data = job[t].data
        /\ job'[t].loaded = job[t].loaded /\ job'[t].entries = hashed
    BY <2>2, <2>6 DEF Local, IsJob
  <2>8. GoodManifest(job[t].loaded.gen, job[t].loaded.aux)'
    BY <2>2, <2>7 DEF GoodManifest
  <2>9. GoodEntries(t)'
    BY <2>3, <2>4, <2>7 DEF GoodEntries, Listed
  <2>10. Local(t)'
    BY <2>2, <2>6, <2>7, <2>8, <2>9 DEF Local, Stages
  <2> QED BY <2>6, <2>7, <2>10 DEF hashed
<1> QED BY <1>1, <1>2

LEMMA HashStep ==
  ASSUME IInv, NEW t \in Trainers, HashFiles(t)
  PROVE  IInv'
<1>1. /\ UNCHANGED <<gen, place, raced, manifest, made, disk>>
      /\ runs' \in 0..MaxRuns /\ faults' \in 0..MaxFaults
  BY DEF HashFiles, IInv, Shared
<1> QED BY <1>1, HashLocal, QuietStep

\* VerifyCache and CrashTrainer: the job is dropped.
LEMMA DropLocal ==
  ASSUME IInv, NEW t \in Trainers, VerifyCache(t) \/ CrashTrainer(t)
  PROVE  Others(t) /\ Local(t)' /\ ~Working(t)'
<1>1. PICK how \in {"idle", "done", "failed"} : GoTo(t, how)
  BY DEF VerifyCache, CrashTrainer
<1>2. job' = [job EXCEPT ![t] = NoJob]
  BY DEF VerifyCache, CrashTrainer
<1>3. Ends(t, how)
  BY <1>1, <1>2, EndFacts
<1>4. Local(t)' /\ ~Working(t)'
  BY <1>3, EndsLocal
<1> QED BY <1>3, <1>4 DEF Ends

LEMMA DropStep ==
  ASSUME IInv, NEW t \in Trainers, VerifyCache(t) \/ CrashTrainer(t)
  PROVE  IInv'
<1>1. /\ UNCHANGED <<gen, place, raced, manifest, made, disk>>
      /\ runs' \in 0..MaxRuns /\ faults' \in 0..MaxFaults
  BY CacheBounds DEF VerifyCache, CrashTrainer, IInv, Shared
<1> QED BY <1>1, DropLocal, QuietStep

\* The manifest that is written back: the trainer's entries replace those of
\* its names, and the other auxiliaries are nobody's.
LEMMA CommitLocal ==
  ASSUME IInv, NEW t \in Trainers, WriteManifest(t)
  PROVE  /\ Others(t) /\ Local(t)'
         /\ \/ ~Working(t)' /\ UNCHANGED manifest /\ place = "missing"
            \/ /\ pc'[t] = "verifying" /\ manifest' = Attached(t)
               /\ job'[t].dir = job[t].dir /\ job'[t].data = job[t].data
               /\ job'[t].entries = job[t].entries
<1>1. CASE place = "missing"
  BY <1>1, FailFacts DEF WriteManifest, Ends
<1>2. CASE place # "missing"
  <2>1. /\ pc' = [pc EXCEPT ![t] = "verifying"] /\ job' = [job EXCEPT ![t].loaded = NoManifest]
        /\ manifest' = Attached(t)
    BY <1>2 DEF WriteManifest, GoTo
  <2>2. pc = [u \in Trainers |-> pc[u]] /\ job = [u \in Trainers |-> job[u]]
    BY DEF IInv
  <2>3. Others(t) /\ pc'[t] = "verifying" /\ job'[t] = [job[t] EXCEPT !.loaded = NoManifest]
    BY <2>1, <2>2 DEF Others
  <2>4. Local(t) /\ Working(t)
    BY DEF IInv, WriteManifest, At, Working
  <2>5. /\ IsJob(job[t])' /\ job'[t].dir = job[t].dir /\ job'[t].data = job[t].data
        /\ job'[t].entries = job[t].entries
    BY <2>3, <2>4 DEF Local, IsJob
  <2>6. Local(t)'
    BY <2>3, <2>4, <2>5 DEF Local, Stages
  <2> QED BY <2>1, <2>3, <2>5, <2>6
<1> QED BY <1>1, <1>2

LEMMA CommitStep ==
  ASSUME IInv, NEW t \in Trainers, WriteManifest(t)
  PROVE  IInv'
<1>1. /\ UNCHANGED <<gen, place, raced, made, disk>>
      /\ runs' \in 0..MaxRuns /\ faults' \in 0..MaxFaults
  BY DEF WriteManifest, IInv, Shared
<1>2. CASE UNCHANGED manifest
  BY <1>1, <1>2, CommitLocal, QuietStep
<1>3. CASE manifest' = Attached(t)
  <2> DEFINE kept == {e \in job[t].loaded.aux : ~IsCacheName(e.name, NameOf[t])}
  <2>1. GoodManifest(job[t].loaded.gen, job[t].loaded.aux) /\ GoodEntries(t)
    BY DEF WriteManifest, At, IInv, Local
  <2>2. manifest'.gen = job[t].loaded.gen /\ manifest'.aux = kept \cup job[t].entries
    BY <1>3 DEF Attached
  <2>3. manifest'.gen # 0 => OtherEntries(manifest'.gen) \subseteq manifest'.aux
    BY <2>1, <2>2, OtherNamesKept DEF GoodManifest
  <2>4. \A e \in manifest'.aux : e.dir = "root" => e \in OtherEntries(manifest'.gen)
    BY <2>1, <2>2 DEF GoodManifest, GoodEntries
  <2>5. \A e, f \in manifest'.aux : e.name = f.name => e = f
    BY <2>1, <2>2 DEF GoodManifest, GoodEntries
  <2>6. \A e \in manifest'.aux : Listed(e)
    BY <2>1, <2>2 DEF GoodManifest, GoodEntries
  <2>7. manifest'.gen \in 0..gen'
    BY <1>1, <2>1, <2>2 DEF GoodManifest
  <2>8. GoodManifest(manifest.gen, manifest.aux)'
    BY <2>3, <2>4, <2>5, <2>6, <2>7 DEF GoodManifest, Listed
  <2>9. Shared'
    BY <1>1, <2>8 DEF IInv, Shared
  <2> QED BY <1>1, <2>9, CommitLocal, OneTrainer
<1> QED BY <1>2, <1>3, CommitLocal

LEMMA WithdrawStep ==
  ASSUME IInv, Withdraw
  PROVE  IInv'
<1>1. /\ manifest'.gen = 0 /\ manifest'.aux = {} /\ gen' = gen
      /\ UNCHANGED <<pc, job>>
  BY DEF Withdraw, NoManifest
<1>2. GoodManifest(manifest.gen, manifest.aux)'
  BY <1>1 DEF GoodManifest, IInv, Shared
<1>3. Shared'
  BY <1>2 DEF IInv, Shared, Withdraw
<1>4. ASSUME NEW t \in Trainers PROVE Local(t)'
  <2>1. Local(t)
    BY DEF IInv
  <2>2. /\ pc[t] \in {"hashing", "committing"} =>
             GoodManifest(job[t].loaded.gen, job[t].loaded.aux)'
        /\ pc[t] = "committing" => GoodEntries(t)'
    BY <1>1, <2>1 DEF Local, GoodManifest, GoodEntries
  <2> QED BY <1>1, <2>1, <2>2 DEF Local, Working
<1> QED BY <1>1, <1>3, <1>4 DEF IInv

LEMMA PublishStep ==
  ASSUME IInv, Publish
  PROVE  IInv'
<1>1. /\ gen \in 1..(MaxPublications + 1) /\ gen <= MaxPublications /\ MaxPublications \in Nat
      /\ gen' = gen + 1
  BY CacheBounds DEF Publish, IInv, Shared
<1>2. /\ manifest'.gen = gen' /\ manifest'.aux = OtherEntries(gen')
      /\ UNCHANGED <<pc, job>>
  BY DEF Publish
<1>3. GoodManifest(manifest.gen, manifest.aux)'
  BY <1>1, <1>2, OtherEntriesUnique DEF GoodManifest, Listed
<1>4. Shared'
  BY <1>1, <1>3 DEF IInv, Shared, Publish
<1>5. ASSUME NEW t \in Trainers PROVE Local(t)'
  <2>1. Local(t)
    BY DEF IInv
  <2>2. /\ pc[t] \in {"hashing", "committing"} =>
             GoodManifest(job[t].loaded.gen, job[t].loaded.aux)'
        /\ pc[t] = "committing" => GoodEntries(t)'
    BY <1>1, <1>2, <2>1 DEF Local, GoodManifest, GoodEntries
  <2> QED BY <1>2, <2>1, <2>2 DEF Local, Working
<1> QED BY <1>2, <1>4, <1>5 DEF IInv

LEMMA InitIInv == CacheInit => IInv
<1> SUFFICES ASSUME CacheInit PROVE IInv
  OBVIOUS
<1>1. GoodManifest(manifest.gen, manifest.aux)
  BY OtherEntriesUnique DEF CacheInit, GoodManifest, Listed
<1>2. Shared
  <2>1. gen \in 1..(MaxPublications + 1) /\ runs \in 0..MaxRuns /\ faults \in 0..MaxFaults
    BY CacheBounds DEF CacheInit
  <2>2. place = "bundle" /\ raced \in BOOLEAN /\ made \subseteq Dirs
    BY DEF CacheInit
  <2>3. /\ disk = [d \in Dirs |-> [f \in AllFiles |-> disk[d][f]]]
        /\ \A d \in Dirs, f \in AllFiles : disk[d][f] # Absent => d \in made
    BY DEF CacheInit
  <2> QED BY <1>1, <2>1, <2>2, <2>3 DEF Shared
<1>3. ASSUME NEW t \in Trainers PROVE Local(t)
  BY DEF CacheInit, Local, IsJob, NoJob, Working, Stages
<1>4. pc = [t \in Trainers |-> pc[t]] /\ job = [t \in Trainers |-> job[t]]
  BY DEF CacheInit
<1> QED BY <1>2, <1>3, <1>4 DEF IInv

\* The steps of trainer t
Step(t) ==
  \/ \E d \in Dirs, data \in Datasets : BeginCache(t, d, data)
  \/ CreateFile(t) \/ FlushFile(t) \/ DescribeFiles(t)
  \/ CreateCacheManifest(t) \/ FlushCacheManifest(t)
  \/ LoadManifest(t) \/ HashFiles(t) \/ WriteManifest(t)
  \/ VerifyCache(t) \/ CrashTrainer(t)

LEMMA StepIInv ==
  ASSUME IInv, NEW t \in Trainers, Step(t)
  PROVE  IInv'
<1>1. ASSUME NEW d \in Dirs, NEW data \in Datasets, BeginCache(t, d, data) PROVE IInv'
  BY <1>1, BeginStep
<1>2. CASE CreateFile(t)
  <2>1. pc[t] = "writing" /\ CreateOne(t, NextFile(t), "flushing")
        /\ UNCHANGED <<gen, place, raced, manifest, made, runs, faults>>
    BY <1>2 DEF CreateFile, At
  <2> QED BY <2>1, NextFileFacts, CreateStep
<1>3. CASE CreateCacheManifest(t)
  <2>1. pc[t] = "manifest" /\ CreateOne(t, Manifest, "closing")
        /\ UNCHANGED <<gen, place, raced, manifest, made, runs, faults>>
    BY <1>3 DEF CreateCacheManifest, At
  <2> QED BY <2>1, FilesFacts, CreateStep
<1> QED BY <1>1, <1>2, <1>3, FlushFileStep, FlushManifestStep, DescribeStep, LoadStep, HashStep,
           CommitStep, DropStep DEF Step

LEMMA SameIInv ==
  ASSUME IInv, UNCHANGED cacheVars
  PROVE  IInv'
<1>1. UNCHANGED <<gen, place, raced, manifest, made, disk, pc, job, runs, faults>>
  BY DEF cacheVars
<1>2. Shared'
  BY <1>1 DEF IInv, Shared, GoodManifest
<1>3. ASSUME NEW t \in Trainers PROVE Local(t)'
  <2>1. Local(t)
    BY DEF IInv
  <2> QED BY <1>1, <2>1 DEF Local, Working, GoodManifest, GoodEntries
<1> QED BY <1>1, <1>2, <1>3 DEF IInv

LEMMA NextIInv == IInv /\ [CacheNext]_cacheVars => IInv'
<1> SUFFICES ASSUME IInv, [CacheNext]_cacheVars PROVE IInv'
  OBVIOUS
<1>1. CASE \E t \in Trainers : Step(t) BY <1>1, StepIInv
<1>2. CASE Withdraw BY <1>2, WithdrawStep
<1>3. CASE Publish BY <1>3, PublishStep
<1>4. CASE UNCHANGED cacheVars BY <1>4, SameIInv
<1> QED BY <1>1, <1>2, <1>3, <1>4 DEF CacheNext, TrainerStep, Step

LEMMA IInvHolds == CacheSpec => []IInv
BY InitIInv, NextIInv, PTL DEF CacheSpec

-----------------------------------------------------------------------------
(* Theorems about the manifest                                              *)

\* Trainers never leave the bounds of their program, and files exist only in
\* directories that were made for them.
THEOREM CacheTypeCorrect == CacheSpec => []CacheTypeOK
<1>1. IInv => CacheTypeOK
  BY DEF IInv, Shared, Local, GoodManifest, CacheTypeOK
<1> QED BY <1>1, IInvHolds, PTL

\* attach_feature_cache_auxiliaries never writes one name twice, although
\* trainers interleave their loads and writes and one trainer's name may
\* extend another's.
THEOREM CacheNamesUnique == CacheSpec => []NamesUnique
<1>1. IInv => NamesUnique BY DEF IInv, Shared, GoodManifest, NamesUnique
<1> QED BY <1>1, IInvHolds, PTL

-----------------------------------------------------------------------------
(* While no trainer was at work across a publication                        *)

Calm ==
  ~raced =>
    /\ place # "lost"
    /\ place = "missing" => \A t \in Trainers : ~Working(t)
    /\ place = "bundle" => manifest.gen = gen
    /\ \A t \in Trainers : pc[t] \in {"hashing", "committing"} => job[t].loaded.gen = gen

\* A trainer at work finds the bundle in its place.
LEMMA CalmPlace ==
  ASSUME IInv, Calm, ~raced, NEW t \in Trainers, Working(t)
  PROVE  place = "bundle" /\ manifest.gen = gen
BY DEF IInv, Shared, Calm

\* A step of trainer t that only changes what the trainer holds.
LEMMA CalmStep ==
  ASSUME IInv, Calm, NEW t \in Trainers, Others(t), UNCHANGED <<gen, place, raced>>,
         Working(t)' => Working(t),
         ~raced => manifest'.gen = manifest.gen,
         ~raced /\ pc'[t] \in {"hashing", "committing"} => job'[t].loaded.gen = gen
  PROVE  Calm'
<1>1. \A u \in Trainers : Working(u)' => Working(u)
  BY DEF Others, Working
<1>2. ~raced => \A u \in Trainers : pc'[u] \in {"hashing", "committing"} => job'[u].loaded.gen = gen
  BY DEF Others, Calm
<1> QED BY <1>1, <1>2 DEF Calm

LEMMA StepCalm ==
  ASSUME IInv, Calm, NEW t \in Trainers, Step(t)
  PROVE  Calm'
<1>1. ASSUME NEW d \in Dirs, NEW data \in Datasets, BeginCache(t, d, data) PROVE Calm'
  <2>1. CASE ~ValidData(DataOf[data])
    <3>1. Others(t) /\ ~Working(t)' /\ UNCHANGED <<gen, place, raced, manifest>>
      BY <1>1, <2>1, FailFacts DEF BeginCache, Ends
    <3> QED BY <3>1, CalmStep DEF Working
  <2>2. CASE ValidData(DataOf[data])
    <3>1. Others(t) /\ pc'[t] = "writing"
      BY <1>1, <2>2, JobFacts DEF BeginCache
    <3>2. /\ raced' = (raced \/ place = "missing") /\ UNCHANGED <<gen, manifest>>
          /\ place' = IF place = "missing" THEN "lost" ELSE place
      BY <1>1, <2>2 DEF BeginCache
    <3>3. ~raced' => /\ ~raced /\ place # "missing" /\ place' = place
      BY <3>2 DEF IInv, Shared
    <3>4. ~raced => \A u \in Trainers :
                      pc'[u] \in {"hashing", "committing"} => job'[u].loaded.gen = gen
      BY <3>1 DEF Others, Calm
    <3> QED BY <3>2, <3>3, <3>4 DEF Calm
  <2> QED BY <2>1, <2>2
<1>2. ASSUME Fail(t), UNCHANGED <<gen, place, raced, manifest>> PROVE Calm'
  <2>1. Others(t) /\ ~Working(t)'
    BY <1>2, FailFacts DEF Ends
  <2> QED BY <1>2, <2>1, CalmStep DEF Working
<1>3. ASSUME NEW f, NEW there, CreateOne(t, f, there), there \in {"flushing", "closing"}, Working(t),
             UNCHANGED <<gen, place, raced, manifest>>
      PROVE  Calm'
  <2>1. CASE ~MayCreate(t, f) BY <1>2, <1>3, <2>1 DEF CreateOne
  <2>2. CASE MayCreate(t, f)
    <3>1. Others(t) /\ pc'[t] = there
      BY <1>3, <2>2, MoveFacts DEF CreateOne
    <3> QED BY <1>3, <3>1, CalmStep
  <2> QED BY <2>1, <2>2
<1>4. CASE CreateFile(t) \/ CreateCacheManifest(t)
  BY <1>3, <1>4 DEF CreateFile, CreateCacheManifest, At, Working
<1>5. CASE FlushFile(t)
  <2>1. Others(t) /\ pc'[t] \notin {"hashing", "committing"}
    BY <1>5, FlushFileLocal DEF Working
  <2> QED BY <1>5, <2>1, CalmStep DEF FlushFile, At, Working
<1>6. CASE FlushCacheManifest(t)
  <2>1. Others(t) /\ pc'[t] \notin {"hashing", "committing"}
    BY <1>6, FlushManifestLocal DEF Working
  <2> QED BY <1>6, <2>1, CalmStep DEF FlushCacheManifest, At, Working
<1>7. CASE DescribeFiles(t)
  <2>1. Others(t) /\ pc'[t] \notin {"hashing", "committing"}
    BY <1>7, DescribeLocal DEF Working
  <2> QED BY <1>7, <2>1, CalmStep DEF DescribeFiles, At, Working
<1>8. CASE LoadManifest(t)
  <2>1. Working(t) /\ UNCHANGED <<gen, place, raced, manifest>>
    BY <1>8 DEF LoadManifest, At, Working
  <2>2. Others(t) /\ (Working(t)' => job'[t].loaded = manifest)
    BY <1>8, LoadLocal
  <2>3. ~raced /\ pc'[t] \in {"hashing", "committing"} => job'[t].loaded.gen = gen
    BY <2>1, <2>2, CalmPlace DEF Working
  <2> QED BY <2>1, <2>2, <2>3, CalmStep
<1>9. CASE HashFiles(t)
  <2>1. Working(t) /\ pc[t] = "hashing" /\ UNCHANGED <<gen, place, raced, manifest>>
    BY <1>9 DEF HashFiles, At, Working
  <2>2. Others(t) /\ (Working(t)' => job'[t].loaded = job[t].loaded)
    BY <1>9, HashLocal
  <2>3. ~raced /\ pc'[t] \in {"hashing", "committing"} => job'[t].loaded.gen = gen
    BY <2>1, <2>2 DEF Calm, Working
  <2> QED BY <2>1, <2>2, <2>3, CalmStep
<1>10. CASE WriteManifest(t)
  <2>1. Working(t) /\ pc[t] = "committing" /\ UNCHANGED <<gen, place, raced>>
    BY <1>10 DEF WriteManifest, At, Working
  <2>2. Others(t) /\ pc'[t] \notin {"hashing", "committing"}
    BY <1>10, CommitLocal DEF Working
  <2>3. ~raced => manifest'.gen = manifest.gen
    BY <1>10, <2>1, CommitLocal, CalmPlace DEF Calm, Attached
  <2> QED BY <2>1, <2>2, <2>3, CalmStep
<1>11. CASE VerifyCache(t) \/ CrashTrainer(t)
  <2>1. Others(t) /\ ~Working(t)' /\ UNCHANGED <<gen, place, raced, manifest>>
    BY <1>11, DropLocal DEF VerifyCache, CrashTrainer
  <2> QED BY <2>1, CalmStep DEF Working
<1> QED BY <1>1, <1>4, <1>5, <1>6, <1>7, <1>8, <1>9, <1>10, <1>11 DEF Step

LEMMA NextCalm == IInv /\ Calm /\ [CacheNext]_cacheVars => Calm'
<1> SUFFICES ASSUME IInv, Calm, [CacheNext]_cacheVars PROVE Calm'
  OBVIOUS
<1>1. CASE \E t \in Trainers : Step(t) BY <1>1, StepCalm
<1>2. CASE Withdraw
  <2>1. /\ ~raced' => ~raced /\ \A t \in Trainers : ~Working(t)
        /\ place' = "missing" /\ UNCHANGED pc
    BY <1>2 DEF Withdraw, IInv, Shared
  <2> QED BY <2>1 DEF Calm, Working
<1>3. CASE Publish
  <2>1. /\ place = "missing" /\ place' = "bundle" /\ manifest'.gen = gen'
        /\ UNCHANGED <<raced, pc>>
    BY <1>3 DEF Publish
  <2> QED BY <2>1 DEF Calm, Working
<1>4. CASE UNCHANGED cacheVars BY <1>4 DEF Calm, Working, cacheVars
<1> QED BY <1>1, <1>2, <1>3, <1>4 DEF CacheNext, TrainerStep, Step

LEMMA CalmHolds == CacheSpec => [](IInv /\ Calm)
<1>1. CacheInit => IInv /\ Calm
  BY InitIInv DEF CacheInit, Calm
<1>2. IInv /\ Calm /\ [CacheNext]_cacheVars => IInv' /\ Calm'
  BY NextIInv, NextCalm
<1> QED BY <1>1, <1>2, PTL DEF CacheSpec

\* attach_feature_cache_auxiliaries never drops the IDs, the sign sidecar or
\* the sparse index of the publication that is there, nor puts another one's
\* in their stead, unless a trainer was at work across a publication; and then
\* the bundle verifies only with its own.
THEOREM CacheKeepsOthers == CacheSpec => []OtherAuxiliariesKept
<1>1. IInv /\ Calm => OtherAuxiliariesKept
  <2> SUFFICES ASSUME IInv, Calm, place = "bundle", ~raced \/ VerifiesForLoad
               PROVE  OtherEntries(gen) \subseteq manifest.aux
    BY DEF OtherAuxiliariesKept
  <2>1. manifest.gen = gen
    BY DEF Calm, VerifiesForLoad
  <2> QED BY <2>1 DEF IInv, Shared, GoodManifest
<1> QED BY <1>1, CalmHolds, PTL

-----------------------------------------------------------------------------
(* The files: what a trainer that is told its cache verifies, or does not,  *)
(* may conclude.  It rests on what every file holds, and, while no trainer  *)
(* was at work across a publication, on a directory being one trainer's:    *)
(* create_new lets only one of them past the first file.                    *)

\* What a file of that content says wherever it is.
GoodContent(f, c) ==
  /\ c.by \in Trainers /\ ValidData(DataOf[c.data])
  /\ f # Manifest => c.sums = <<>>

WholeContent(f, c) == c.size = IF f = Manifest THEN 1 ELSE ElementsIn(DataOf[c.data], f)

\* Whatever is written comes from data that was validated, and only a cache's
\* manifest names other files.
GoodFiles ==
  /\ \A t \in Trainers : Working(t) => ValidData(DataOf[job[t].data])
  /\ \A d \in Dirs, f \in AllFiles : disk[d][f] # Absent => GoodContent(f, disk[d][f])

\* File f of trainer t's directory is its own, of the data it was given; and,
\* on a healthy disk, all of it is there.
Own(t, f) == LET file == disk[job[t].dir][f] IN file.by = t /\ file.data = job[t].data
OwnWhole(t, f) == Own(t, f) /\ (faults = 0 => WholeContent(f, disk[job[t].dir][f]))

\* A trainer that still works has its own files in its directory, ...
OwnFiles(t) ==
  /\ pc[t] \in {"writing", "flushing"} => \A i \in 1..job[t].written : OwnWhole(t, CacheFiles[i])
  /\ pc[t] = "flushing" => Own(t, NextFile(t))
  /\ pc[t] \in {"describing", "manifest", "closing", "loading", "hashing", "committing",
               "verifying"} => \A f \in Files : OwnWhole(t, f)
  /\ pc[t] \in {"flushing", "describing", "manifest"} => disk[job[t].dir][Manifest] = Absent
  /\ pc[t] \in {"manifest", "closing"} => job[t].sums = [f \in Files |-> disk[job[t].dir][f]]
  /\ pc[t] = "closing" => Own(t, Manifest)
  /\ pc[t] \in {"loading", "hashing", "committing", "verifying"} => OwnWhole(t, Manifest)
  /\ pc[t] \in {"committing", "verifying"} => job[t].entries = {FileEntry(t, f) : f \in AllFiles}

\* ... a cache's manifest describes the files beside it, which one trainer
\* wrote from one dataset, ...
DescribesFiles(d) ==
  disk[d][Manifest] # Absent =>
    /\ disk[d][Manifest].sums = [f \in Files |-> disk[d][f]]
    /\ \A f \in Files : /\ disk[d][f].by = disk[d][Manifest].by
                        /\ disk[d][f].data = disk[d][Manifest].data

\* ... nobody writes to a directory with a cache's manifest that is flushed, ...
Closed(d) == disk[d][Manifest] # Absent /\ \A t \in Trainers : pc[t] = "closing" => job[t].dir # d

\* ... and every entry is of a file of such a directory.
Backed(e) == e.dir # "root" => Closed(e.dir) /\ disk[e.dir][e.file] = e.sum

EntriesBacked ==
  /\ \A e \in manifest.aux : Backed(e)
  /\ \A t \in Trainers : pc[t] \in {"hashing", "committing"} =>
       \A e \in job[t].loaded.aux : Backed(e)

FilesInv ==
  /\ GoodFiles
  /\ ~raced => /\ \A t \in Trainers : OwnFiles(t)
               /\ \A d \in Dirs : DescribesFiles(d)
               /\ EntriesBacked

-----------------------------------------------------------------------------
(* Steps                                                                    *)

LEMMA ByTrainer ==
  ASSUME NEW t \in Trainers, NEW c, c.by = t
  PROVE  c # Absent
BY CacheBounds DEF Absent, Content

\* A trainer that writes or verifies has a directory and validated data.
LEMMA HasDir ==
  ASSUME IInv, NEW t \in Trainers, Working(t)
  PROVE  job[t].dir \in Dirs /\ job[t].data \in Datasets
BY DEF IInv, Local

\* A trainer that is past its first file owns it.
LEMMA OwnsFirst ==
  ASSUME IInv, NEW t \in Trainers, OwnFiles(t), Working(t), pc[t] # "writing"
  PROVE  Own(t, CacheFiles[1])
<1>1. CacheFiles[1] \in Files
  BY FilesFacts DEF Files
<1>2. CASE pc[t] = "flushing"
  <2>1. job[t].written \in 0..(Len(CacheFiles) - 1)
    BY <1>2, NextFileFacts
  <2>2. CASE job[t].written = 0
    BY <1>2, <2>2 DEF OwnFiles, NextFile
  <2>3. CASE job[t].written # 0
    <3>1. 1 \in 1..job[t].written
      BY <2>1, <2>3, FilesFacts
    <3> QED BY <1>2, <3>1 DEF OwnFiles, OwnWhole
  <2> QED BY <2>2, <2>3
<1>3. CASE pc[t] # "flushing"
  <2>1. pc[t] \in {"describing", "manifest", "closing", "loading", "hashing", "committing",
                  "verifying"}
    BY <1>3 DEF IInv, Local, Stages, Working
  <2> QED BY <1>1, <2>1 DEF OwnFiles, OwnWhole
<1> QED BY <1>2, <1>3

\* The step of trainer t writes to file f of its directory, which is not there
\* or its own.
Touches(t, f) ==
  /\ job[t].dir \in Dirs /\ f \in AllFiles
  /\ \A d \in Dirs, g \in AllFiles : d # job[t].dir \/ g # f => disk'[d][g] = disk[d][g]
  /\ disk[job[t].dir][f] = Absent \/ disk[job[t].dir][f].by = t
  /\ disk'[job[t].dir][f].by = t

\* Files of another trainer stay as they are.
LEMMA OthersFile ==
  ASSUME NEW t \in Trainers, NEW f, Touches(t, f), NEW u \in Trainers, u # t,
         NEW d \in Dirs, NEW g \in AllFiles, disk[d][g].by = u
  PROVE  disk'[d][g] = disk[d][g]
<1>1. disk[d][g] # Absent
  BY ByTrainer
<1> QED BY <1>1 DEF Touches

\* What the other trainers own survives: a manifest is created only in a
\* directory that is t's.
LEMMA OthersOwn ==
  ASSUME IInv, NEW t \in Trainers, NEW f, Touches(t, f),
         f = Manifest => \A g \in Files : disk[job[t].dir][g].by = t,
         NEW u \in Trainers, u # t, OwnFiles(u), pc'[u] = pc[u], job'[u] = job[u],
         faults' = 0 => faults = 0
  PROVE  OwnFiles(u)'
<1> SUFFICES ASSUME Working(u) PROVE OwnFiles(u)'
  BY DEF OwnFiles, Working
<1>1. job[u].dir \in Dirs
  BY HasDir
<1>2. Files \subseteq AllFiles /\ Manifest \in AllFiles /\ CacheFiles[1] \in Files
  BY FilesFacts DEF Files
<1>3. ASSUME NEW g \in AllFiles, Own(u, g)
      PROVE  disk'[job[u].dir][g] = disk[job[u].dir][g] /\ Own(u, g)'
  <2>1. disk'[job[u].dir][g] = disk[job[u].dir][g]
    BY <1>1, <1>3, OthersFile DEF Own
  <2> QED BY <1>3, <2>1 DEF Own
<1>4. ASSUME NEW g \in AllFiles, OwnWhole(u, g)
      PROVE  disk'[job[u].dir][g] = disk[job[u].dir][g] /\ OwnWhole(u, g)'
  <2>1. disk'[job[u].dir][g] = disk[job[u].dir][g] /\ Own(u, g)'
    BY <1>3, <1>4 DEF OwnWhole
  <2>2. faults' = 0 => WholeContent(g, disk'[job'[u].dir][g])
    BY <1>4, <2>1 DEF OwnWhole
  <2> QED BY <2>1, <2>2 DEF OwnWhole, WholeContent
<1>5. ASSUME pc[u] \in {"writing", "flushing"}, NEW i \in 1..job[u].written
      PROVE  OwnWhole(u, CacheFiles[i])'
  <2>1. CacheFiles[i] \in AllFiles
    BY <1>2, <1>5, NextFileFacts, FilesFacts DEF Files
  <2> QED BY <1>4, <1>5, <2>1 DEF OwnFiles
<1>6. pc[u] = "flushing" => Own(u, NextFile(u))'
  BY <1>3, NextFileFacts DEF OwnFiles, NextFile, Own
<1>7. ASSUME pc[u] \in {"describing", "manifest", "closing", "loading", "hashing", "committing",
                       "verifying"}, NEW g \in Files
      PROVE  disk'[job[u].dir][g] = disk[job[u].dir][g] /\ OwnWhole(u, g)'
  BY <1>2, <1>4, <1>7 DEF OwnFiles
<1>8. ASSUME pc[u] \in {"flushing", "describing", "manifest"}
      PROVE  disk'[job[u].dir][Manifest] = Absent
  <2>1. disk[job[u].dir][Manifest] = Absent
    BY <1>8 DEF OwnFiles
  <2>2. disk[job[u].dir][CacheFiles[1]].by = u
    BY <1>8, OwnsFirst DEF Own
  <2>3. ~(f = Manifest /\ job[t].dir = job[u].dir)
    BY <1>2, <2>2
  <2> QED BY <1>1, <1>2, <2>1, <2>3 DEF Touches
<1>9. ASSUME pc[u] \in {"manifest", "closing"}
      PROVE  job'[u].sums = [g \in Files |-> disk'[job'[u].dir][g]]
  <2>1. [g \in Files |-> disk'[job[u].dir][g]] = [g \in Files |-> disk[job[u].dir][g]]
    BY <1>7, <1>9
  <2> QED BY <1>9, <2>1 DEF OwnFiles
<1>10. pc[u] = "closing" => Own(u, Manifest)'
  BY <1>2, <1>3 DEF OwnFiles
<1>11. ASSUME pc[u] \in {"loading", "hashing", "committing", "verifying"}
       PROVE  disk'[job[u].dir][Manifest] = disk[job[u].dir][Manifest] /\ OwnWhole(u, Manifest)'
  BY <1>2, <1>4, <1>11 DEF OwnFiles
<1>12. ASSUME pc[u] \in {"committing", "verifying"}
       PROVE  job'[u].entries = {FileEntry(u, g)' : g \in AllFiles}
  <2>1. \A g \in AllFiles : disk'[job[u].dir][g] = disk[job[u].dir][g]
    BY <1>7, <1>11, <1>12 DEF AllFiles
  <2>2. \A g \in AllFiles : FileEntry(u, g)' = FileEntry(u, g)
    BY <2>1 DEF FileEntry
  <2> QED BY <1>12, <2>2 DEF OwnFiles
<1> QED BY <1>5, <1>6, <1>7, <1>8, <1>9, <1>10, <1>11, <1>12 DEF OwnFiles

\* A step that leaves the files alone.
LEMMA SameOwn ==
  ASSUME NEW u \in Trainers, OwnFiles(u), pc'[u] = pc[u], job'[u] = job[u], UNCHANGED disk,
         faults' = 0 => faults = 0
  PROVE  OwnFiles(u)'
<1>1. \A f : Own(u, f)' <=> Own(u, f)
  BY DEF Own
<1>2. \A f : OwnWhole(u, f) => OwnWhole(u, f)'
  BY <1>1 DEF OwnWhole, WholeContent
<1>3. \A f : FileEntry(u, f)' = FileEntry(u, f)
  BY DEF FileEntry
<1>4. NextFile(u)' = NextFile(u)
  BY DEF NextFile
<1>5. {FileEntry(u, f)' : f \in AllFiles} = {FileEntry(u, f) : f \in AllFiles}
  BY <1>3
<1> QED BY <1>1, <1>2, <1>4, <1>5 DEF OwnFiles

LEMMA StoppedOwesNothing ==
  ASSUME NEW t \in Trainers, ~Working(t)'
  PROVE  OwnFiles(t)'
BY DEF Working, OwnFiles

\* A trainer takes up or leaves no half-written manifest.
LEMMA SameBacked ==
  ASSUME NEW e, Backed(e), UNCHANGED disk,
         \A u \in Trainers : pc'[u] = "closing" => pc[u] = "closing" /\ job'[u] = job[u]
  PROVE  Backed(e)'
BY DEF Backed, Closed

LEMMA QuietFiles ==
  ASSUME IInv, FilesInv, NEW t \in Trainers, Others(t), UNCHANGED <<disk, manifest>>,
         faults' = 0 => faults = 0, ~raced' => ~raced,
         Working(t)' => ValidData(DataOf[job'[t].data]),
         pc'[t] # "closing",
         ~raced => OwnFiles(t)',
         ~raced /\ pc'[t] \in {"hashing", "committing"} =>
           \A e \in job'[t].loaded.aux : Backed(e)
  PROVE  FilesInv'
<1>1. GoodFiles'
  BY DEF FilesInv, GoodFiles, Working, Others, GoodContent
<1>2. ASSUME ~raced, NEW u \in Trainers PROVE OwnFiles(u)'
  BY <1>2, SameOwn DEF FilesInv, Others
<1>3. ASSUME ~raced, NEW d \in Dirs PROVE DescribesFiles(d)'
  BY <1>3 DEF FilesInv, DescribesFiles
<1>4. \A u \in Trainers : pc'[u] = "closing" => pc[u] = "closing" /\ job'[u] = job[u]
  BY DEF Others
<1>5. ASSUME ~raced PROVE EntriesBacked'
  <2>1. \A e \in manifest'.aux : Backed(e)'
    <3>1. EntriesBacked
      BY <1>5 DEF FilesInv
    <3>2. \A e \in manifest'.aux : Backed(e)
      BY <3>1 DEF EntriesBacked
    <3> QED BY <1>4, <3>2, SameBacked
  <2>2. ASSUME NEW u \in Trainers, pc'[u] \in {"hashing", "committing"}
        PROVE  \A e \in job'[u].loaded.aux : Backed(e)'
    <3>1. \A e \in job'[u].loaded.aux : Backed(e)
      <4>1. CASE u = t BY <1>5, <2>2, <4>1
      <4>2. CASE u # t
        <5>1. pc'[u] = pc[u] /\ job'[u] = job[u]
          BY <4>2 DEF Others
        <5>2. EntriesBacked
          BY <1>5 DEF FilesInv
        <5>3. \A e \in job[u].loaded.aux : Backed(e)
          BY <2>2, <5>1, <5>2 DEF EntriesBacked
        <5> QED BY <5>1, <5>3
      <4> QED BY <4>1, <4>2
    <3> QED BY <1>4, <3>1, SameBacked
  <2> QED BY <2>1, <2>2 DEF EntriesBacked
<1> QED BY <1>1, <1>2, <1>3, <1>5 DEF FilesInv

\* A step that writes to a file.
LEMMA TouchFiles ==
  ASSUME IInv, FilesInv, NEW t \in Trainers, NEW f, Touches(t, f), Others(t),
         UNCHANGED <<manifest, raced>>, faults' = 0 => faults = 0,
         GoodContent(f, disk'[job[t].dir][f]),
         Working(t)' => ValidData(DataOf[job'[t].data]),
         pc'[t] \notin {"hashing", "committing"},
         pc'[t] = "closing" => job'[t].dir = job[t].dir,
         ~raced => OwnFiles(t)',
         ~raced /\ f # Manifest => disk[job[t].dir][Manifest] = Absent,
         ~raced /\ f = Manifest =>
           /\ \A g \in Files : disk[job[t].dir][g].by = t
           /\ \A d \in Dirs : d = job[t].dir => DescribesFiles(d)'
           /\ disk[job[t].dir][Manifest] = Absent \/ pc[t] = "closing"
  PROVE  FilesInv'
<1> DEFINE dir == job[t].dir
<1>1. /\ dir \in Dirs /\ f \in AllFiles /\ Files \subseteq AllFiles /\ Manifest \in AllFiles
      /\ \A d \in Dirs, g \in AllFiles : d # dir \/ g # f => disk'[d][g] = disk[d][g]
  BY FilesFacts DEF Touches
<1>2. GoodFiles'
  <2>1. \A u \in Trainers : Working(u)' => ValidData(DataOf[job'[u].data])
    BY DEF FilesInv, GoodFiles, Working, Others
  <2>2. ASSUME NEW d \in Dirs, NEW g \in AllFiles, disk'[d][g] # Absent
        PROVE  GoodContent(g, disk'[d][g])
    <3>1. CASE d = dir /\ g = f BY <3>1
    <3>2. CASE d # dir \/ g # f
      <4>1. disk'[d][g] = disk[d][g]
        BY <1>1, <3>2
      <4>2. GoodContent(g, disk[d][g])
        BY <2>2, <4>1 DEF FilesInv, GoodFiles
      <4> QED BY <4>1, <4>2
    <3> QED BY <3>1, <3>2
  <2> QED BY <2>1, <2>2 DEF GoodFiles, GoodContent
<1>3. ASSUME ~raced, NEW u \in Trainers PROVE OwnFiles(u)'
  <2>1. CASE u = t BY <1>3, <2>1
  <2>2. CASE u # t
    <3>1. OwnFiles(u) /\ pc'[u] = pc[u] /\ job'[u] = job[u]
      BY <1>3, <2>2 DEF FilesInv, Others
    <3>2. f = Manifest => \A g \in Files : disk[job[t].dir][g].by = t
      BY <1>3
    <3> QED BY <2>2, <3>1, <3>2, OthersOwn
  <2> QED BY <2>1, <2>2
<1>4. ASSUME ~raced, NEW d \in Dirs PROVE DescribesFiles(d)'
  <2>1. CASE d = dir /\ f = Manifest BY <1>4, <2>1
  <2>2. CASE d = dir /\ f # Manifest
    <3>1. disk'[d][Manifest] = Absent
      BY <1>1, <1>4, <2>2
    <3> QED BY <3>1 DEF DescribesFiles
  <2>3. CASE d # dir
    <3>1. \A g \in AllFiles : disk'[d][g] = disk[d][g]
      BY <1>1, <2>3
    <3>2. [g \in Files |-> disk'[d][g]] = [g \in Files |-> disk[d][g]]
      BY <1>1, <3>1
    <3>3. DescribesFiles(d)
      BY <1>4 DEF FilesInv
    <3> QED BY <1>1, <3>1, <3>2, <3>3 DEF DescribesFiles
  <2> QED BY <2>1, <2>2, <2>3
<1>5. ASSUME ~raced, NEW e, Listed(e), Backed(e) PROVE Backed(e)'
  <2> SUFFICES ASSUME e.dir # "root" PROVE Closed(e.dir)' /\ disk'[e.dir][e.file] = e.sum
    BY DEF Backed
  <2>1. e.dir \in Dirs /\ e.file \in AllFiles
    BY <1>5 DEF Listed
  <2>2. Closed(e.dir) /\ disk[e.dir][e.file] = e.sum
    BY <1>5 DEF Backed
  <2>3. e.dir # dir
    BY <1>5, <2>2 DEF Closed
  <2>4. \A g \in AllFiles : disk'[e.dir][g] = disk[e.dir][g]
    BY <1>1, <2>1, <2>3
  <2>5. Closed(e.dir)'
    BY <1>1, <2>2, <2>3, <2>4 DEF Closed, Others
  <2> QED BY <2>1, <2>2, <2>4, <2>5
<1>6. ASSUME ~raced PROVE EntriesBacked'
  <2>1. \A e \in manifest.aux : Listed(e) /\ Backed(e)
    <3>1. \A e \in manifest.aux : Listed(e)
      BY DEF IInv, Shared, GoodManifest
    <3>2. EntriesBacked
      BY <1>6 DEF FilesInv
    <3>3. \A e \in manifest.aux : Backed(e)
      BY <3>2 DEF EntriesBacked
    <3> QED BY <3>1, <3>3
  <2>2. ASSUME NEW u \in Trainers, pc'[u] \in {"hashing", "committing"}
        PROVE  \A e \in job'[u].loaded.aux : Backed(e)'
    <3>1. job'[u] = job[u] /\ pc'[u] = pc[u]
      BY <2>2 DEF Others
    <3>2. \A e \in job[u].loaded.aux : Listed(e)
      BY <2>2, <3>1 DEF IInv, Local, GoodManifest
    <3>3. \A e \in job[u].loaded.aux : Backed(e)
      <4>1. EntriesBacked
        BY <1>6 DEF FilesInv
      <4> QED BY <2>2, <3>1, <4>1 DEF EntriesBacked
    <3> QED BY <1>5, <1>6, <3>1, <3>2, <3>3
  <2> QED BY <1>5, <1>6, <2>1, <2>2 DEF EntriesBacked
<1> QED BY <1>2, <1>3, <1>4, <1>6 DEF FilesInv

-----------------------------------------------------------------------------
(* What a trainer writes                                                    *)

\* The content of f, all of it or a part, is t's, from validated data.
IsContent(t, f, c) ==
  /\ c.by = t /\ c.data = job[t].data /\ GoodContent(f, c)
  /\ c.sums = IF f = Manifest THEN job[t].sums ELSE <<>>

LEMMA ContentFacts ==
  ASSUME FilesInv, NEW t \in Trainers, NEW f \in AllFiles, Working(t)
  PROVE  /\ IsContent(t, f, NextContent(t, f)) /\ WholeContent(f, NextContent(t, f))
         /\ IsContent(t, f, [NextContent(t, f) EXCEPT !.size = 0])
<1>1. ValidData(DataOf[job[t].data])
  BY DEF FilesInv, GoodFiles
<1>2. /\ NextContent(t, f).by = t /\ NextContent(t, f).data = job[t].data
      /\ NextContent(t, f).sums = IF f = Manifest THEN job[t].sums ELSE <<>>
  BY DEF NextContent, Content
<1>3. WholeContent(f, NextContent(t, f))
  BY DEF NextContent, Content, WholeContent
<1>4. LET c == [NextContent(t, f) EXCEPT !.size = 0] IN
      c.by = t /\ c.data = job[t].data /\ c.sums = NextContent(t, f).sums
  BY <1>2 DEF NextContent, Content
<1> QED BY <1>1, <1>2, <1>3, <1>4 DEF IsContent, GoodContent

\* A file is created.
LEMMA CreateFacts ==
  ASSUME IInv, FilesInv, NEW t \in Trainers, NEW f \in AllFiles, NEW there,
         CreateOne(t, f, there), Working(t)
  PROVE  /\ Others(t)
         /\ \/ ~Working(t)' /\ UNCHANGED disk
            \/ /\ MayCreate(t, f) /\ pc'[t] = there /\ job'[t] = job[t]
               /\ IsContent(t, f, disk'[job[t].dir][f]) /\ Touches(t, f)
<1>1. CASE ~MayCreate(t, f)
  BY <1>1, FailFacts DEF CreateOne, Ends
<1>2. CASE MayCreate(t, f)
  <2> DEFINE c == [NextContent(t, f) EXCEPT !.size = 0]
  <2>1. PutFile(t, f, c) /\ GoTo(t, there) /\ UNCHANGED job
    BY <1>2 DEF CreateOne
  <2>2. IsContent(t, f, c) /\ job[t].dir \in Dirs
    BY ContentFacts, HasDir
  <2> HIDE DEF c
  <2>3. /\ disk'[job[t].dir][f] = c
        /\ \A d \in Dirs, g \in AllFiles : d # job[t].dir \/ g # f => disk'[d][g] = disk[d][g]
    BY <2>1, <2>2, PutFacts
  <2>4. Touches(t, f)
    BY <1>2, <2>2, <2>3 DEF Touches, MayCreate, IsContent
  <2> QED BY <1>2, <2>1, <2>2, <2>3, <2>4, MoveFacts
<1> QED BY <1>1, <1>2

\* A file is flushed: it is the trainer's and whole now, or it stays.
LEMMA FlushFacts ==
  ASSUME IInv, FilesInv, NEW t \in Trainers, NEW f \in AllFiles, FlushOne(t, f), Working(t)
  PROVE  /\ faults' = 0 => faults = 0
         /\ \/ UNCHANGED disk /\ faults' # 0
            \/ UNCHANGED disk /\ disk[job[t].dir][f].by # t /\ faults' = faults
            \/ /\ IsContent(t, f, disk'[job[t].dir][f]) /\ Touches(t, f)
               /\ WholeContent(f, disk'[job[t].dir][f])
               /\ disk[job[t].dir][f].by = t /\ faults' = faults
<1>1. faults \in Nat
  BY DEF IInv, Shared
<1>2. CASE faults' = faults + 1 /\ UNCHANGED disk
  BY <1>1, <1>2
<1>3. CASE faults' = faults /\ disk[job[t].dir][f].by # t /\ UNCHANGED disk
  BY <1>3
<1>4. CASE /\ faults' = faults /\ disk[job[t].dir][f].by = t
           /\ PutFile(t, f, NextContent(t, f))
  <2> DEFINE c == NextContent(t, f)
  <2>1. IsContent(t, f, c) /\ WholeContent(f, c) /\ job[t].dir \in Dirs
    BY ContentFacts, HasDir
  <2> HIDE DEF c
  <2>2. /\ disk'[job[t].dir][f] = c
        /\ \A d \in Dirs, g \in AllFiles : d # job[t].dir \/ g # f => disk'[d][g] = disk[d][g]
    BY <1>4, <2>1, PutFacts DEF c
  <2>3. Touches(t, f)
    BY <1>4, <2>1, <2>2 DEF Touches, IsContent
  <2> QED BY <1>4, <2>1, <2>2, <2>3
<1> QED BY <1>2, <1>3, <1>4 DEF FlushOne

LEMMA CreateFiles ==
  ASSUME IInv, FilesInv, NEW t \in Trainers, CreateFile(t)
  PROVE  FilesInv'
<1> DEFINE f == NextFile(t)
<1>1. /\ pc[t] = "writing" /\ Working(t) /\ CreateOne(t, f, "flushing")
      /\ UNCHANGED <<raced, manifest, faults>>
  BY DEF CreateFile, At, Working
<1>2. f \in Files /\ f \in AllFiles /\ f # Manifest
  BY <1>1, NextFileFacts
<1>3. NextFile(t)' = CacheFiles[job'[t].written + 1]
  BY DEF NextFile
<1>4. f = CacheFiles[job[t].written + 1] /\ job[t].written \in 0..(Len(CacheFiles) - 1)
  BY <1>1, NextFileFacts DEF NextFile
<1> HIDE DEF f
<1>5. /\ Others(t)
      /\ \/ ~Working(t)' /\ UNCHANGED disk
         \/ /\ MayCreate(t, f) /\ pc'[t] = "flushing" /\ job'[t] = job[t]
            /\ IsContent(t, f, disk'[job[t].dir][f]) /\ Touches(t, f)
  BY <1>1, <1>2, CreateFacts
<1>6. CASE ~Working(t)' /\ UNCHANGED disk
  BY <1>1, <1>5, <1>6, StoppedOwesNothing, QuietFiles DEF Working
<1>7. CASE /\ MayCreate(t, f) /\ pc'[t] = "flushing" /\ job'[t] = job[t]
           /\ IsContent(t, f, disk'[job[t].dir][f]) /\ Touches(t, f)
  <2>1. job[t].dir \in Dirs
    BY <1>1, HasDir
  <2>2. ASSUME ~raced PROVE disk[job[t].dir][Manifest] = Absent
    <3> SUFFICES ASSUME disk[job[t].dir][Manifest] # Absent PROVE FALSE
      OBVIOUS
    <3>1. disk[job[t].dir][f].by = "nobody"
      BY <1>7 DEF MayCreate, Absent, Content
    <3>2. DescribesFiles(job[t].dir)
      BY <2>1, <2>2 DEF FilesInv
    <3>3. disk[job[t].dir][Manifest].by = "nobody"
      BY <1>2, <3>1, <3>2 DEF DescribesFiles
    <3>4. disk[job[t].dir][Manifest].by \in Trainers
      BY <2>1, FilesFacts DEF FilesInv, GoodFiles, GoodContent
    <3> QED BY <3>3, <3>4, CacheBounds
  <2>3. ASSUME ~raced PROVE OwnFiles(t)'
    <3>1. OwnFiles(t)
      BY <2>3 DEF FilesInv
    <3>2. ASSUME NEW i \in 1..job[t].written PROVE OwnWhole(t, CacheFiles[i])'
      <4>1. OwnWhole(t, CacheFiles[i]) /\ CacheFiles[i] \in AllFiles
        BY <1>1, <1>4, <3>1, FilesFacts DEF OwnFiles, Files
      <4>2. CacheFiles[i] # f
        BY <1>7, <4>1, ByTrainer DEF OwnWhole, Own, MayCreate
      <4>3. disk'[job'[t].dir][CacheFiles[i]] = disk[job[t].dir][CacheFiles[i]]
        BY <1>7, <2>1, <4>1, <4>2 DEF Touches
      <4> QED BY <1>1, <1>7, <4>1, <4>3 DEF OwnWhole, Own, WholeContent
    <3>3. Own(t, NextFile(t))'
      BY <1>3, <1>4, <1>7 DEF Own, IsContent
    <3>4. disk'[job'[t].dir][Manifest] = Absent
      BY <1>2, <1>7, <2>1, <2>2, <2>3, FilesFacts DEF Touches
    <3> QED BY <1>7, <3>2, <3>3, <3>4 DEF OwnFiles
  <2>4. GoodContent(f, disk'[job[t].dir][f]) /\ ValidData(DataOf[job'[t].data])
    BY <1>7 DEF IsContent, GoodContent
  <2> QED BY <1>1, <1>2, <1>5, <1>7, <2>2, <2>3, <2>4, TouchFiles
<1> QED BY <1>5, <1>6, <1>7

LEMMA FlushFiles ==
  ASSUME IInv, FilesInv, NEW t \in Trainers, FlushFile(t)
  PROVE  FilesInv'
<1>0. pc[t] = "flushing" /\ Working(t)
  BY DEF FlushFile, At, Working
<1>2. PICK f \in Files : f = NextFile(t) /\ f \in AllFiles /\ f # Manifest
  BY <1>0, NextFileFacts
<1>1. /\ pc[t] = "flushing" /\ Working(t) /\ FlushOne(t, f)
      /\ UNCHANGED <<raced, manifest>>
  BY <1>0, <1>2 DEF FlushFile
<1>3. f = CacheFiles[job[t].written + 1] /\ job[t].written \in 0..(Len(CacheFiles) - 1)
  BY <1>1, <1>2, NextFileFacts DEF NextFile
<1>4. ~raced => Own(t, f)
  BY <1>1, <1>2 DEF FilesInv, OwnFiles
<1>5. /\ faults' = 0 => faults = 0
      /\ \/ UNCHANGED disk /\ faults' # 0
         \/ UNCHANGED disk /\ disk[job[t].dir][f].by # t
         \/ /\ IsContent(t, f, disk'[job[t].dir][f]) /\ Touches(t, f)
            /\ WholeContent(f, disk'[job[t].dir][f])
  BY <1>1, <1>2, FlushFacts
<1>6. /\ Others(t)
      /\ \/ ~Working(t)'
         \/ /\ pc'[t] \in {"writing", "describing"}
            /\ pc'[t] = "describing" => job[t].written + 1 = Len(CacheFiles)
            /\ job'[t].written = job[t].written + 1
            /\ job'[t].dir = job[t].dir /\ job'[t].data = job[t].data
  BY FlushFileLocal
<1>7. job[t].dir \in Dirs /\ ValidData(DataOf[job[t].data])
  BY <1>1, HasDir DEF FilesInv, GoodFiles
<1>8. ASSUME ~raced PROVE OwnFiles(t)' /\ disk[job[t].dir][Manifest] = Absent
  <2>1. OwnFiles(t)
    BY <1>8 DEF FilesInv
  <2>2. disk[job[t].dir][Manifest] = Absent
    BY <1>1, <2>1 DEF OwnFiles
  <2>3. disk'[job[t].dir][Manifest] = Absent
    BY <1>2, <1>5, <1>7, <2>2, FilesFacts DEF Touches
  <2>4. CASE ~Working(t)'
    BY <2>2, <2>4, StoppedOwesNothing
  <2>5. CASE Working(t)'
    <3>1. job'[t].dir = job[t].dir /\ job'[t].data = job[t].data
      BY <1>6, <2>5
    <3>2. OwnWhole(t, f)'
      <4>1. Own(t, f)'
        BY <1>4, <1>5, <1>8, <3>1 DEF Own, IsContent
      <4>2. faults' = 0 => WholeContent(f, disk'[job'[t].dir][f])
        BY <1>4, <1>5, <1>8, <3>1 DEF Own
      <4> QED BY <4>1, <4>2 DEF OwnWhole, WholeContent
    <3>3. ASSUME NEW i \in 1..job[t].written PROVE OwnWhole(t, CacheFiles[i])'
      <4>1. OwnWhole(t, CacheFiles[i]) /\ CacheFiles[i] \in AllFiles
        BY <1>1, <1>3, <2>1, FilesFacts DEF OwnFiles, Files
      <4>2. CASE CacheFiles[i] = f BY <3>2, <4>2
      <4>3. CASE CacheFiles[i] # f
        <5>1. disk'[job'[t].dir][CacheFiles[i]] = disk[job[t].dir][CacheFiles[i]]
          BY <1>5, <1>7, <3>1, <4>1, <4>3 DEF Touches
        <5> QED BY <1>5, <3>1, <4>1, <5>1 DEF OwnWhole, Own, WholeContent
      <4> QED BY <4>2, <4>3
    <3>4. \A i \in 1..(job[t].written + 1) : OwnWhole(t, CacheFiles[i])'
      <4> SUFFICES ASSUME NEW i \in 1..(job[t].written + 1) PROVE OwnWhole(t, CacheFiles[i])'
        OBVIOUS
      <4>1. i \in 1..job[t].written \/ i = job[t].written + 1
        BY <1>3
      <4> QED BY <1>3, <3>2, <3>3, <4>1
    <3>5. CASE pc'[t] = "writing"
      BY <1>6, <2>2, <2>5, <3>4, <3>5 DEF OwnFiles
    <3>6. CASE pc'[t] = "describing"
      <4>1. ASSUME NEW g \in Files PROVE OwnWhole(t, g)'
        <5>1. PICK i \in DOMAIN CacheFiles : g = CacheFiles[i]
          BY DEF Files
        <5>2. i \in 1..(job[t].written + 1)
          BY <1>6, <2>5, <3>6, FilesFacts
        <5> QED BY <3>4, <5>1, <5>2
      <4> QED BY <2>2, <2>3, <3>1, <3>6, <4>1 DEF OwnFiles
    <3> QED BY <1>6, <2>5, <3>5, <3>6
  <2> QED BY <2>2, <2>4, <2>5
<1>9. pc'[t] \notin {"hashing", "committing", "closing"}
  BY <1>6 DEF Working
<1>10. Working(t)' => ValidData(DataOf[job'[t].data])
  BY <1>6, <1>7
<1>11. CASE UNCHANGED disk
  BY <1>1, <1>5, <1>6, <1>8, <1>9, <1>10, <1>11, QuietFiles
<1>12. CASE IsContent(t, f, disk'[job[t].dir][f]) /\ Touches(t, f)
  <2>1. GoodContent(f, disk'[job[t].dir][f])
    BY <1>12 DEF IsContent
  <2> QED BY <1>1, <1>2, <1>5, <1>6, <1>8, <1>9, <1>10, <1>12, <2>1, TouchFiles
<1> QED BY <1>5, <1>11, <1>12

LEMMA CacheManifestFiles ==
  ASSUME IInv, FilesInv, NEW t \in Trainers, CreateCacheManifest(t)
  PROVE  FilesInv'
<1>1. /\ pc[t] = "manifest" /\ Working(t) /\ CreateOne(t, Manifest, "closing")
      /\ UNCHANGED <<raced, manifest, faults>>
  BY DEF CreateCacheManifest, At, Working
<1>2. /\ Others(t)
      /\ \/ ~Working(t)' /\ UNCHANGED disk
         \/ /\ MayCreate(t, Manifest) /\ pc'[t] = "closing" /\ job'[t] = job[t]
            /\ IsContent(t, Manifest, disk'[job[t].dir][Manifest]) /\ Touches(t, Manifest)
  BY <1>1, FilesFacts, CreateFacts
<1>3. CASE ~Working(t)' /\ UNCHANGED disk
  BY <1>1, <1>2, <1>3, StoppedOwesNothing, QuietFiles DEF Working
<1>4. CASE /\ MayCreate(t, Manifest) /\ pc'[t] = "closing" /\ job'[t] = job[t]
           /\ IsContent(t, Manifest, disk'[job[t].dir][Manifest]) /\ Touches(t, Manifest)
  <2>1. job[t].dir \in Dirs
    BY <1>1, HasDir
  <2>2. \A g \in Files : disk'[job[t].dir][g] = disk[job[t].dir][g]
    BY <1>4, <2>1, FilesFacts DEF Touches
  <2>3. [g \in Files |-> disk'[job[t].dir][g]] = [g \in Files |-> disk[job[t].dir][g]]
    BY <2>2
  <2>4. ASSUME ~raced
        PROVE  /\ \A g \in Files : OwnWhole(t, g) /\ OwnWhole(t, g)'
               /\ job[t].sums = [g \in Files |-> disk[job[t].dir][g]]
    <3>1. /\ \A g \in Files : OwnWhole(t, g)
          /\ job[t].sums = [g \in Files |-> disk[job[t].dir][g]]
      BY <1>1, <2>4 DEF FilesInv, OwnFiles
    <3>2. \A g \in Files : OwnWhole(t, g)'
      BY <1>1, <1>4, <2>2, <3>1 DEF OwnWhole, Own, WholeContent
    <3> QED BY <3>1, <3>2
  <2>5. ASSUME ~raced PROVE OwnFiles(t)'
    <3>1. Own(t, Manifest)'
      BY <1>4 DEF Own, IsContent
    <3> QED BY <1>4, <2>3, <2>4, <2>5, <3>1 DEF OwnFiles
  <2>6. ASSUME ~raced PROVE DescribesFiles(job[t].dir)'
    <3>1. /\ disk'[job[t].dir][Manifest].sums = [g \in Files |-> disk'[job[t].dir][g]]
          /\ disk'[job[t].dir][Manifest].by = t
          /\ disk'[job[t].dir][Manifest].data = job[t].data
      BY <1>4, <2>3, <2>4, <2>6 DEF IsContent
    <3>2. \A g \in Files : /\ disk'[job[t].dir][g].by = t
                           /\ disk'[job[t].dir][g].data = job[t].data
      BY <1>4, <2>4, <2>6 DEF OwnWhole, Own
    <3> QED BY <1>4, <3>1, <3>2 DEF DescribesFiles
  <2>7. ASSUME ~raced
        PROVE  /\ \A g \in Files : disk[job[t].dir][g].by = t
               /\ \A d \in Dirs : d = job[t].dir => DescribesFiles(d)'
               /\ disk[job[t].dir][Manifest] = Absent
    <3>1. \A g \in Files : disk[job[t].dir][g].by = t
      BY <2>4, <2>7 DEF OwnWhole, Own
    <3>2. ASSUME NEW d \in Dirs, d = job[t].dir PROVE DescribesFiles(d)'
      BY <1>4, <2>6, <2>7, <3>2 DEF DescribesFiles
    <3> QED BY <1>4, <3>1, <3>2 DEF MayCreate
  <2>8. GoodContent(Manifest, disk'[job[t].dir][Manifest]) /\ ValidData(DataOf[job'[t].data])
    BY <1>4 DEF IsContent, GoodContent
  <2> QED BY <1>1, <1>2, <1>4, <2>5, <2>7, <2>8, TouchFiles
<1> QED BY <1>2, <1>3, <1>4

LEMMA FlushManifestFiles ==
  ASSUME IInv, FilesInv, NEW t \in Trainers, FlushCacheManifest(t)
  PROVE  FilesInv'
<1>1. /\ pc[t] = "closing" /\ Working(t) /\ FlushOne(t, Manifest)
      /\ UNCHANGED <<raced, manifest>>
  BY DEF FlushCacheManifest, At, Working
<1>2. /\ faults' = 0 => faults = 0
      /\ \/ UNCHANGED disk /\ faults' # 0
         \/ UNCHANGED disk /\ disk[job[t].dir][Manifest].by # t
         \/ /\ IsContent(t, Manifest, disk'[job[t].dir][Manifest]) /\ Touches(t, Manifest)
            /\ WholeContent(Manifest, disk'[job[t].dir][Manifest])
  BY <1>1, FilesFacts, FlushFacts
<1>3. /\ Others(t)
      /\ \/ ~Working(t)'
         \/ pc'[t] = "loading" /\ job'[t].dir = job[t].dir /\ job'[t].data = job[t].data
  BY FlushManifestLocal
<1>4. job[t].dir \in Dirs /\ ValidData(DataOf[job[t].data])
  BY <1>1, HasDir DEF FilesInv, GoodFiles
<1>5. \A g \in Files : disk'[job[t].dir][g] = disk[job[t].dir][g]
  BY <1>2, <1>4, FilesFacts DEF Touches
<1>6. ASSUME ~raced
      PROVE  /\ \A g \in Files : OwnWhole(t, g)
             /\ Own(t, Manifest) /\ job[t].sums = [g \in Files |-> disk[job[t].dir][g]]
  BY <1>1, <1>6 DEF FilesInv, OwnFiles
<1>7. ASSUME ~raced PROVE OwnFiles(t)'
  <2>1. CASE ~Working(t)' BY <2>1, StoppedOwesNothing
  <2>2. CASE Working(t)'
    <3>1. pc'[t] = "loading" /\ job'[t].dir = job[t].dir /\ job'[t].data = job[t].data
      BY <1>3, <2>2
    <3>2. \A g \in Files : OwnWhole(t, g)'
      BY <1>2, <1>5, <1>6, <1>7, <3>1 DEF OwnWhole, Own, WholeContent
    <3>3. OwnWhole(t, Manifest)'
      <4>1. Own(t, Manifest)'
        BY <1>2, <1>6, <1>7, <3>1 DEF Own, IsContent
      <4>2. faults' = 0 => WholeContent(Manifest, disk'[job'[t].dir][Manifest])
        BY <1>2, <1>6, <1>7, <3>1 DEF Own
      <4> QED BY <4>1, <4>2 DEF OwnWhole, WholeContent
    <3> QED BY <3>1, <3>2, <3>3 DEF OwnFiles
  <2> QED BY <2>1, <2>2
<1>8. pc'[t] \notin {"hashing", "committing", "closing"}
  BY <1>3 DEF Working
<1>9. Working(t)' => ValidData(DataOf[job'[t].data])
  BY <1>3, <1>4
<1>10. CASE UNCHANGED disk
  BY <1>1, <1>2, <1>3, <1>7, <1>8, <1>9, <1>10, QuietFiles
<1>11. CASE IsContent(t, Manifest, disk'[job[t].dir][Manifest]) /\ Touches(t, Manifest)
  <2>1. GoodContent(Manifest, disk'[job[t].dir][Manifest])
    BY <1>11 DEF IsContent
  <2>2. ASSUME ~raced, NEW d \in Dirs, d = job[t].dir PROVE DescribesFiles(d)'
    <3>1. [g \in Files |-> disk'[d][g]] = [g \in Files |-> disk[job[t].dir][g]]
      BY <1>5, <2>2
    <3>2. disk'[d][Manifest].sums = [g \in Files |-> disk'[d][g]]
      BY <1>6, <1>11, <2>2, <3>1 DEF IsContent
    <3>3. disk'[d][Manifest].by = t /\ disk'[d][Manifest].data = job[t].data
      BY <1>11, <2>2 DEF IsContent
    <3>4. \A g \in Files : disk'[d][g].by = t /\ disk'[d][g].data = job[t].data
      BY <1>5, <1>6, <2>2 DEF OwnWhole, Own
    <3> QED BY <3>2, <3>3, <3>4 DEF DescribesFiles
  <2>3. ~raced => \A g \in Files : disk[job[t].dir][g].by = t
    BY <1>6 DEF OwnWhole, Own
  <2> QED BY <1>1, <1>2, <1>3, <1>7, <1>8, <1>9, <1>11, <2>1, <2>2, <2>3, TouchFiles
<1> QED BY <1>2, <1>10, <1>11

LEMMA DescribeKeepsFiles ==
  ASSUME IInv, FilesInv, NEW t \in Trainers, DescribeFiles(t)
  PROVE  FilesInv'
<1>1. /\ pc[t] = "describing" /\ Working(t)
      /\ UNCHANGED <<disk, manifest, raced, faults>>
  BY DEF DescribeFiles, At, Working
<1>2. /\ Others(t)
      /\ \/ ~Working(t)'
         \/ /\ pc'[t] = "manifest"
            /\ job'[t].dir = job[t].dir /\ job'[t].data = job[t].data
            /\ job'[t].sums = [f \in Files |-> disk[job[t].dir][f]]
  BY DescribeLocal
<1>3. ASSUME ~raced PROVE OwnFiles(t)'
  <2>1. CASE ~Working(t)' BY <2>1, StoppedOwesNothing
  <2>2. CASE Working(t)'
    <3>1. /\ pc'[t] = "manifest"
          /\ job'[t].dir = job[t].dir /\ job'[t].data = job[t].data
          /\ job'[t].sums = [f \in Files |-> disk'[job'[t].dir][f]]
      BY <1>1, <1>2, <2>2
    <3>2. OwnFiles(t)
      BY <1>3 DEF FilesInv
    <3>3. \A f \in Files : OwnWhole(t, f)'
      BY <1>1, <3>1, <3>2 DEF OwnFiles, OwnWhole, Own, WholeContent
    <3>4. disk'[job'[t].dir][Manifest] = Absent
      BY <1>1, <3>1, <3>2 DEF OwnFiles
    <3> QED BY <3>1, <3>3, <3>4 DEF OwnFiles
  <2> QED BY <2>1, <2>2
<1>4. Working(t)' => ValidData(DataOf[job'[t].data])
  BY <1>1, <1>2 DEF FilesInv, GoodFiles
<1>5. pc'[t] \notin {"hashing", "committing", "closing"}
  BY <1>2 DEF Working
<1> QED BY <1>1, <1>2, <1>3, <1>4, <1>5, QuietFiles

LEMMA LoadKeepsFiles ==
  ASSUME IInv, FilesInv, NEW t \in Trainers, LoadManifest(t)
  PROVE  FilesInv'
<1>1. /\ pc[t] = "loading" /\ Working(t)
      /\ UNCHANGED <<disk, manifest, raced, faults>>
  BY DEF LoadManifest, At, Working
<1>2. /\ Others(t)
      /\ \/ ~Working(t)'
         \/ /\ pc'[t] = "hashing" /\ job'[t].loaded = manifest
            /\ job'[t].dir = job[t].dir /\ job'[t].data = job[t].data
  BY LoadLocal
<1>3. ASSUME ~raced PROVE OwnFiles(t)'
  <2>1. CASE ~Working(t)' BY <2>1, StoppedOwesNothing
  <2>2. CASE Working(t)'
    <3>1. pc'[t] = "hashing" /\ job'[t].dir = job[t].dir /\ job'[t].data = job[t].data
      BY <1>2, <2>2
    <3>2. OwnFiles(t)
      BY <1>3 DEF FilesInv
    <3>3. \A f \in AllFiles : OwnWhole(t, f)'
      BY <1>1, <3>1, <3>2 DEF OwnFiles, OwnWhole, Own, WholeContent, AllFiles
    <3> QED BY <3>1, <3>3, FilesFacts DEF OwnFiles
  <2> QED BY <2>1, <2>2
<1>4. Working(t)' => ValidData(DataOf[job'[t].data])
  BY <1>1, <1>2 DEF FilesInv, GoodFiles
<1>5. pc'[t] # "closing"
  BY <1>2 DEF Working
<1>6. ASSUME ~raced, pc'[t] \in {"hashing", "committing"}
      PROVE  \A e \in job'[t].loaded.aux : Backed(e)
  <2>1. job'[t].loaded = manifest
    BY <1>2, <1>6 DEF Working
  <2>2. EntriesBacked
    BY <1>6 DEF FilesInv
  <2> QED BY <2>1, <2>2 DEF EntriesBacked
<1> QED BY <1>1, <1>2, <1>3, <1>4, <1>5, <1>6, QuietFiles

LEMMA HashKeepsFiles ==
  ASSUME IInv, FilesInv, NEW t \in Trainers, HashFiles(t)
  PROVE  FilesInv'
<1>1. /\ pc[t] = "hashing" /\ Working(t)
      /\ UNCHANGED <<disk, manifest, raced, faults>>
  BY DEF HashFiles, At, Working
<1>2. /\ Others(t)
      /\ \/ ~Working(t)'
         \/ /\ pc'[t] = "committing" /\ job'[t].loaded = job[t].loaded
            /\ job'[t].dir = job[t].dir /\ job'[t].data = job[t].data
            /\ job'[t].entries = {FileEntry(t, f) : f \in AllFiles}
  BY HashLocal
<1>3. ASSUME ~raced PROVE OwnFiles(t)'
  <2>1. CASE ~Working(t)' BY <2>1, StoppedOwesNothing
  <2>2. CASE Working(t)'
    <3>1. /\ pc'[t] = "committing" /\ job'[t].dir = job[t].dir /\ job'[t].data = job[t].data
          /\ job'[t].entries = {FileEntry(t, f) : f \in AllFiles}
      BY <1>2, <2>2
    <3>2. OwnFiles(t)
      BY <1>3 DEF FilesInv
    <3>3. \A f \in AllFiles : OwnWhole(t, f)'
      BY <1>1, <3>1, <3>2 DEF OwnFiles, OwnWhole, Own, WholeContent, AllFiles
    <3>4. \A f \in AllFiles : FileEntry(t, f)' = FileEntry(t, f)
      BY <1>1, <3>1 DEF FileEntry
    <3>5. job'[t].entries = {FileEntry(t, f)' : f \in AllFiles}
      BY <3>1, <3>4
    <3> QED BY <3>1, <3>3, <3>5, FilesFacts DEF OwnFiles
  <2> QED BY <2>1, <2>2
<1>4. Working(t)' => ValidData(DataOf[job'[t].data])
  BY <1>1, <1>2 DEF FilesInv, GoodFiles
<1>5. pc'[t] # "closing"
  BY <1>2 DEF Working
<1>6. ASSUME ~raced, pc'[t] \in {"hashing", "committing"}
      PROVE  \A e \in job'[t].loaded.aux : Backed(e)
  <2>1. job'[t].loaded = job[t].loaded
    BY <1>2, <1>6 DEF Working
  <2>2. EntriesBacked
    BY <1>6 DEF FilesInv
  <2> QED BY <1>1, <2>1, <2>2 DEF EntriesBacked
<1> QED BY <1>1, <1>2, <1>3, <1>4, <1>5, <1>6, QuietFiles

\* VerifyCache, CrashTrainer and a run that fails: the job is dropped.
LEMMA StopKeepsFiles ==
  ASSUME IInv, FilesInv, NEW t \in Trainers, Others(t), ~Working(t)',
         UNCHANGED <<disk, manifest, raced>>, faults' = 0 => faults = 0
  PROVE  FilesInv'
<1>1. pc'[t] \notin {"hashing", "committing", "closing"}
  BY DEF Working
<1> QED BY <1>1, StoppedOwesNothing, QuietFiles

LEMMA BeginKeepsFiles ==
  ASSUME IInv, FilesInv, NEW t \in Trainers, NEW d \in Dirs, NEW data \in Datasets,
         BeginCache(t, d, data)
  PROVE  FilesInv'
<1>1. UNCHANGED <<manifest, disk, faults>>
  BY DEF BeginCache
<1>2. CASE ~ValidData(DataOf[data])
  BY <1>1, <1>2, FailFacts, StopKeepsFiles DEF BeginCache, Ends
<1>3. CASE ValidData(DataOf[data])
  <2>1. Others(t) /\ pc'[t] = "writing" /\ job'[t] = [NoJob EXCEPT !.dir = d, !.data = data]
    BY <1>3, JobFacts DEF BeginCache
  <2>2. job'[t].data = data /\ job'[t].written = 0
    BY <2>1 DEF NoJob
  <2>3. OwnFiles(t)'
    <3>1. \A i \in 1..job'[t].written : FALSE
      BY <2>2
    <3> QED BY <2>1, <3>1 DEF OwnFiles
  <2>4. ~raced' => ~raced
    BY <1>3 DEF BeginCache, IInv, Shared
  <2> QED BY <1>1, <1>3, <2>1, <2>2, <2>3, <2>4, QuietFiles
<1> QED BY <1>2, <1>3

LEMMA CommitKeepsFiles ==
  ASSUME IInv, FilesInv, NEW t \in Trainers, WriteManifest(t)
  PROVE  FilesInv'
<1>1. /\ pc[t] = "committing" /\ Working(t) /\ UNCHANGED <<disk, raced, faults>>
  BY DEF WriteManifest, At, Working
<1>2. /\ Others(t)
      /\ \/ ~Working(t)' /\ UNCHANGED manifest
         \/ /\ pc'[t] = "verifying" /\ manifest' = Attached(t)
            /\ job'[t].dir = job[t].dir /\ job'[t].data = job[t].data
            /\ job'[t].entries = job[t].entries
  BY CommitLocal
<1>3. CASE ~Working(t)' /\ UNCHANGED manifest
  BY <1>1, <1>2, <1>3, StopKeepsFiles
<1>4. CASE /\ pc'[t] = "verifying" /\ manifest' = Attached(t)
           /\ job'[t].dir = job[t].dir /\ job'[t].data = job[t].data
           /\ job'[t].entries = job[t].entries
  <2>1. GoodFiles'
    <3>1. \A u \in Trainers : Working(u)' => ValidData(DataOf[job'[u].data])
      BY <1>1, <1>2, <1>4 DEF FilesInv, GoodFiles, Working, Others
    <3> QED BY <1>1, <3>1 DEF FilesInv, GoodFiles, GoodContent
  <2>2. \A u \in Trainers : pc'[u] = "closing" => pc[u] = "closing" /\ job'[u] = job[u]
    BY <1>2, <1>4 DEF Others
  <2>3. ASSUME ~raced PROVE OwnFiles(t)'
    <3>1. OwnFiles(t)
      BY <2>3 DEF FilesInv
    <3>2. \A f \in AllFiles : OwnWhole(t, f)'
      BY <1>1, <1>4, <3>1 DEF OwnFiles, OwnWhole, Own, WholeContent, AllFiles
    <3>3. \A f \in AllFiles : FileEntry(t, f)' = FileEntry(t, f)
      BY <1>1, <1>4 DEF FileEntry
    <3>4. job'[t].entries = {FileEntry(t, f)' : f \in AllFiles}
      <4>1. job'[t].entries = {FileEntry(t, f) : f \in AllFiles}
        BY <1>1, <1>4, <3>1 DEF OwnFiles
      <4> QED BY <3>3, <4>1
    <3> QED BY <1>4, <3>2, <3>4, FilesFacts DEF OwnFiles
  <2>4. ASSUME ~raced, NEW u \in Trainers PROVE OwnFiles(u)'
    <3>1. CASE u = t BY <2>3, <2>4, <3>1
    <3>2. CASE u # t
      <4>1. OwnFiles(u) /\ pc'[u] = pc[u] /\ job'[u] = job[u]
        BY <1>2, <2>4, <3>2 DEF FilesInv, Others
      <4> QED BY <1>1, <4>1, SameOwn
    <3> QED BY <3>1, <3>2
  <2>5. ASSUME ~raced, NEW d \in Dirs PROVE DescribesFiles(d)'
    BY <1>1, <2>5 DEF FilesInv, DescribesFiles
  <2>6. ASSUME ~raced, NEW e \in job[t].entries PROVE Backed(e)
    <3>1. OwnFiles(t)
      BY <2>6 DEF FilesInv
    <3>2. PICK f \in AllFiles : e = FileEntry(t, f)
      BY <1>1, <2>6, <3>1 DEF OwnFiles
    <3>3. e.dir = job[t].dir /\ e.sum = disk[e.dir][e.file]
      BY <3>2 DEF FileEntry
    <3>4. disk[job[t].dir][Manifest] # Absent
      BY <1>1, <3>1, ByTrainer DEF OwnFiles, OwnWhole, Own
    <3>5. ASSUME NEW u \in Trainers, pc[u] = "closing" PROVE job[u].dir # job[t].dir
      <4>1. u # t /\ Working(u) /\ OwnFiles(u)
        BY <1>1, <2>6, <3>5 DEF FilesInv, Working
      <4>2. Own(u, CacheFiles[1]) /\ Own(t, CacheFiles[1])
        BY <1>1, <3>1, <3>5, <4>1, OwnsFirst
      <4> QED BY <4>1, <4>2 DEF Own
    <3> QED BY <3>3, <3>4, <3>5 DEF Backed, Closed
  <2>7. ASSUME ~raced PROVE EntriesBacked'
    <3>1. EntriesBacked
      BY <2>7 DEF FilesInv
    <3>2. ASSUME NEW e \in manifest'.aux PROVE Backed(e)'
      <4>1. e \in job[t].loaded.aux \/ e \in job[t].entries
        BY <1>4, <3>2 DEF Attached
      <4>2. Backed(e)
        BY <1>1, <2>6, <2>7, <3>1, <4>1 DEF EntriesBacked
      <4> QED BY <1>1, <2>2, <4>2, SameBacked
    <3>3. ASSUME NEW u \in Trainers, pc'[u] \in {"hashing", "committing"},
                 NEW e \in job'[u].loaded.aux
          PROVE  Backed(e)'
      <4>1. pc'[u] = pc[u] /\ job'[u] = job[u]
        BY <1>2, <1>4, <3>3 DEF Others
      <4>2. Backed(e)
        BY <3>1, <3>3, <4>1 DEF EntriesBacked
      <4> QED BY <1>1, <2>2, <4>2, SameBacked
    <3> QED BY <3>2, <3>3 DEF EntriesBacked
  <2> QED BY <1>1, <2>1, <2>4, <2>5, <2>7 DEF FilesInv
<1> QED BY <1>2, <1>3, <1>4

LEMMA WithdrawKeepsFiles ==
  ASSUME IInv, FilesInv, Withdraw
  PROVE  FilesInv'
<1>1. /\ \A d \in Dirs, f \in AllFiles : disk'[d][f] = Absent
      /\ manifest'.aux = {} /\ UNCHANGED <<pc, job>>
  BY DEF Withdraw, NoManifest
<1>2. GoodFiles'
  BY <1>1 DEF FilesInv, GoodFiles, Working
<1>3. ASSUME ~raced', NEW t \in Trainers PROVE ~Working(t)'
  <2>1. raced \in BOOLEAN /\ raced' = (raced \/ \E u \in Trainers : Working(u))
    BY DEF Withdraw, IInv, Shared
  <2> QED BY <1>1, <1>3, <2>1 DEF Working
<1>4. ASSUME ~raced', NEW t \in Trainers PROVE OwnFiles(t)'
  BY <1>3, <1>4, StoppedOwesNothing
<1>5. \A d \in Dirs : DescribesFiles(d)'
  BY <1>1, FilesFacts DEF DescribesFiles
<1>6. ASSUME ~raced' PROVE EntriesBacked'
  <2>1. \A t \in Trainers : pc'[t] \notin {"hashing", "committing"}
    BY <1>3, <1>6 DEF Working
  <2> QED BY <1>1, <2>1 DEF EntriesBacked
<1> QED BY <1>2, <1>4, <1>5, <1>6 DEF FilesInv

LEMMA PublishKeepsFiles ==
  ASSUME IInv, Calm, FilesInv, Publish
  PROVE  FilesInv'
<1>1. /\ place = "missing" /\ manifest'.aux = OtherEntries(gen + 1)
      /\ UNCHANGED <<raced, disk, pc, job, faults>>
  BY DEF Publish
<1>2. GoodFiles'
  BY <1>1 DEF FilesInv, GoodFiles, Working, GoodContent
<1>3. ASSUME ~raced, NEW t \in Trainers PROVE ~Working(t)'
  BY <1>1, <1>3 DEF Calm, Working
<1>4. ASSUME ~raced, NEW t \in Trainers PROVE OwnFiles(t)'
  BY <1>3, <1>4, StoppedOwesNothing
<1>5. ASSUME ~raced, NEW d \in Dirs PROVE DescribesFiles(d)'
  BY <1>1, <1>5 DEF FilesInv, DescribesFiles
<1>6. ASSUME ~raced PROVE EntriesBacked'
  <2>1. \A t \in Trainers : pc'[t] \notin {"hashing", "committing"}
    BY <1>3, <1>6 DEF Working
  <2>2. ASSUME NEW e \in manifest'.aux PROVE Backed(e)'
    BY <1>1, <2>2, OtherEntriesUnique DEF Backed
  <2> QED BY <2>1, <2>2 DEF EntriesBacked
<1> QED BY <1>1, <1>2, <1>4, <1>5, <1>6 DEF FilesInv

LEMMA SameFilesInv ==
  ASSUME FilesInv, UNCHANGED cacheVars
  PROVE  FilesInv'
<1>1. UNCHANGED <<raced, manifest, disk, pc, job, faults>>
  BY DEF cacheVars
<1>2. GoodFiles'
  BY <1>1 DEF FilesInv, GoodFiles, Working, GoodContent
<1>3. ASSUME ~raced, NEW t \in Trainers PROVE OwnFiles(t)'
  BY <1>1, <1>3, SameOwn DEF FilesInv
<1>4. ASSUME ~raced, NEW d \in Dirs PROVE DescribesFiles(d)'
  BY <1>1, <1>4 DEF FilesInv, DescribesFiles
<1>5. ASSUME ~raced PROVE EntriesBacked'
  <2>1. EntriesBacked
    BY <1>5 DEF FilesInv
  <2>2. ASSUME NEW e, Backed(e) PROVE Backed(e)'
    BY <1>1, <2>2, SameBacked
  <2>3. ASSUME NEW e \in manifest'.aux PROVE Backed(e)'
    BY <1>1, <2>1, <2>2, <2>3 DEF EntriesBacked
  <2>4. ASSUME NEW t \in Trainers, pc'[t] \in {"hashing", "committing"},
               NEW e \in job'[t].loaded.aux
        PROVE  Backed(e)'
    BY <1>1, <2>1, <2>2, <2>4 DEF EntriesBacked
  <2> QED BY <2>3, <2>4 DEF EntriesBacked
<1> QED BY <1>1, <1>2, <1>3, <1>4, <1>5 DEF FilesInv

LEMMA StepFilesInv ==
  ASSUME IInv, FilesInv, NEW t \in Trainers, Step(t)
  PROVE  FilesInv'
<1>1. ASSUME NEW d \in Dirs, NEW data \in Datasets, BeginCache(t, d, data) PROVE FilesInv'
  BY <1>1, BeginKeepsFiles
<1>2. CASE VerifyCache(t) \/ CrashTrainer(t)
  <2>1. UNCHANGED <<disk, manifest, raced>> /\ (faults' = 0 => faults = 0)
    BY <1>2 DEF VerifyCache, CrashTrainer, IInv, Shared
  <2> QED BY <1>2, <2>1, DropLocal, StopKeepsFiles
<1> QED BY <1>1, <1>2, CreateFiles, FlushFiles, DescribeKeepsFiles, CacheManifestFiles,
           FlushManifestFiles, LoadKeepsFiles, HashKeepsFiles, CommitKeepsFiles DEF Step

LEMMA NextFilesInv == IInv /\ Calm /\ FilesInv /\ [CacheNext]_cacheVars => FilesInv'
<1> SUFFICES ASSUME IInv, Calm, FilesInv, [CacheNext]_cacheVars PROVE FilesInv'
  OBVIOUS
<1>1. CASE \E t \in Trainers : Step(t) BY <1>1, StepFilesInv
<1>2. CASE Withdraw BY <1>2, WithdrawKeepsFiles
<1>3. CASE Publish BY <1>3, PublishKeepsFiles
<1>4. CASE UNCHANGED cacheVars BY <1>4, SameFilesInv
<1> QED BY <1>1, <1>2, <1>3, <1>4 DEF CacheNext, TrainerStep, Step

LEMMA InitFilesInv == CacheInit => FilesInv
<1> SUFFICES ASSUME CacheInit PROVE FilesInv
  OBVIOUS
<1>1. /\ \A d \in Dirs, f \in AllFiles : disk[d][f] = Absent
      /\ \A t \in Trainers : pc[t] = "idle"
      /\ manifest.aux = OtherEntries(1)
  BY DEF CacheInit
<1>2. GoodFiles
  BY <1>1 DEF GoodFiles, Working
<1>3. \A t \in Trainers : OwnFiles(t)
  BY <1>1 DEF OwnFiles
<1>4. \A d \in Dirs : DescribesFiles(d)
  BY <1>1, FilesFacts DEF DescribesFiles
<1>5. EntriesBacked
  BY <1>1, OtherEntriesUnique DEF EntriesBacked, Backed
<1> QED BY <1>2, <1>3, <1>4, <1>5 DEF FilesInv

LEMMA FilesInvHolds == CacheSpec => [](IInv /\ Calm /\ FilesInv)
<1>1. CacheInit => IInv /\ Calm /\ FilesInv
  BY InitIInv, InitFilesInv DEF CacheInit, Calm
<1>2. IInv /\ Calm /\ FilesInv /\ [CacheNext]_cacheVars => IInv' /\ Calm' /\ FilesInv'
  BY NextIInv, NextCalm, NextFilesInv
<1> QED BY <1>1, <1>2, PTL DEF CacheSpec

-----------------------------------------------------------------------------
(* Theorems about the bundle that is there, and about what a verification   *)
(* tells the trainer                                                        *)

\* write_feature_cache_bundle_auxiliary never leaves a bundle that does not
\* verify: at no moment, however the trainers' file writes, flushes and
\* manifests interleave, wherever they crash or run out of disk, unless one
\* was at work across a publication.
THEOREM CacheEntriesVerify == CacheSpec => []AttachedEntriesVerify
<1>1. IInv /\ Calm /\ FilesInv => AttachedEntriesVerify
  <2> SUFFICES ASSUME IInv, Calm, FilesInv, ~raced, place = "bundle" PROVE VerifiesForLoad
    BY DEF AttachedEntriesVerify
  <2>1. manifest.gen = gen
    BY DEF Calm
  <2>2. EntriesBacked
    BY DEF FilesInv
  <2>3. \A e \in manifest.aux : EntryVerifies(e)
    BY <2>2 DEF EntriesBacked, Backed, EntryVerifies
  <2> QED BY <2>1, <2>3 DEF VerifiesForLoad
<1> QED BY <1>1, FilesInvHolds, PTL

\* Only its own verification ends a trainer that verifies as done or failed.
LEMMA VerdictStep ==
  ASSUME IInv, [CacheNext]_cacheVars, NEW t \in Trainers,
         pc[t] = "verifying", pc'[t] \in {"done", "failed"}
  PROVE  pc'[t] = IF CacheReads(t) THEN "done" ELSE "failed"
<1>0. pc = [u \in Trainers |-> pc[u]]
  BY DEF IInv
<1>1. ASSUME NEW u \in Trainers, NEW there, GoTo(u, there), pc[u] # "verifying" PROVE FALSE
  BY <1>0, <1>1 DEF GoTo
<1>2. CASE UNCHANGED cacheVars \/ Withdraw \/ Publish
  BY <1>2 DEF cacheVars, Withdraw, Publish
<1>3. ASSUME NEW u \in Trainers, NEW d \in Dirs, NEW data \in Datasets, BeginCache(u, d, data)
      PROVE  FALSE
  <2>1. pc[u] # "verifying" /\ \E there : GoTo(u, there)
    BY <1>3 DEF BeginCache, Fail, Working
  <2> QED BY <1>1, <2>1
<1>4. ASSUME NEW u \in Trainers, CreateFile(u) \/ CreateCacheManifest(u) PROVE FALSE
  <2>1. pc[u] # "verifying" /\ \E there : GoTo(u, there)
    BY <1>4 DEF CreateFile, CreateCacheManifest, CreateOne, Fail, At
  <2> QED BY <1>1, <2>1
<1>5. ASSUME NEW u \in Trainers, FlushFile(u) \/ FlushCacheManifest(u) PROVE FALSE
  <2>1. pc[u] # "verifying" /\ \E there : GoTo(u, there)
    BY <1>5 DEF FlushFile, FlushCacheManifest, Reported, Fail, At
  <2> QED BY <1>1, <2>1
<1>6. ASSUME NEW u \in Trainers, DescribeFiles(u) \/ LoadManifest(u) PROVE FALSE
  <2>1. pc[u] # "verifying" /\ \E there : GoTo(u, there)
    BY <1>6 DEF DescribeFiles, LoadManifest, Fail, At
  <2> QED BY <1>1, <2>1
<1>7. ASSUME NEW u \in Trainers, HashFiles(u) \/ WriteManifest(u) PROVE FALSE
  <2>1. pc[u] # "verifying" /\ \E there : GoTo(u, there)
    BY <1>7 DEF HashFiles, WriteManifest, Fail, At
  <2> QED BY <1>1, <2>1
<1>8. ASSUME NEW u \in Trainers, CrashTrainer(u) PROVE FALSE
  BY <1>0, <1>8 DEF CrashTrainer, GoTo
<1>9. ASSUME NEW u \in Trainers, VerifyCache(u)
      PROVE  pc'[t] = IF CacheReads(t) THEN "done" ELSE "failed"
  <2>1. u = t
    BY <1>0, <1>9 DEF VerifyCache, GoTo
  <2> QED BY <1>0, <1>9, <2>1 DEF VerifyCache, GoTo
<1> QED BY <1>2, <1>3, <1>4, <1>5, <1>6, <1>7, <1>8, <1>9 DEF CacheNext, TrainerStep

\* The entry of one of a cache's names, in a manifest that verifies.
LEMMA EntryFacts ==
  ASSUME IInv, NEW t \in Trainers, NEW f \in AllFiles, VerifiesForLoad,
         HasEntry(EntryName(NameOf[t], f))
  PROVE  LET e == EntryOf(EntryName(NameOf[t], f)) IN
         /\ e \in manifest.aux /\ e.name = EntryName(NameOf[t], f)
         /\ e.dir \in Dirs /\ e.file \in AllFiles
         /\ e.sum # Absent /\ disk[e.dir][e.file] = e.sum
<1> DEFINE e == EntryOf(EntryName(NameOf[t], f))
<1>1. e \in manifest.aux /\ e.name = EntryName(NameOf[t], f)
  BY DEF HasEntry, EntryOf
<1>2. GoodManifest(manifest.gen, manifest.aux)
  BY DEF IInv, Shared
<1> HIDE DEF e
<1>3. e.dir # "root"
  <2>1. IsCacheName(e.name, NameOf[t])
    BY <1>1, EntryNames
  <2> QED BY <1>1, <1>2, <2>1, OtherNamesKept DEF GoodManifest
<1>4. Listed(e) /\ EntryVerifies(e)
  BY <1>1, <1>2 DEF GoodManifest, VerifiesForLoad
<1>5. e.dir \in Dirs /\ e.file \in AllFiles /\ e.sum # Absent /\ disk[e.dir][e.file] = e.sum
  BY <1>3, <1>4 DEF Listed, EntryVerifies
<1> QED BY <1>1, <1>5 DEF e

LEMMA ReadIsWhole ==
  ASSUME IInv, FilesInv, NEW t \in Trainers, CacheReads(t)
  PROVE  IsWhole(t)
<1> DEFINE FileOf(f) == LET e == EntryOf(EntryName(NameOf[t], f)) IN disk[e.dir][e.file]
           m == EntryOf(NameOf[t])
           cache == FileAt(NameOf[t])
           d == DataOf[cache.data]
<1>1. VerifiesForLoad /\ \A f \in AllFiles : HasEntry(EntryName(NameOf[t], f))
  BY DEF CacheReads
<1>2. \A f \in AllFiles : FileOf(f) = FileAt(EntryName(NameOf[t], f))
  BY <1>1, EntryFacts DEF FileAt
<1>3. EntryName(NameOf[t], Manifest) = NameOf[t] /\ Manifest \in AllFiles /\ Files \subseteq AllFiles
  BY FilesFacts DEF EntryName
<1>4. /\ FileOf(Manifest) = cache /\ cache = disk[m.dir][m.file] /\ cache # Absent
      /\ m.dir \in Dirs /\ m.file \in AllFiles
  BY <1>1, <1>2, <1>3, EntryFacts DEF FileAt
<1>5. /\ cache.sums # <<>>
      /\ ManifestShape(d, [f \in Files |-> cache.sums[f].size])
      /\ \A f \in Files : cache.sums[f] = FileOf(f)
  BY <1>2, <1>3 DEF CacheReads
<1> HIDE DEF FileOf, m, cache
<1>6. GoodContent(m.file, cache)
  BY <1>4 DEF FilesInv, GoodFiles
<1>7. m.file = Manifest
  BY <1>5, <1>6 DEF GoodContent
<1>8. ASSUME NEW f \in Files, ~raced
      PROVE  FileOf(f).by = cache.by /\ FileOf(f).data = cache.data
  <2>1. DescribesFiles(m.dir)
    BY <1>4, <1>8 DEF FilesInv
  <2>2. cache = disk[m.dir][Manifest] /\ cache # Absent
    BY <1>4, <1>7
  <2>3. /\ cache.sums = [g \in Files |-> disk[m.dir][g]]
        /\ disk[m.dir][f].by = cache.by /\ disk[m.dir][f].data = cache.data
    BY <1>8, <2>1, <2>2 DEF DescribesFiles
  <2>4. FileOf(f) = disk[m.dir][f]
    BY <1>5, <1>8, <2>3
  <2> QED BY <2>3, <2>4
<1>9. ASSUME NEW f \in Files, f \in {"groups", "row_ids", "labels", "features"}
      PROVE  FileOf(f).size = ElementsIn(d, f)
  <2>1. ValidData(d)
    BY <1>6 DEF GoodContent
  <2>2. FileOf(f).size = [g \in Files |-> cache.sums[g].size][f]
    BY <1>5
  <2> HIDE DEF d
  <2> QED BY <1>5, <1>9, <2>1, <2>2 DEF ManifestShape, ValidData, ElementsIn
<1>10. \A f \in Files :
         /\ ~raced => /\ FileOf(f).by = FileOf(Manifest).by
                      /\ FileOf(f).data = FileOf(Manifest).data
         /\ f \in {"groups", "row_ids", "labels", "features"} =>
              FileOf(f).size = ElementsIn(DataOf[FileOf(Manifest).data], f)
  BY <1>4, <1>8, <1>9
<1> QED BY <1>10 DEF FileOf, IsWhole

\* A trainer that is told its cache verifies has complete binary files under
\* its name, although create_feature_cache_file's BufWriter may drop a write
\* error; unless a trainer was at work across a publication they are one
\* trainer's, from one dataset.
THEOREM CacheVerifiedIsWhole == CacheSpec => VerifiedCacheIsWhole
<1>1. IInv /\ Calm /\ FilesInv /\ [CacheNext]_cacheVars
        => [\A t \in Trainers : At(t, "verifying") /\ pc'[t] = "done" => IsWhole(t)]_cacheVars
  <2> SUFFICES ASSUME IInv, FilesInv, [CacheNext]_cacheVars, NEW t \in Trainers,
                      At(t, "verifying"), pc'[t] = "done"
               PROVE  IsWhole(t)
    OBVIOUS
  <2>1. CacheReads(t)
    BY VerdictStep DEF At
  <2> QED BY <2>1, ReadIsWhole
<1> QED BY <1>1, FilesInvHolds, PTL DEF CacheSpec, VerifiedCacheIsWhole

LEMMA WholeIsRead ==
  ASSUME IInv, Calm, FilesInv, NEW t \in Trainers, pc[t] = "verifying",
         faults = 0, ~raced, job[t].entries \subseteq manifest.aux
  PROVE  CacheReads(t)
<1> DEFINE dir == job[t].dir
           cache == disk[dir][Manifest]
           d == DataOf[cache.data]
           sizes == [f \in Files |-> cache.sums[f].size]
<1>1. dir \in Dirs /\ Manifest \in AllFiles /\ Files \subseteq AllFiles /\ Manifest \notin Files
  BY HasDir, FilesFacts DEF Working
<1>2. /\ job[t].entries = {FileEntry(t, f) : f \in AllFiles}
      /\ \A f \in AllFiles : OwnWhole(t, f)
  <2>1. OwnFiles(t)
    BY DEF FilesInv
  <2> QED BY <2>1 DEF OwnFiles, AllFiles
<1>3. \A f \in AllFiles : disk[dir][f] # Absent
  BY <1>2, ByTrainer DEF OwnWhole, Own
<1>4. \A e, f \in manifest.aux : e.name = f.name => e = f
  BY DEF IInv, Shared, GoodManifest
<1>5. VerifiesForLoad
  <2>1. place = "bundle" /\ manifest.gen = gen
    BY CalmPlace DEF Working
  <2>2. EntriesBacked
    BY DEF FilesInv
  <2>3. \A e \in manifest.aux : EntryVerifies(e)
    BY <2>2 DEF EntriesBacked, Backed, EntryVerifies
  <2> QED BY <2>1, <2>3 DEF VerifiesForLoad
<1>6. ASSUME NEW f \in AllFiles
      PROVE  /\ HasEntry(EntryName(NameOf[t], f))
             /\ FileAt(EntryName(NameOf[t], f)) = disk[dir][f]
  <2> DEFINE name == EntryName(NameOf[t], f)
             e == FileEntry(t, f)
  <2>1. e \in manifest.aux /\ e.name = name /\ e.sum = disk[dir][f]
    BY <1>2 DEF FileEntry
  <2> HIDE DEF name, e
  <2>2. HasEntry(name)
    BY <2>1 DEF HasEntry
  <2>3. EntryOf(name) \in manifest.aux /\ EntryOf(name).name = name
    BY <2>2 DEF HasEntry, EntryOf
  <2>4. EntryOf(name) = e
    BY <1>4, <2>1, <2>3
  <2> QED BY <2>1, <2>2, <2>4 DEF FileAt, name
<1>7. /\ cache.sums = [f \in Files |-> disk[dir][f]]
      /\ \A f \in Files : disk[dir][f].data = cache.data
  BY <1>1, <1>3 DEF FilesInv, DescribesFiles
<1>8. ValidData(d) /\ cache.size = 1
  BY <1>1, <1>2, <1>3 DEF FilesInv, GoodFiles, GoodContent, OwnWhole, WholeContent
<1>9. \A f \in Files : sizes[f] = ElementsIn(d, f)
  <2>1. ASSUME NEW f \in Files PROVE disk[dir][f].size = ElementsIn(DataOf[disk[dir][f].data], f)
    BY <1>1, <1>2 DEF OwnWhole, WholeContent
  <2> QED BY <1>7, <2>1
<1>10. cache.sums # <<>>
  <2>1. DOMAIN cache.sums = Files
    BY <1>7
  <2>2. Files # DOMAIN <<>>
    BY FilesFacts
  <2> QED BY <2>1, <2>2
<1>11. EntryName(NameOf[t], Manifest) = NameOf[t]
  BY DEF EntryName
<1>12. FileAt(NameOf[t]) = cache
  BY <1>1, <1>6, <1>11
<1>13. \A f \in Files : cache.sums[f] = FileAt(EntryName(NameOf[t], f))
  BY <1>1, <1>6, <1>7
<1> HIDE DEF cache, dir, d, sizes
<1>14. ManifestShape(d, sizes)
  BY <1>8, <1>9 DEF ManifestShape, ValidData, ElementsIn
<1> QED BY <1>5, <1>6, <1>8, <1>10, <1>12, <1>13, <1>14 DEF CacheReads, d, sizes

\* On a healthy disk, data validate_data accepts passes
\* validate_feature_cache_manifest_shape and checked_bytes: the verification
\* fails only for entries another trainer took out, or for a publication
\* while a trainer was at work.
THEOREM CacheAcceptedVerifies == CacheSpec => AcceptedDataVerifies
<1> DEFINE Excused(t) == \/ faults > 0
                         \/ ~(job[t].entries \subseteq manifest.aux)
                         \/ raced
<1>1. IInv /\ Calm /\ FilesInv /\ [CacheNext]_cacheVars
        => [\A t \in Trainers : At(t, "verifying") /\ pc'[t] = "failed" => Excused(t)]_cacheVars
  <2> SUFFICES ASSUME IInv, Calm, FilesInv, [CacheNext]_cacheVars, NEW t \in Trainers,
                      At(t, "verifying"), pc'[t] = "failed", ~Excused(t)
               PROVE  FALSE
    OBVIOUS
  <2>1. ~CacheReads(t)
    BY VerdictStep DEF At
  <2>2. faults = 0
    BY DEF IInv, Shared
  <2> QED BY <2>1, <2>2, WholeIsRead DEF At
<1> QED BY <1>1, FilesInvHolds, PTL DEF CacheSpec, AcceptedDataVerifies

=============================================================================
