------------------------- MODULE AdapterStoreProofs -------------------------
(* Theorems about AdapterStore, for every set of processes and every bound. *)
EXTENDS AdapterStore, FiniteSetTheorems, WellFoundedInduction, TLAPS

-----------------------------------------------------------------------------
(* The transactions produce databases                                      *)

\* A StoreRevision read from a database is a revision.
LEMMA RevisionType ==
  ASSUME NEW d \in Databases
  PROVE  Revision(d) \in Revisions
BY DEF Databases, Revision, Revisions

\* The audited step of a commit keeps the shape of the database.
LEMMA AuditedCommitType ==
  ASSUME NEW d \in Databases
  PROVE  /\ AuditedCommit(d) \in Databases
         /\ AuditedCommit(d).seq = d.seq + 1
         /\ AuditedCommit(d).payload = d.payload
         /\ AuditedCommit(d).generations = d.generations
<1>1. d.seq \in Nat /\ d.audit \in SUBSET Nat /\ d.n_audit \in Nat
  BY DEF Databases
<1>2. d.seq + 1 \in Nat /\ d.audit \cup {d.seq + 1} \in SUBSET Nat /\ d.n_audit + 1 \in Nat
  BY <1>1
<1>3. AuditedCommit(d) \in Databases
  BY <1>2 DEF Databases, AuditedCommit
<1> QED BY <1>2 DEF Databases, AuditedCommit

\* So does the snapshot transaction ...
LEMMA SnapshotTxnType ==
  ASSUME NEW d \in Databases, NEW g \in 0..MaxGen,
         NEW edits \in SUBSET (Writers \cup Clients), NEW digest \in Contents
  PROVE  /\ SnapshotTxn(d, g, edits, digest) \in Databases
         /\ SnapshotTxn(d, g, edits, digest).seq = d.seq + 1
         /\ SnapshotTxn(d, g, edits, digest).payload = edits
<1> DEFINE a == AuditedCommit(d)
           rows == [n \in GenIds |-> IF n = g THEN ActiveRow
                                     ELSE Retire(a.generations[n], d.seq + 1)]
<1>1. a \in Databases /\ d.seq \in Nat
  BY AuditedCommitType DEF Databases
<1>2. rows \in [GenIds -> Rows]
  <2>1. ASSUME NEW n \in GenIds
        PROVE  Retire(a.generations[n], d.seq + 1) \in Rows
    BY <1>1 DEF Databases, Rows, Retire
  <2>2. ActiveRow \in Rows
    BY DEF ActiveRow, Rows
  <2> QED BY <2>1, <2>2
<1>3. a.seq = d.seq + 1
  BY AuditedCommitType
<1>4. PICK k \in Nat : SnapshotTxn(d, g, edits, digest) =
         [a EXCEPT !.file = "ok", !.active = g, !.digest = digest, !.payload = edits,
                   !.n_generations = k,
                   !.generations = IF g = 0 THEN a.generations ELSE rows]
  <2>1. a.n_generations \in Nat /\ a.n_generations + 1 \in Nat
    BY <1>1 DEF Databases
  <2> QED BY <2>1 DEF SnapshotTxn
<1>5. (IF g = 0 THEN a.generations ELSE rows) \in [GenIds -> Rows]
  BY <1>1, <1>2 DEF Databases
<1> DEFINE g2 == IF g = 0 THEN a.generations ELSE rows
           t == SnapshotTxn(d, g, edits, digest)
<1>6. t = [a EXCEPT !.file = "ok", !.active = g, !.digest = digest, !.payload = edits,
                    !.n_generations = k, !.generations = g2]
      /\ g2 \in [GenIds -> Rows]
  BY <1>4, <1>5
<1> HIDE DEF a, rows, g2, t
<1>7. t \in Databases /\ t.seq = a.seq /\ t.payload = edits
  BY <1>1, <1>6 DEF Databases
<1> QED BY <1>3, <1>7 DEF t

\* ... the metadata patch ...
LEMMA PatchTxnType ==
  ASSUME NEW d \in Databases, NEW c \in Clients
  PROVE  /\ PatchTxn(d, c) \in Databases
         /\ PatchTxn(d, c).seq = d.seq + 1
BY AuditedCommitType DEF PatchTxn, Databases

\* ... and the GC event.
LEMMA GcTxnType ==
  ASSUME NEW d \in Databases, NEW paths \in SUBSET Paths, NEW count \in Nat,
         NEW state \in LifecycleStates
  PROVE  /\ GcTxn(d, paths, count, state) \in Databases
         /\ GcTxn(d, paths, count, state).seq = d.seq + 1
         /\ GcTxn(d, paths, count, state).payload = d.payload
<1> DEFINE a == AuditedCommit(d)
<1>1. a \in Databases /\ a.seq = d.seq + 1 /\ a.payload = d.payload
  BY AuditedCommitType
<1> DEFINE added == (d.n_gc + 1)..(d.n_gc + count)
           latest == [p \in Paths |-> IF p \in paths THEN state ELSE a.gc_latest[p]]
<1>2. GcTxn(d, paths, count, state) =
        [a EXCEPT !.gc_rows = a.gc_rows \cup added, !.n_gc = a.n_gc + count,
                  !.gc_latest = latest]
  BY DEF GcTxn
<1>3. latest \in [Paths -> LifecycleStates]
  BY <1>1 DEF Databases
<1>4. d.n_gc \in Nat /\ a.n_gc \in Nat /\ a.gc_rows \in SUBSET Nat
  BY <1>1 DEF Databases
<1>5. added \in SUBSET Nat
  BY <1>4
<1>6. a.gc_rows \cup added \in SUBSET Nat /\ a.n_gc + count \in Nat
  BY <1>4, <1>5
<1> HIDE DEF a, added, latest
<1> QED BY <1>1, <1>2, <1>3, <1>6 DEF Databases

\* A collector works on finitely many paths, so the rows it writes have a
\* number.
LEMMA PathsFinite ==
  ASSUME NEW S \in SUBSET Paths
  PROVE  Cardinality(S) \in Nat
<1>1. IsFiniteSet(GenIds)
  <2>1. MaxGen \in Int
    BY BoundAssumption
  <2> QED BY <2>1, FS_Interval DEF GenIds
<1>2. IsFiniteSet({"gen"}) /\ IsFiniteSet({"tmp"})
  BY FS_Singleton
<1>3. IsFiniteSet({"gen", "tmp"})
  <2>1. {"gen", "tmp"} = {"gen"} \cup {"tmp"}
    OBVIOUS
  <2>2. IsFiniteSet({"gen"} \cup {"tmp"})
    BY <1>2, FS_Union
  <2> QED BY <2>1, <2>2
<1>4. IsFiniteSet(Paths)
  BY <1>1, <1>3, FS_Product DEF Paths
<1> QED BY <1>4, FS_Subset, FS_CardinalityType

-----------------------------------------------------------------------------
(* Type correctness                                                        *)

\* The ends and the jumps of the operations keep the process state typed.
LEMMA GotoType ==
  ASSUME TypeOK, NEW p \in Procs, NEW label \in Labels, Goto(p, label)
  PROVE  pc' \in [Procs -> Labels]
BY DEF TypeOK, Goto

LEMMA FinishType ==
  ASSUME TypeOK, NEW p \in Procs, NEW result \in Outcomes, Finish(p, result)
  PROVE  /\ pc' \in [Procs -> Labels]
         /\ outcome' \in [Procs -> Outcomes]
         /\ lock' \in Procs \cup {NoProc}
BY DEF TypeOK, Finish, Goto, Labels

\* So do the environment's counters.
LEMMA EnvType ==
  ASSUME TypeOK
  PROVE  /\ Calm => ops' \in Nat /\ crashes' \in Nat /\ contentions' \in Nat
         /\ Contended => ops' \in Nat /\ crashes' \in Nat /\ contentions' \in Nat
         /\ StartOp => ops' \in Nat /\ crashes' \in Nat /\ contentions' \in Nat
BY DEF TypeOK, Calm, envVars, Contended, StartOp

\* Every step of a load keeps the types.
LEMMA LoadTypes ==
  ASSUME TypeOK, NEW w \in Writers,
         LoadPayloads(w) \/ LoadToken(w) \/ LoadIndex(w) \/ Add(w)
  PROVE  TypeOK'
<1>0. w \in Procs /\ db \in Databases /\ handle[w] \in Handles
  BY DEF TypeOK, Procs
<1>1. Revision(db) \in Revisions /\ NoRevision \in Revisions
  BY <1>0, RevisionType, BoundAssumption DEF NoRevision, Revisions, Contents
<1>2. NoHandle \in Handles
  BY <1>1 DEF NoHandle, Handles, Contents
<1>3. CASE LoadPayloads(w)
  <2>1. [NoHandle EXCEPT !.edits = db.payload, !.src = Revision(db)] \in Handles
    BY <1>0, <1>1, <1>2 DEF Handles, Databases
  <2> QED BY <1>0, <1>3, <2>1, EnvType, GotoType DEF LoadPayloads, TypeOK, Labels, Outcomes
<1>4. CASE LoadToken(w)
  <2>1. handle' \in [Writers -> Handles]
    <3>1. handle \in [Writers -> Handles]
      BY DEF TypeOK
    <3>2. [handle[w] EXCEPT !.token = Revision(db)] \in Handles
      BY <1>0, <1>1 DEF Handles
    <3>3. \/ handle' = [handle EXCEPT ![w] = [handle[w] EXCEPT !.token = Revision(db)]]
          \/ handle' = [handle EXCEPT ![w] = NoHandle]
      BY <1>4, <3>1 DEF LoadToken
    <3> QED BY <1>2, <3>1, <3>2, <3>3
  <2>2. outcome' \in [Procs -> Outcomes] /\ pc' \in [Procs -> Labels]
    BY <1>0, <1>4, GotoType DEF LoadToken, TypeOK, Labels, Outcomes
  <2> QED BY <1>4, <2>1, <2>2, EnvType DEF LoadToken, TypeOK, Refused
<1>5. CASE LoadIndex(w)
  <2>1. ASSUME handle[w].src.active # 0
        PROVE  disk[Gen(handle[w].src.active)].records \in Contents
    <3>1. Gen(handle[w].src.active) \in Paths
      BY <1>0, <2>1, BoundAssumption DEF Handles, Revisions, Gen, Paths, GenIds
    <3> QED BY <3>1 DEF TypeOK
  <2>2. handle' \in [Writers -> Handles]
    BY <1>0, <1>2, <1>5, <2>1 DEF LoadIndex, TypeOK, Handles, Contents
  <2>3. outcome' \in [Procs -> Outcomes] /\ pc' \in [Procs -> Labels]
    BY <1>0, <1>5, GotoType DEF LoadIndex, TypeOK, Labels, Outcomes
  <2> QED BY <1>5, <2>2, <2>3, EnvType DEF LoadIndex, TypeOK
<1>6. CASE Add(w)
  <2>1. handle' \in [Writers -> Handles]
    BY <1>0, <1>6 DEF Add, TypeOK, Handles, Contents
  <2> QED BY <1>6, <2>1, EnvType DEF Add, TypeOK
<1> QED BY <1>3, <1>4, <1>5, <1>6

\* Every step of a save keeps the types.
LEMMA SaveTypes ==
  ASSUME TypeOK, NEW w \in Writers, SaveAcquire(w) \/ SaveStep(w)
  PROVE  TypeOK'
<1>0. w \in Procs /\ db \in Databases /\ handle[w] \in Handles /\ newGen[w] \in 0..MaxGen
  BY DEF TypeOK, Procs
<1>1. Revision(db) \in Revisions
  BY <1>0, RevisionType
<1>2. Absent \in [dir : {"absent", "present"}, records : Contents]
  BY DEF Absent, Contents
<1>3. ASSUME ReportSaved(w)
      PROVE  /\ handle' \in [Writers -> Handles]
             /\ pc' \in [Procs -> Labels]
             /\ outcome' \in [Procs -> Outcomes]
             /\ lock' \in Procs \cup {NoProc}
  <2>1. handle' \in [Writers -> Handles]
    BY <1>0, <1>1, <1>3 DEF ReportSaved, TypeOK, Handles
  <2> QED BY <1>0, <1>3, <2>1, FinishType DEF ReportSaved, Outcomes
<1>4. ASSUME CommitSnapshot(w)
      PROVE  /\ db' \in Databases
             /\ published' \in [Writers -> BOOLEAN]
             /\ pc' \in [Procs -> Labels]
  <2> DEFINE digest == IF newGen[w] = 0 THEN {} ELSE disk[Gen(newGen[w])].records
  <2>1. digest \in Contents
    BY <1>0, BoundAssumption DEF TypeOK, Contents, Gen, Paths, GenIds
  <2>2. handle[w].edits \in SUBSET (Writers \cup Clients)
    BY <1>0 DEF Handles
  <2>3. SnapshotTxn(db, newGen[w], handle[w].edits, digest) \in Databases
    BY <1>0, <2>1, <2>2, SnapshotTxnType
  <2>4. published' \in [Writers -> BOOLEAN] /\ pc' \in [Procs -> Labels]
    BY <1>0, <1>4, GotoType DEF CommitSnapshot, TypeOK, Labels, LockedLabels, WriterLabels
  <2> QED BY <1>4, <2>3, <2>4 DEF CommitSnapshot
<1>5. CASE SaveAcquire(w)
  <2>1. /\ published' \in [Writers -> BOOLEAN]
        /\ outcome' \in [Procs -> Outcomes]
        /\ lock' \in Procs \cup {NoProc}
    BY <1>0, <1>5 DEF SaveAcquire, TypeOK, Outcomes
  <2>2. pc' \in [Procs -> Labels]
    BY <1>0, <1>5, GotoType DEF SaveAcquire, TypeOK, Labels, LockedLabels, WriterLabels
  <2> QED BY <1>5, <2>1, <2>2, EnvType DEF SaveAcquire, TypeOK
<1>6. CASE SaveCheckBase(w)
  <2>1. newGen' \in [Writers -> 0..MaxGen]
    BY <1>0, <1>6, BoundAssumption DEF SaveCheckBase, TypeOK, GenIds
  <2>2. /\ pc' \in [Procs -> Labels]
        /\ outcome' \in [Procs -> Outcomes]
        /\ lock' \in Procs \cup {NoProc}
    BY <1>0, <1>6, GotoType, FinishType
       DEF SaveCheckBase, TypeOK, Labels, LockedLabels, WriterLabels, Outcomes
  <2> QED BY <1>6, <2>1, <2>2, EnvType DEF SaveCheckBase, TypeOK, Refused
<1>7. CASE SaveWriteTemp(w)
  <2>1. Bundle(handle[w].index) \in [dir : {"absent", "present"}, records : Contents]
    BY <1>0 DEF Bundle, Handles
  <2>2. disk' \in [Paths -> [dir : {"absent", "present"}, records : Contents]]
    BY <1>7, <2>1 DEF SaveWriteTemp, TypeOK
  <2>3. pc' \in [Procs -> Labels]
    BY <1>0, <1>7, GotoType DEF SaveWriteTemp, Labels, LockedLabels, WriterLabels
  <2> QED BY <1>7, <2>2, <2>3, EnvType DEF SaveWriteTemp, TypeOK
<1>8. CASE SaveRename(w)
  <2>1. disk' \in [Paths -> [dir : {"absent", "present"}, records : Contents]]
    <3>1. CASE newGen[w] \in GenIds
      <4>1. disk[Tmp(newGen[w])] \in [dir : {"absent", "present"}, records : Contents]
        BY <3>1 DEF TypeOK, Tmp, Paths
      <4> QED BY <1>2, <1>8, <4>1 DEF SaveRename, TypeOK
    <3>2. CASE newGen[w] \notin GenIds
      <4>1. Gen(newGen[w]) \notin Paths /\ Tmp(newGen[w]) \notin Paths
        BY <3>2 DEF Gen, Tmp, Paths
      <4> QED BY <1>8, <4>1 DEF SaveRename, TypeOK
    <3> QED BY <3>1, <3>2
  <2>2. pc' \in [Procs -> Labels]
    BY <1>0, <1>8, GotoType DEF SaveRename, Labels, LockedLabels, WriterLabels
  <2> QED BY <1>8, <2>1, <2>2, EnvType DEF SaveRename, TypeOK
<1>9. CASE SaveIoError(w)
  <2>1. disk' \in [Paths -> [dir : {"absent", "present"}, records : Contents]]
    BY <1>2, <1>9 DEF SaveIoError, TypeOK
  <2> QED BY <1>0, <1>9, <2>1, FinishType, EnvType DEF SaveIoError, TypeOK, Outcomes
<1>10. CASE SaveCommit(w)
  <2>1. db' \in Databases
    <3>1. [db EXCEPT !.file = "created"] \in Databases
      BY <1>0 DEF Databases
    <3> QED BY <1>0, <1>4, <1>10, <3>1 DEF SaveCommit
  <2>2. /\ pc' \in [Procs -> Labels]
        /\ outcome' \in [Procs -> Outcomes]
        /\ lock' \in Procs \cup {NoProc}
        /\ published' \in [Writers -> BOOLEAN]
    BY <1>0, <1>4, <1>10, GotoType, FinishType
       DEF SaveCommit, TypeOK, Labels, LockedLabels, WriterLabels, Outcomes
  <2> QED BY <1>10, <2>1, <2>2, EnvType DEF SaveCommit, TypeOK
<1>11. CASE SaveFirstTransaction(w)
  BY <1>4, <1>11, EnvType DEF SaveFirstTransaction, TypeOK
<1>12. CASE SaveVerify(w)
  <2>1. /\ handle' \in [Writers -> Handles]
        /\ pc' \in [Procs -> Labels]
        /\ outcome' \in [Procs -> Outcomes]
        /\ lock' \in Procs \cup {NoProc}
    BY <1>0, <1>3, <1>12, GotoType, FinishType
       DEF SaveVerify, TypeOK, Labels, LockedLabels, WriterLabels, Outcomes
  <2> QED BY <1>12, <2>1, EnvType DEF SaveVerify, TypeOK
<1>13. CASE SaveRecover(w)
  <2>1. /\ handle' \in [Writers -> Handles]
        /\ pc' \in [Procs -> Labels]
        /\ outcome' \in [Procs -> Outcomes]
        /\ lock' \in Procs \cup {NoProc}
    BY <1>0, <1>3, <1>13, FinishType DEF SaveRecover, TypeOK, Outcomes
  <2> QED BY <1>13, <2>1, EnvType DEF SaveRecover, TypeOK
<1> QED
  BY <1>5, <1>6, <1>7, <1>8, <1>9, <1>10, <1>11, <1>12, <1>13 DEF SaveStep

\* A client's open, patch and replacement keep the types.
LEMMA ClientTypes ==
  ASSUME TypeOK, NEW c \in Clients,
         ClientOpen(c) \/ ClientPatch(c) \/ \E g \in GenIds : ClientReplace(c, g)
  PROVE  TypeOK'
<1>0. db \in Databases
  BY DEF TypeOK
<1>1. ASSUME db' \in Databases, ClientCommitted(c)
      PROVE  /\ rev' \in [Clients \cup Collectors -> Revisions]
             /\ contentions' \in Nat
  <2>1. Revision(db') \in Revisions
    BY <1>1, RevisionType
  <2> QED BY <1>1, <2>1 DEF ClientCommitted, TypeOK
<1>2. CASE ClientOpen(c)
  BY <1>0, <1>2, RevisionType, EnvType DEF ClientOpen, TypeOK
<1>3. CASE ClientPatch(c)
  <2>1. db' \in Databases
    BY <1>0, <1>3, PatchTxnType DEF ClientPatch
  <2> QED BY <1>1, <1>3, <2>1 DEF ClientPatch, TypeOK
<1>4. ASSUME NEW g \in GenIds, ClientReplace(c, g)
      PROVE  TypeOK'
  <2>1. disk[Gen(g)].records \in Contents /\ g \in 0..MaxGen
    BY BoundAssumption DEF TypeOK, Gen, Paths, GenIds
  <2>2. (db.payload \ Writers) \cup disk[Gen(g)].records \in SUBSET (Writers \cup Clients)
    BY <1>0, <2>1 DEF Databases, Contents
  <2>3. db' \in Databases
    BY <1>0, <1>4, <2>1, <2>2, SnapshotTxnType DEF ClientReplace
  <2> QED BY <1>1, <1>4, <2>3 DEF ClientReplace, TypeOK
<1> QED BY <1>2, <1>3, <1>4

\* Every ledger transaction of a collector keeps the types.
LEMMA GcRecordType ==
  ASSUME TypeOK, NEW c \in Collectors, NEW paths \in SUBSET Paths, NEW count \in Nat,
         NEW state \in LifecycleStates, NEW label \in Labels,
         GcRecord(c, paths, count, state, label)
  PROVE  TypeOK'
<1>0. c \in Procs /\ db \in Databases
  BY DEF TypeOK, Procs
<1>1. db' \in Databases
  BY <1>0, GcTxnType DEF GcRecord
<1>2. rev' \in [Clients \cup Collectors -> Revisions]
  BY <1>1, RevisionType DEF GcRecord, TypeOK
<1>3. /\ pc' \in [Procs -> Labels]
      /\ outcome' \in [Procs -> Outcomes]
      /\ lock' \in Procs \cup {NoProc}
  BY <1>0, GotoType, FinishType DEF GcRecord, TypeOK, Outcomes
<1>4. ops' \in Nat /\ crashes' \in Nat /\ contentions' \in Nat
  BY EnvType DEF GcRecord, Refused
<1> QED BY <1>1, <1>2, <1>3, <1>4 DEF GcRecord, TypeOK, gcUnchanged

\* So does every other step of a gc run.
LEMMA GcTypes ==
  ASSUME TypeOK, NEW c \in Collectors, GcOpen(c) \/ GcStep(c)
  PROVE  TypeOK'
<1>0. c \in Procs /\ db \in Databases /\ gc[c] \in GcStates
  BY DEF TypeOK, Procs
<1>a. \A S \in SUBSET Paths : Cardinality(S) \in Nat
  BY PathsFinite
<1>b. {"reclaimable", "deleting", "deleted"} \subseteq LifecycleStates
  BY DEF LifecycleStates
<1>c. {"idle", "gcScan", "gcLock", "gcLedger", "gcRecover", "gcRemove", "gcMain",
       "gcMark", "gcDelete", "gcDone"} \subseteq Labels
  BY DEF Labels, LockedLabels, CollectorLabels
<1>d. {"none", "failed", "ok"} \subseteq Outcomes
  BY DEF Outcomes
<1>e. gc[c].reclaim \in SUBSET Paths /\ gc[c].recovered \in SUBSET Paths
      /\ gc[c].deleted \in SUBSET Paths /\ gc[c].todo \in SUBSET Paths
  BY <1>0 DEF GcStates
<1>1. CASE GcOpen(c)
  <2>1. gc' \in [Collectors -> GcStates]
    BY <1>1 DEF GcOpen, TypeOK, NoGc, GcStates
  <2>2. rev' \in [Clients \cup Collectors -> Revisions]
    BY <1>0, <1>1, RevisionType DEF GcOpen, TypeOK
  <2>3. pc' \in [Procs -> Labels] /\ outcome' \in [Procs -> Outcomes]
    BY <1>0, <1>1, <1>c, <1>d, GotoType DEF GcOpen, TypeOK
  <2> QED BY <1>1, <2>1, <2>2, <2>3, EnvType DEF GcOpen, TypeOK, gcUnchanged
<1>2. CASE GcScan(c)
  <2>1. gc' \in [Collectors -> GcStates]
    <3> DEFINE keep == Retained(c) \cap pins
               drop == {Gen(n) : n \in BeyondBudget(Retained(c) \ pins)}
                         \cup {Tmp(n) : n \in {m \in GenIds : disk[Tmp(m)] # Absent}}
    <3>1. keep \in SUBSET GenIds
      BY DEF Retained, GensOnDisk
    <3>2. drop \in SUBSET Paths
      <4>1. BeyondBudget(Retained(c) \ pins) \subseteq GenIds
        BY DEF BeyondBudget, Retained, GensOnDisk
      <4>2. \A n \in GenIds : Gen(n) \in Paths /\ Tmp(n) \in Paths
        BY DEF Gen, Tmp, Paths
      <4> QED BY <4>1, <4>2
    <3>3. gc' = [gc EXCEPT ![c].pinned = keep, ![c].reclaim = drop]
      BY <1>2 DEF GcScan
    <3> HIDE DEF keep, drop
    <3> DEFINE found == [gc[c] EXCEPT !.pinned = keep, !.reclaim = drop]
    <3>4. gc \in [Collectors -> GcStates]
      BY DEF TypeOK
    <3>5. found \in GcStates
      BY <3>1, <3>2, <3>4 DEF GcStates
    <3>6. gc' = [gc EXCEPT ![c] = found]
      BY <3>3, <3>4
    <3> HIDE DEF found
    <3> QED BY <3>4, <3>5, <3>6
  <2>2. pc' \in [Procs -> Labels]
    BY <1>0, <1>2, <1>c, GotoType DEF GcScan
  <2> QED BY <1>2, <2>1, <2>2, EnvType DEF GcScan, TypeOK, gcUnchanged
<1>3. CASE GcAcquire(c)
  <2>1. /\ pc' \in [Procs -> Labels]
        /\ outcome' \in [Procs -> Outcomes]
        /\ lock' \in Procs \cup {NoProc}
    BY <1>0, <1>3, <1>c, <1>d, GotoType, FinishType DEF GcAcquire, TypeOK
  <2> QED BY <1>3, <2>1, EnvType DEF GcAcquire, TypeOK, gcUnchanged
<1>4. CASE GcLedger(c)
  <2>1. gc' \in [Collectors -> GcStates]
    <3>1. PICK S \in SUBSET Paths : gc' = [gc EXCEPT ![c].todo = S] \/ gc' = gc
      <4>1. {p \in Paths : db.gc_latest[p] = "deleting"} \ {Gen(rev[c].active)} \in SUBSET Paths
        OBVIOUS
      <4> QED BY <1>4, <4>1 DEF GcLedger
    <3>2. [gc EXCEPT ![c].todo = S] \in [Collectors -> GcStates]
      BY <3>1 DEF TypeOK, GcStates
    <3> QED BY <3>1, <3>2 DEF TypeOK
  <2>2. /\ pc' \in [Procs -> Labels]
        /\ outcome' \in [Procs -> Outcomes]
        /\ lock' \in Procs \cup {NoProc}
    BY <1>0, <1>4, <1>c, <1>d, GotoType, FinishType DEF GcLedger, TypeOK
  <2> QED BY <1>4, <2>1, <2>2, EnvType DEF GcLedger, TypeOK, gcUnchanged
<1>5. ASSUME NEW p \in Paths, DeletePath(p)
      PROVE  /\ disk' \in [Paths -> [dir : {"absent", "present"}, records : Contents]]
             /\ pins' \subseteq GenIds
  BY <1>5 DEF DeletePath, TypeOK, Absent, Contents
<1>6. CASE GcRecoverCheck(c) \/ GcRecoverRemove(c)
  <2>1. PICK p \in Paths :
          \/ gc' = [gc EXCEPT ![c].todo = @ \ {p}] /\ UNCHANGED <<disk, pins>>
          \/ /\ gc' = [gc EXCEPT ![c].todo = @ \ {p}, ![c].recovered = @ \cup {p}]
             /\ UNCHANGED <<disk, pins>>
          \/ gc' = [gc EXCEPT ![c].looked = pins] /\ UNCHANGED <<disk, pins>>
          \/ /\ gc' = [gc EXCEPT ![c].todo = @ \ {p}, ![c].looked = {},
                                  ![c].recovered = @ \cup {p}]
             /\ DeletePath(p)
    BY <1>6 DEF GcRecoverCheck, GcRecoverRemove
  <2>2. gc' \in [Collectors -> GcStates]
    <3>1. gc[c].todo \ {p} \in SUBSET Paths /\ gc[c].recovered \cup {p} \in SUBSET Paths
      BY <1>e
    <3>2. PICK T \in SUBSET Paths, R \in SUBSET Paths, L \in SUBSET GenIds :
            \/ gc' = [gc EXCEPT ![c].todo = T]
            \/ gc' = [gc EXCEPT ![c].todo = T, ![c].recovered = R]
            \/ gc' = [gc EXCEPT ![c].looked = L]
            \/ gc' = [gc EXCEPT ![c].todo = T, ![c].looked = L, ![c].recovered = R]
      BY <2>1, <3>1 DEF TypeOK
    <3>3. /\ [gc[c] EXCEPT !.todo = T] \in GcStates
          /\ [gc[c] EXCEPT !.looked = L] \in GcStates
      BY <1>0 DEF GcStates
    <3>4. [gc[c] EXCEPT !.todo = T, !.recovered = R] \in GcStates
      BY <1>0 DEF GcStates
    <3>5. [gc[c] EXCEPT !.todo = T, !.looked = L, !.recovered = R] \in GcStates
      BY <1>0 DEF GcStates
    <3> QED BY <3>2, <3>3, <3>4, <3>5 DEF TypeOK
  <2>3. /\ disk' \in [Paths -> [dir : {"absent", "present"}, records : Contents]]
        /\ pins' \subseteq GenIds
    BY <1>5, <2>1 DEF TypeOK
  <2>4. pc' \in [Procs -> Labels]
    BY <1>0, <1>6, <1>c, GotoType DEF GcRecoverCheck, GcRecoverRemove, TypeOK
  <2> QED BY <1>6, <2>2, <2>3, <2>4, EnvType
    DEF GcRecoverCheck, GcRecoverRemove,
        TypeOK, gcUnchanged
<1>7. CASE GcRecordRecovered(c)
  <2>1. CASE gc[c].recovered # {}
    BY <1>7, <2>1, <1>a, <1>b, <1>c, <1>e, GcRecordType DEF GcRecordRecovered
  <2>2. CASE gc[c].recovered = {}
    <3>1. pc' \in [Procs -> Labels]
      BY <1>0, <1>7, <2>2, <1>c, GotoType DEF GcRecordRecovered
    <3> QED BY <1>7, <2>2, <3>1, EnvType DEF GcRecordRecovered, TypeOK, gcUnchanged
  <2> QED BY <2>1, <2>2
<1>8. CASE GcRecordReclaimable(c)
  <2>1. CASE gc[c].reclaim # {}
    BY <1>8, <2>1, <1>a, <1>b, <1>c, <1>e, GcRecordType DEF GcRecordReclaimable
  <2>2. CASE gc[c].reclaim = {}
    <3>1. Finish(c, "ok")
      BY <1>8, <2>2 DEF GcRecordReclaimable
    <3>2. /\ pc' \in [Procs -> Labels]
          /\ outcome' \in [Procs -> Outcomes]
          /\ lock' \in Procs \cup {NoProc}
      BY <1>0, <1>d, <3>1, FinishType
    <3> QED BY <1>8, <2>2, <3>2, EnvType DEF GcRecordReclaimable, TypeOK, gcUnchanged
  <2> QED BY <2>1, <2>2
<1>9. CASE GcRecordDeleting(c)
  BY <1>9, <1>a, <1>b, <1>c, <1>e, GcRecordType DEF GcRecordDeleting
<1>10. CASE GcDeleteOne(c)
  <2>1. PICK p \in Paths :
          \/ /\ DeletePath(p)
             /\ gc' = [gc EXCEPT ![c].deleted = @ \cup {p}]
             /\ UNCHANGED <<lock, pc, outcome>>
          \/ /\ Finish(c, "failed")
             /\ UNCHANGED <<disk, pins, gc>>
    BY <1>10 DEF GcDeleteOne
  <2>2. gc' \in [Collectors -> GcStates]
    <3>1. gc[c].deleted \cup {p} \in SUBSET Paths
      BY <1>e
    <3>2. PICK D \in SUBSET Paths : gc' = [gc EXCEPT ![c].deleted = D] \/ gc' = gc
      BY <2>1, <3>1
    <3>3. [gc EXCEPT ![c].deleted = D] \in [Collectors -> GcStates]
      BY <3>2 DEF TypeOK, GcStates
    <3> QED BY <3>2, <3>3 DEF TypeOK
  <2>3. /\ disk' \in [Paths -> [dir : {"absent", "present"}, records : Contents]]
        /\ pins' \subseteq GenIds
    BY <1>5, <2>1 DEF TypeOK
  <2>4. /\ pc' \in [Procs -> Labels]
        /\ outcome' \in [Procs -> Outcomes]
        /\ lock' \in Procs \cup {NoProc}
    BY <1>0, <1>d, <2>1, FinishType DEF TypeOK
  <2> QED BY <1>10, <2>2, <2>3, <2>4, EnvType DEF GcDeleteOne, TypeOK, gcUnchanged
<1>11. CASE GcRecordDeleted(c)
  <2>1. gc[c].recovered \cup gc[c].deleted \in SUBSET Paths
    BY <1>e
  <2>2. Cardinality(gc[c].recovered) + Cardinality(gc[c].deleted) \in Nat
    BY <1>a, <1>e
  <2> QED BY <1>11, <1>b, <1>c, <2>1, <2>2, GcRecordType DEF GcRecordDeleted
<1>12. CASE GcReport(c)
  <2>1. /\ pc' \in [Procs -> Labels]
        /\ outcome' \in [Procs -> Outcomes]
        /\ lock' \in Procs \cup {NoProc}
    BY <1>0, <1>12, <1>d, FinishType DEF GcReport
  <2> QED BY <1>12, <2>1, EnvType DEF GcReport, TypeOK, gcUnchanged
<1> QED
  BY <1>1, <1>2, <1>3, <1>4, <1>6, <1>7, <1>8, <1>9, <1>10, <1>11, <1>12 DEF GcStep

\* Operators and process deaths keep the types.
LEMMA EnvironmentTypes ==
  ASSUME TypeOK,
         (\E n \in GenIds : TogglePin(n)) \/ (\E p \in Procs : Crash(p))
  PROVE  TypeOK'
<1>1. ASSUME NEW n \in GenIds, TogglePin(n)
      PROVE  TypeOK'
  BY <1>1, EnvType DEF TogglePin, TypeOK
<1>2. ASSUME NEW p \in Procs, Crash(p)
      PROVE  TypeOK'
  <2>1. NoHandle \in Handles /\ NoGc \in GcStates
    BY BoundAssumption DEF NoHandle, Handles, NoRevision, Revisions, Contents, NoGc, GcStates
  <2>2. handle' \in [Writers -> Handles] /\ gc' \in [Collectors -> GcStates]
    BY <1>2, <2>1 DEF Crash, TypeOK
  <2>3. /\ pc' \in [Procs -> Labels]
        /\ outcome' \in [Procs -> Outcomes]
        /\ lock' \in Procs \cup {NoProc}
    BY <1>2, FinishType DEF Crash, Outcomes
  <2> QED BY <1>2, <2>2, <2>3 DEF Crash, TypeOK
<1> QED BY <1>1, <1>2

\* Every step of the store keeps the types.
LEMMA TypeStep == TypeOK /\ [Next]_vars => TypeOK'
<1> SUFFICES ASSUME TypeOK, [Next]_vars
             PROVE  TypeOK'
  OBVIOUS
<1>1. CASE Next
  BY <1>1, LoadTypes, SaveTypes, ClientTypes, GcTypes, EnvironmentTypes DEF Next, LoadStep
<1>2. CASE UNCHANGED vars
  BY <1>2 DEF vars, TypeOK
<1> QED BY <1>1, <1>2

\* The store starts well typed.
LEMMA TypeInit == Init => TypeOK
<1> SUFFICES ASSUME Init PROVE TypeOK
  OBVIOUS
<1>1. EmptyDb \in Databases
  BY BoundAssumption DEF EmptyDb, Databases, Contents, NoRow, Rows, LifecycleStates
<1>2. NoHandle \in Handles /\ NoGc \in GcStates /\ NoRevision \in Revisions
  BY BoundAssumption DEF NoHandle, Handles, NoRevision, Revisions, Contents, NoGc, GcStates
<1>3. Absent \in [dir : {"absent", "present"}, records : Contents]
  BY DEF Absent, Contents
<1>4. "idle" \in Labels /\ "none" \in Outcomes /\ 0 \in 0..MaxGen
  BY BoundAssumption DEF Labels, Outcomes
<1> QED BY <1>1, <1>2, <1>3, <1>4 DEF Init, TypeOK

\* The variables of the store, its directory and its processes stay within
\* their types whatever the processes do.
THEOREM TypeCorrect == Spec => []TypeOK
BY TypeInit, TypeStep, PTL DEF Spec

-----------------------------------------------------------------------------
(* The writer lock                                                         *)

\* Ending an operation gives the lock back and takes it from nobody else.
LEMMA FinishLock ==
  ASSUME TypeOK, LockDiscipline, NEW p \in Procs, NEW result, Finish(p, result)
  PROVE  LockDiscipline'
BY ProcAssumption
   DEF Finish, Goto, LockDiscipline, TypeOK, LockedLabels, WriterLabels, CollectorLabels

\* A jump inside, or outside, the locked region does not touch the lock.
LEMMA StayLock ==
  ASSUME TypeOK, LockDiscipline, NEW p \in Procs, NEW label, Goto(p, label),
         label \in LockedLabels <=> pc[p] \in LockedLabels, lock' = lock
  PROVE  LockDiscipline'
BY DEF Goto, LockDiscipline, TypeOK

\* The lock is taken only when nobody holds it.
LEMMA TakeLock ==
  ASSUME TypeOK, LockDiscipline, NEW p \in Procs, NEW label \in LockedLabels,
         Goto(p, label), lock = NoProc, lock' = p
  PROVE  LockDiscipline'
BY ProcAssumption DEF Goto, LockDiscipline, TypeOK

\* Steps that neither move a process nor touch the lock are harmless.
LEMMA IdleLock ==
  ASSUME LockDiscipline, UNCHANGED <<pc, lock>>
  PROVE  LockDiscipline'
BY DEF LockDiscipline

\* The writers' steps keep the discipline.
LEMMA WriterLock ==
  ASSUME TypeOK, LockDiscipline, NEW w \in Writers,
         LoadPayloads(w) \/ Add(w) \/ SaveAcquire(w) \/ LoadStep(w) \/ SaveStep(w)
  PROVE  LockDiscipline'
<1>0. w \in Procs
  BY DEF Procs
<1> USE <1>0 DEF LockedLabels, WriterLabels, CollectorLabels
<1>1. CASE LoadPayloads(w)
  BY <1>1, StayLock DEF LoadPayloads
<1>2. CASE Add(w)
  BY <1>2, IdleLock DEF Add
<1>3. CASE SaveAcquire(w)
  BY <1>3, TakeLock, IdleLock DEF SaveAcquire
<1>4. CASE LoadToken(w)
  BY <1>4, StayLock DEF LoadToken
<1>5. CASE LoadIndex(w)
  BY <1>5, StayLock DEF LoadIndex
<1>6. CASE SaveCheckBase(w)
  BY <1>6, StayLock, FinishLock DEF SaveCheckBase
<1>7. CASE SaveWriteTemp(w)
  BY <1>7, StayLock DEF SaveWriteTemp
<1>8. CASE SaveRename(w)
  BY <1>8, StayLock DEF SaveRename
<1>9. CASE SaveIoError(w)
  BY <1>9, FinishLock DEF SaveIoError
<1>10. CASE SaveCommit(w)
  BY <1>10, StayLock, FinishLock DEF SaveCommit, CommitSnapshot
<1>11. CASE SaveFirstTransaction(w)
  BY <1>11, StayLock DEF SaveFirstTransaction, CommitSnapshot
<1>12. CASE SaveVerify(w)
  BY <1>12, StayLock, FinishLock DEF SaveVerify, ReportSaved
<1>13. CASE SaveRecover(w)
  BY <1>13, FinishLock DEF SaveRecover, ReportSaved
<1> QED
  BY <1>1, <1>2, <1>3, <1>4, <1>5, <1>6, <1>7, <1>8, <1>9, <1>10, <1>11, <1>12, <1>13
  DEF LoadStep, SaveStep

\* A ledger transaction keeps the lock or ends the run.
LEMMA RecordLock ==
  ASSUME TypeOK, LockDiscipline, NEW c \in Collectors, NEW paths, NEW count, NEW state,
         NEW label \in LockedLabels, pc[c] \in LockedLabels,
         GcRecord(c, paths, count, state, label)
  PROVE  LockDiscipline'
<1>0. c \in Procs
  BY DEF Procs
<1> QED BY <1>0, StayLock, FinishLock DEF GcRecord

\* The collectors' steps keep the discipline.
LEMMA CollectorLock ==
  ASSUME TypeOK, LockDiscipline, NEW c \in Collectors, GcOpen(c) \/ GcStep(c)
  PROVE  LockDiscipline'
<1>0. c \in Procs
  BY DEF Procs
<1> USE <1>0 DEF LockedLabels, WriterLabels, CollectorLabels
<1>1. CASE GcOpen(c)
  BY <1>1, StayLock DEF GcOpen
<1>2. CASE GcScan(c)
  BY <1>2, StayLock DEF GcScan
<1>3. CASE GcAcquire(c)
  BY <1>3, TakeLock, FinishLock DEF GcAcquire
<1>4. CASE GcLedger(c)
  BY <1>4, StayLock, FinishLock DEF GcLedger
<1>5. CASE GcRecoverCheck(c) \/ GcRecoverRemove(c)
  BY <1>5, IdleLock, StayLock DEF GcRecoverCheck, GcRecoverRemove
<1>6. CASE GcRecordRecovered(c)
  BY <1>6, RecordLock, StayLock DEF GcRecordRecovered
<1>7. CASE GcRecordReclaimable(c)
  BY <1>7, RecordLock, FinishLock DEF GcRecordReclaimable
<1>8. CASE GcRecordDeleting(c)
  BY <1>8, RecordLock DEF GcRecordDeleting
<1>9. CASE GcDeleteOne(c)
  BY <1>9, IdleLock, FinishLock DEF GcDeleteOne
<1>10. CASE GcRecordDeleted(c)
  BY <1>10, RecordLock DEF GcRecordDeleted
<1>11. CASE GcReport(c)
  BY <1>11, FinishLock DEF GcReport
<1> QED
  BY <1>1, <1>2, <1>3, <1>4, <1>5, <1>6, <1>7, <1>8, <1>9, <1>10, <1>11 DEF GcStep

\* Every step of the store keeps the discipline.
LEMMA LockStep == TypeOK /\ LockDiscipline /\ [Next]_vars => LockDiscipline'
<1> SUFFICES ASSUME TypeOK, LockDiscipline, [Next]_vars
             PROVE  LockDiscipline'
  OBVIOUS
<1>1. ASSUME NEW c \in Clients, ClientOpen(c) \/ ClientPatch(c)
      PROVE  LockDiscipline'
  BY <1>1, IdleLock DEF ClientOpen, ClientPatch
<1>2. ASSUME NEW c \in Clients, NEW g \in GenIds, ClientReplace(c, g)
      PROVE  LockDiscipline'
  BY <1>2, IdleLock DEF ClientReplace
<1>3. ASSUME NEW n \in GenIds, TogglePin(n)
      PROVE  LockDiscipline'
  BY <1>3, IdleLock DEF TogglePin
<1>4. ASSUME NEW p \in Procs, Crash(p)
      PROVE  LockDiscipline'
  BY <1>4, FinishLock DEF Crash
<1>5. CASE Next
  BY <1>1, <1>2, <1>3, <1>4, <1>5, WriterLock, CollectorLock DEF Next
<1>6. CASE UNCHANGED vars
  BY <1>6, IdleLock DEF vars
<1> QED BY <1>5, <1>6

\* At first nobody holds the lock.
LEMMA LockInit == Init => LockDiscipline
BY ProcAssumption
   DEF Init, LockDiscipline, LockedLabels, WriterLabels, CollectorLabels

\* At every moment the writer lock belongs to exactly the process that is
\* between its acquisition and the end of its save or gc run: no error path,
\* crash or lost race leaves it behind, and two processes never both hold it.
THEOREM LockSafe == Spec => []LockDiscipline
BY LockInit, LockStep, TypeCorrect, PTL DEF Spec

-----------------------------------------------------------------------------
(* The audit log                                                           *)

\* An audited commit extends a gap-free log by its own sequence number.
LEMMA AuditExtends ==
  ASSUME NEW d \in Databases, d.audit = 1..d.seq, d.n_audit = d.seq
  PROVE  LET a == AuditedCommit(d) IN a.audit = 1..a.seq /\ a.n_audit = a.seq
<1>1. d.seq \in Nat /\ d.audit \in SUBSET Nat /\ d.n_audit \in Nat
  BY DEF Databases
<1>2. /\ AuditedCommit(d).seq = d.seq + 1
      /\ AuditedCommit(d).audit = d.audit \cup {d.seq + 1}
      /\ AuditedCommit(d).n_audit = d.n_audit + 1
  BY DEF AuditedCommit, Databases
<1>3. 1..(d.seq + 1) = 1..d.seq \cup {d.seq + 1}
  BY <1>1
<1> QED BY <1>2, <1>3

\* The three transactions write the audit row of AuditedCommit and no other.
LEMMA TransactionsAudit ==
  ASSUME NEW d \in Databases
  PROVE  /\ \A g, edits, digest :
              LET s == SnapshotTxn(d, g, edits, digest)
                  a == AuditedCommit(d)
              IN s.audit = a.audit /\ s.seq = a.seq /\ s.n_audit = a.n_audit
         /\ \A c : LET s == PatchTxn(d, c)
                       a == AuditedCommit(d)
                   IN s.audit = a.audit /\ s.seq = a.seq /\ s.n_audit = a.n_audit
         /\ \A paths, count, state :
              LET s == GcTxn(d, paths, count, state)
                  a == AuditedCommit(d)
              IN s.audit = a.audit /\ s.seq = a.seq /\ s.n_audit = a.n_audit
<1>1. AuditedCommit(d) \in Databases
  BY AuditedCommitType
<1> QED BY <1>1 DEF SnapshotTxn, PatchTxn, GcTxn, Databases

\* What a step of the store may do to adapter.redb: nothing, create it, or
\* commit one of the three transactions.
LEMMA DbStep ==
  ASSUME Next
  PROVE  \/ db' = db
         \/ db' = [db EXCEPT !.file = "created"]
         \/ \E g, edits, digest : db' = SnapshotTxn(db, g, edits, digest)
         \/ \E c : db' = PatchTxn(db, c)
         \/ \E paths, count, state : db' = GcTxn(db, paths, count, state)
<1>1. ASSUME NEW w \in Writers, LoadPayloads(w) \/ Add(w) \/ SaveAcquire(w) \/ LoadStep(w)
      PROVE  db' = db
  BY <1>1 DEF LoadPayloads, Add, SaveAcquire, LoadStep, LoadToken, LoadIndex
<1>2. ASSUME NEW w \in Writers, SaveStep(w)
      PROVE  \/ db' = db
             \/ db' = [db EXCEPT !.file = "created"]
             \/ \E g, edits, digest : db' = SnapshotTxn(db, g, edits, digest)
  BY <1>2 DEF SaveStep, SaveCheckBase, SaveWriteTemp, SaveRename, SaveIoError, SaveCommit,
              SaveFirstTransaction, SaveVerify, SaveRecover, CommitSnapshot
<1>3. ASSUME NEW c \in Clients, ClientOpen(c) \/ ClientPatch(c)
      PROVE  db' = db \/ db' = PatchTxn(db, c)
  BY <1>3 DEF ClientOpen, ClientPatch
<1>4. ASSUME NEW c \in Clients, NEW g \in GenIds, ClientReplace(c, g)
      PROVE  \E edits, digest : db' = SnapshotTxn(db, g, edits, digest)
  BY <1>4 DEF ClientReplace
<1>5. ASSUME NEW c \in Collectors, GcOpen(c) \/ GcStep(c)
      PROVE  db' = db \/ \E paths, count, state : db' = GcTxn(db, paths, count, state)
  BY <1>5 DEF GcOpen, GcStep, GcScan, GcAcquire, GcLedger, GcRecoverCheck, GcRecoverRemove,
              GcRecordRecovered,
              GcRecordReclaimable, GcRecordDeleting, GcDeleteOne, GcRecordDeleted, GcReport,
              GcRecord
<1>6. ASSUME NEW n \in GenIds, TogglePin(n)
      PROVE  db' = db
  BY <1>6 DEF TogglePin
<1>7. ASSUME NEW p \in Procs, Crash(p)
      PROVE  db' = db
  BY <1>7 DEF Crash
<1> QED BY <1>1, <1>2, <1>3, <1>4, <1>5, <1>6, <1>7 DEF Next

LEMMA AuditStep ==
  ASSUME TypeOK, AuditComplete, [Next]_vars
  PROVE  AuditComplete'
<1>1. db \in Databases
  BY DEF TypeOK
<1>2. CASE Next
  <2>1. CASE db' = [db EXCEPT !.file = "created"]
    BY <1>1, <2>1 DEF AuditComplete, Databases
  <2>2. CASE /\ db'.audit = AuditedCommit(db).audit
             /\ db'.seq = AuditedCommit(db).seq
             /\ db'.n_audit = AuditedCommit(db).n_audit
    BY <1>1, <2>2, AuditExtends DEF AuditComplete
  <2>3. CASE db' = db
    BY <2>3 DEF AuditComplete
  <2> QED BY <1>1, <1>2, <2>1, <2>2, <2>3, DbStep, TransactionsAudit
<1>3. CASE UNCHANGED vars
  BY <1>3 DEF vars, AuditComplete
<1> QED BY <1>2, <1>3

\* The audit log has exactly one row for every commit sequence up to the
\* current one, whichever transaction, process and interleaving produced it.
THEOREM AuditIsComplete == Spec => []AuditComplete
<1>1. Init => AuditComplete
  BY DEF Init, EmptyDb, AuditComplete
<1> QED BY <1>1, AuditStep, TypeCorrect, PTL DEF Spec

-----------------------------------------------------------------------------
(* Compare-and-swap: the store implements VersionedStore                   *)

\* Before the first transaction nobody holds a commit token, and only the
\* holder of the writer lock can be about to write that transaction.
FirstCommit ==
  /\ db.file # "ok" => db.seq = 0 /\ \A w \in Writers : handle[w].token.seq = 0
  /\ \A w \in Writers : pc[w] = "create" => db.file = "created"

CasInv == TypeOK /\ LockDiscipline /\ FirstCommit

\* Two processes are never both between a lock acquisition and its release.
LEMMA OneLocked ==
  ASSUME LockDiscipline, NEW p \in Procs, NEW q \in Procs,
         pc[p] \in LockedLabels, pc[q] \in LockedLabels
  PROVE  p = q
BY DEF LockDiscipline

\* A verified open sees a file that has had its first transaction.
LEMMA VerifiedFile ==
  ASSUME NEW n, OpenVerifies(n)
  PROVE  db.file = "ok"
BY DEF OpenVerifies

\* The transactions leave a file with at least one transaction.
LEMMA TransactionFile ==
  ASSUME NEW d \in Databases
  PROVE  /\ \A g, edits, digest : SnapshotTxn(d, g, edits, digest).file = "ok"
         /\ \A c : PatchTxn(d, c).file = d.file
         /\ \A paths, count, state : GcTxn(d, paths, count, state).file = d.file
<1>1. AuditedCommit(d) \in Databases /\ AuditedCommit(d).file = d.file
  BY AuditedCommitType DEF AuditedCommit, Databases
<1> QED BY <1>1 DEF SnapshotTxn, PatchTxn, GcTxn, Databases

\* Every writer's step keeps FirstCommit.
LEMMA WriterFirstCommit ==
  ASSUME CasInv, NEW w \in Writers,
         LoadPayloads(w) \/ Add(w) \/ SaveAcquire(w) \/ LoadStep(w) \/ SaveStep(w)
  PROVE  FirstCommit'
<1>0. w \in Procs /\ db \in Databases /\ handle \in [Writers -> Handles]
      /\ pc \in [Procs -> Labels] /\ Writers \subseteq Procs
  BY DEF CasInv, TypeOK, Procs
<1>a. ASSUME db'.file = db.file, db'.seq = db.seq,
             \A v \in Writers : db.file # "ok" => handle'[v].token.seq = 0,
             \A v \in Writers : pc'[v] = "create" => pc[v] = "create"
      PROVE  FirstCommit'
  BY <1>a DEF CasInv, FirstCommit
<1>b. NoHandle.token.seq = 0
  BY DEF NoHandle, NoRevision
<1>c. ASSUME NEW label, label # "create", Goto(w, label)
      PROVE  \A v \in Writers : pc'[v] = "create" => pc[v] = "create"
  BY <1>0, <1>c DEF Goto
<1>d. ASSUME NEW result, Finish(w, result)
      PROVE  \A v \in Writers : pc'[v] = "create" => pc[v] = "create"
  BY <1>c, <1>d DEF Finish
<1>e. ASSUME handle' = handle
      PROVE  \A v \in Writers : db.file # "ok" => handle'[v].token.seq = 0
  BY <1>e DEF CasInv, FirstCommit
<1>f. ASSUME ReportSaved(w), OpenVerifies(0)
      PROVE  \A v \in Writers : db.file # "ok" => handle'[v].token.seq = 0
  BY <1>f, VerifiedFile
<1>g. ASSUME CommitSnapshot(w), pc[w] \in LockedLabels
      PROVE  FirstCommit'
  <2>1. db'.file = "ok"
    BY <1>0, <1>g, TransactionFile DEF CommitSnapshot
  <2>2. \A v \in Writers : pc'[v] # "create"
    <3> SUFFICES ASSUME NEW v \in Writers, pc'[v] = "create"
                 PROVE  FALSE
      OBVIOUS
    <3>1. v # w /\ pc[v] = "create"
      BY <1>0, <1>g DEF CommitSnapshot, Goto
    <3> QED BY <1>0, <1>g, <3>1, OneLocked DEF CasInv, LockedLabels, WriterLabels
  <2> QED BY <2>1, <2>2 DEF FirstCommit
<1>1. CASE LoadPayloads(w)
  <2>1. \A v \in Writers : db.file # "ok" => handle'[v].token.seq = 0
    BY <1>1, VerifiedFile DEF LoadPayloads
  <2> QED BY <1>1, <1>a, <1>c, <2>1 DEF LoadPayloads
<1>2. CASE Add(w)
  <2>1. \A v \in Writers : handle'[v].token = handle[v].token
    BY <1>0, <1>2 DEF Add, Handles
  <2> QED BY <1>2, <1>a, <2>1 DEF Add, CasInv, FirstCommit
<1>3. CASE SaveAcquire(w)
  <2>1. \A v \in Writers : pc'[v] = "create" => pc[v] = "create"
    BY <1>3, <1>c DEF SaveAcquire
  <2> QED BY <1>3, <1>a, <1>e, <2>1 DEF SaveAcquire
<1>4. CASE LoadToken(w)
  <2>1. \A v \in Writers : pc'[v] = "create" => pc[v] = "create"
    BY <1>4, <1>c DEF LoadToken
  <2>2. \A v \in Writers : db.file # "ok" => handle'[v].token.seq = 0
    BY <1>0, <1>4, <1>b, VerifiedFile DEF LoadToken, CasInv, FirstCommit
  <2> QED BY <1>4, <1>a, <2>1, <2>2 DEF LoadToken
<1>5. CASE LoadIndex(w)
  <2>1. \A v \in Writers : handle'[v].token \in {handle[v].token, NoRevision}
    BY <1>0, <1>5 DEF LoadIndex, Handles, NoHandle
  <2>2. \A v \in Writers : db.file # "ok" => handle'[v].token.seq = 0
    BY <2>1 DEF NoRevision, CasInv, FirstCommit
  <2> QED BY <1>5, <1>a, <1>c, <2>2 DEF LoadIndex
<1>6. CASE SaveCheckBase(w)
  <2>1. \A v \in Writers : pc'[v] = "create" => pc[v] = "create"
    BY <1>6, <1>c, <1>d DEF SaveCheckBase
  <2> QED BY <1>6, <1>a, <1>e, <2>1 DEF SaveCheckBase
<1>7. CASE SaveWriteTemp(w)
  BY <1>7, <1>a, <1>c, <1>e DEF SaveWriteTemp
<1>8. CASE SaveRename(w)
  BY <1>8, <1>a, <1>c, <1>e DEF SaveRename
<1>9. CASE SaveIoError(w)
  BY <1>9, <1>a, <1>d, <1>e DEF SaveIoError
<1>10. CASE SaveCommit(w)
  <2>1. CASE db.file = "absent" /\ db' = [db EXCEPT !.file = "created"] /\ Goto(w, "create")
    <3>1. db'.file = "created" /\ db'.seq = db.seq /\ db.seq = 0
      BY <1>0, <2>1 DEF Databases, CasInv, FirstCommit
    <3>2. \A v \in Writers : handle'[v].token.seq = 0
      BY <1>10, <2>1 DEF SaveCommit, CasInv, FirstCommit
    <3> QED BY <3>1, <3>2 DEF FirstCommit
  <2>2. CASE CommitSnapshot(w)
    BY <1>10, <1>g, <2>2 DEF SaveCommit, LockedLabels, WriterLabels
  <2>3. CASE db' = db /\ (Finish(w, "failed") \/ Goto(w, "recover"))
    BY <1>10, <1>a, <1>c, <1>d, <1>e, <2>3 DEF SaveCommit
  <2> QED BY <1>10, <2>1, <2>2, <2>3 DEF SaveCommit
<1>11. CASE SaveFirstTransaction(w)
  BY <1>11, <1>g DEF SaveFirstTransaction, LockedLabels, WriterLabels
<1>12. CASE SaveVerify(w)
  <2>1. \A v \in Writers : pc'[v] = "create" => pc[v] = "create"
    BY <1>12, <1>c, <1>d DEF SaveVerify, ReportSaved
  <2>2. \A v \in Writers : db.file # "ok" => handle'[v].token.seq = 0
    BY <1>12, <1>e, <1>f DEF SaveVerify
  <2> QED BY <1>12, <1>a, <2>1, <2>2 DEF SaveVerify
<1>13. CASE SaveRecover(w)
  <2>1. \A v \in Writers : pc'[v] = "create" => pc[v] = "create"
    BY <1>13, <1>d DEF SaveRecover, ReportSaved
  <2>2. \A v \in Writers : db.file # "ok" => handle'[v].token.seq = 0
    BY <1>13, <1>e, <1>f DEF SaveRecover
  <2> QED BY <1>13, <1>a, <2>1, <2>2 DEF SaveRecover
<1> QED
  BY <1>1, <1>2, <1>3, <1>4, <1>5, <1>6, <1>7, <1>8, <1>9, <1>10, <1>11, <1>12, <1>13
  DEF LoadStep, SaveStep

\* Every step of the store keeps FirstCommit.
LEMMA FirstCommitStep == CasInv /\ [Next]_vars => FirstCommit'
<1> SUFFICES ASSUME CasInv, [Next]_vars
             PROVE  FirstCommit'
  OBVIOUS
<1>0. db \in Databases /\ handle \in [Writers -> Handles] /\ pc \in [Procs -> Labels]
      /\ Writers \subseteq Procs
  BY DEF CasInv, TypeOK, Procs
<1>a. ASSUME db.file = "ok", db'.file = "ok", pc' = pc
      PROVE  FirstCommit'
  BY <1>a DEF CasInv, FirstCommit
<1>1. ASSUME NEW c \in Clients, ClientOpen(c) \/ ClientPatch(c)
      PROVE  FirstCommit'
  <2>1. db.file = "ok" /\ db'.file = "ok" /\ pc' = pc
    BY <1>0, <1>1, VerifiedFile, TransactionFile DEF ClientOpen, ClientPatch
  <2> QED BY <1>a, <2>1
<1>2. ASSUME NEW c \in Clients, NEW g \in GenIds, ClientReplace(c, g)
      PROVE  FirstCommit'
  <2>1. db.file = "ok" /\ db'.file = "ok" /\ pc' = pc
    BY <1>0, <1>2, VerifiedFile, TransactionFile DEF ClientReplace
  <2> QED BY <1>a, <2>1
<1>3. ASSUME NEW c \in Collectors, GcOpen(c) \/ GcStep(c)
      PROVE  FirstCommit'
  <2>1. handle' = handle
    BY <1>3 DEF GcOpen, GcStep, GcScan, GcAcquire, GcLedger, GcRecoverCheck, GcRecoverRemove,
                GcRecordRecovered,
                GcRecordReclaimable, GcRecordDeleting, GcDeleteOne, GcRecordDeleted, GcReport,
                GcRecord, gcUnchanged
  <2>2. c \notin Writers
    BY ProcAssumption
  <2>3. \A w \in Writers : pc'[w] = pc[w]
    BY <1>0, <1>3, <2>2
       DEF GcOpen, GcStep, GcScan, GcAcquire, GcLedger, GcRecoverCheck, GcRecoverRemove,
           GcRecordRecovered,
           GcRecordReclaimable, GcRecordDeleting, GcDeleteOne, GcRecordDeleted, GcReport,
           GcRecord, Finish, Goto
  <2>4. db' = db \/ (db.file = "ok" /\ db'.file = "ok")
    <3>1. ASSUME NEW paths, NEW count, NEW state, NEW label,
                 GcRecord(c, paths, count, state, label)
          PROVE  db' = db \/ (db.file = "ok" /\ db'.file = "ok")
      BY <1>0, <3>1, VerifiedFile, TransactionFile DEF GcRecord
    <3>2. CASE GcRecordRecovered(c) \/ GcRecordReclaimable(c) \/ GcRecordDeleting(c)
               \/ GcRecordDeleted(c)
      BY <3>1, <3>2
      DEF GcRecordRecovered, GcRecordReclaimable, GcRecordDeleting, GcRecordDeleted
    <3>3. CASE GcOpen(c) \/ GcScan(c) \/ GcAcquire(c) \/ GcLedger(c) \/ GcRecoverCheck(c)
               \/ GcRecoverRemove(c) \/ GcDeleteOne(c) \/ GcReport(c)
      BY <3>3 DEF GcOpen, GcScan, GcAcquire, GcLedger, GcRecoverCheck, GcRecoverRemove,
                  GcDeleteOne, GcReport
    <3> QED BY <1>3, <3>2, <3>3 DEF GcStep
  <2> QED BY <2>1, <2>3, <2>4 DEF CasInv, FirstCommit
<1>4. ASSUME NEW n \in GenIds, TogglePin(n)
      PROVE  FirstCommit'
  BY <1>4 DEF TogglePin, CasInv, FirstCommit
<1>5. ASSUME NEW p \in Procs, Crash(p)
      PROVE  FirstCommit'
  <2>1. \A w \in Writers : handle'[w].token.seq \in {0, handle[w].token.seq}
    BY <1>5 DEF Crash, NoHandle, NoRevision
  <2>2. \A w \in Writers : pc'[w] = "create" => pc[w] = "create"
    BY <1>0, <1>5 DEF Crash, Finish, Goto
  <2> QED BY <1>5, <2>1, <2>2 DEF Crash, CasInv, FirstCommit
<1>6. CASE Next
  BY <1>1, <1>2, <1>3, <1>4, <1>5, <1>6, WriterFirstCommit DEF Next
<1>7. CASE UNCHANGED vars
  BY <1>7 DEF vars, CasInv, FirstCommit
<1> QED BY <1>6, <1>7

\* The bases of the refinement mapping.
Base == [p \in Procs |-> IF p \in Writers THEN handle[p].token.seq ELSE rev[p].seq]

Observed(s) == Base' = [Base EXCEPT ![s] = db.seq] /\ UNCHANGED <<db.seq, db.payload>>
Forgotten(s) == Base' = [Base EXCEPT ![s] = 0] /\ UNCHANGED <<db.seq, db.payload>>
Committed(s) ==
  /\ Base[s] = db.seq
  /\ db'.seq = db.seq + 1
  /\ db'.payload \in SUBSET (Writers \cup Clients)
  /\ Base' \in {Base, [Base EXCEPT ![s] = db.seq + 1]}
Stuttered == UNCHANGED <<db.seq, db.payload, Base>>

\* A step of one process changes the base of that process only.
LEMMA BaseOfOne ==
  ASSUME NEW s \in Procs, NEW v,
         \A p \in Procs \ {s} : Base'[p] = Base[p],
         Base'[s] = v
  PROVE  Base' = [Base EXCEPT ![s] = v]
BY DEF Base

\* What the steps of a writer are to VersionedStore.
LEMMA WriterRefines ==
  ASSUME CasInv, NEW w \in Writers,
         LoadPayloads(w) \/ Add(w) \/ SaveAcquire(w) \/ LoadStep(w) \/ SaveStep(w)
  PROVE  Observed(w) \/ Forgotten(w) \/ Committed(w) \/ Stuttered
<1>0. /\ w \in Procs /\ db \in Databases /\ handle \in [Writers -> Handles]
      /\ newGen[w] \in 0..MaxGen
  BY DEF CasInv, TypeOK, Procs
<1>a. ASSUME handle' = handle, rev' = rev
      PROVE  Base' = Base
  BY <1>a DEF Base
<1>b. ASSUME db' = db, rev' = rev, \A v \in Writers \ {w} : handle'[v] = handle[v],
             handle'[w].token = NoRevision
      PROVE  Forgotten(w)
  <2>1. Base'[w] = 0 /\ \A p \in Procs \ {w} : Base'[p] = Base[p]
    BY <1>0, <1>b DEF Base, NoRevision
  <2> QED BY <1>0, <1>b, <2>1, BaseOfOne DEF Forgotten
<1>c. ASSUME db' = db, rev' = rev, \A v \in Writers \ {w} : handle'[v] = handle[v],
             handle'[w].token = Revision(db)
      PROVE  Observed(w)
  <2>1. Base'[w] = db.seq /\ \A p \in Procs \ {w} : Base'[p] = Base[p]
    BY <1>0, <1>c DEF Base, Revision
  <2> QED BY <1>0, <1>c, <2>1, BaseOfOne DEF Observed
<1>d. ASSUME db' = db, handle' = handle, rev' = rev
      PROVE  Stuttered
  BY <1>a, <1>d DEF Stuttered
<1>e. ASSUME ReportSaved(w), db' = db, rev' = rev
      PROVE  Observed(w)
  <2>1. handle'[w].token = Revision(db) /\ \A v \in Writers \ {w} : handle'[v] = handle[v]
    BY <1>0, <1>e DEF ReportSaved, Handles
  <2> QED BY <1>c, <1>e, <2>1
<1>f. ASSUME CommitSnapshot(w), handle' = handle, rev' = rev, handle[w].token.seq = db.seq
      PROVE  Committed(w)
  <2> DEFINE digest == IF newGen[w] = 0 THEN {} ELSE disk[Gen(newGen[w])].records
  <2>1. digest \in Contents
    BY <1>0, BoundAssumption DEF CasInv, TypeOK, Contents, Gen, Paths, GenIds
  <2>2. handle[w].edits \in SUBSET (Writers \cup Clients)
    BY <1>0 DEF Handles
  <2>3. db'.seq = db.seq + 1 /\ db'.payload = handle[w].edits
    BY <1>0, <1>f, <2>1, <2>2, SnapshotTxnType DEF CommitSnapshot
  <2>4. Base[w] = db.seq
    BY <1>0, <1>f DEF Base
  <2> QED BY <1>a, <1>f, <2>2, <2>3, <2>4 DEF Committed
<1>1. CASE LoadPayloads(w)
  <2>1. handle'[w].token = NoRevision /\ \A v \in Writers \ {w} : handle'[v] = handle[v]
    BY <1>0, <1>1 DEF LoadPayloads, NoHandle
  <2> QED BY <1>1, <1>b, <2>1 DEF LoadPayloads
<1>2. CASE Add(w)
  <2>1. \A v \in Writers : handle'[v].token = handle[v].token
    BY <1>0, <1>2 DEF Add, Handles
  <2>2. rev' = rev
    BY <1>2 DEF Add
  <2>3. Base' = Base
    BY <2>1, <2>2 DEF Base
  <2> QED BY <1>2, <2>3 DEF Add, Stuttered
<1>3. CASE SaveAcquire(w)
  BY <1>3, <1>d DEF SaveAcquire
<1>4. CASE LoadToken(w)
  <2>1. \A v \in Writers \ {w} : handle'[v] = handle[v]
    BY <1>0, <1>4 DEF LoadToken
  <2>2. handle'[w].token = Revision(db) \/ handle'[w].token = NoRevision
    BY <1>0, <1>4 DEF LoadToken, Handles, NoHandle
  <2> QED BY <1>4, <1>b, <1>c, <2>1, <2>2 DEF LoadToken
<1>5. CASE LoadIndex(w)
  <2>1. \A v \in Writers \ {w} : handle'[v] = handle[v]
    BY <1>0, <1>5 DEF LoadIndex
  <2>2. handle'[w].token = handle[w].token \/ handle'[w].token = NoRevision
    BY <1>0, <1>5 DEF LoadIndex, Handles, NoHandle
  <2>3. CASE handle'[w].token = handle[w].token
    <3>1. Base' = Base
      BY <1>5, <2>1, <2>3 DEF Base, LoadIndex
    <3> QED BY <1>5, <3>1 DEF LoadIndex, Stuttered
  <2> QED BY <1>5, <1>b, <2>1, <2>2, <2>3 DEF LoadIndex
<1>6. CASE SaveCheckBase(w)
  BY <1>6, <1>d DEF SaveCheckBase
<1>7. CASE SaveWriteTemp(w)
  BY <1>7, <1>d DEF SaveWriteTemp
<1>8. CASE SaveRename(w)
  BY <1>8, <1>d DEF SaveRename
<1>9. CASE SaveIoError(w)
  BY <1>9, <1>d DEF SaveIoError
<1>10. CASE SaveCommit(w)
  <2>1. CASE db' = [db EXCEPT !.file = "created"]
    <3>1. db'.seq = db.seq /\ db'.payload = db.payload
      BY <1>0, <2>1 DEF Databases
    <3> QED BY <1>10, <1>a, <3>1 DEF SaveCommit, Stuttered
  <2>2. CASE SaveAccepted(w) /\ db.file = "ok" /\ CommitSnapshot(w)
    <3>1. handle[w].token.seq = db.seq
      BY <2>2 DEF SaveAccepted, Revision
    <3> QED BY <1>10, <1>f, <2>2, <3>1 DEF SaveCommit
  <2>3. CASE db' = db
    BY <1>10, <1>d, <2>3 DEF SaveCommit
  <2> QED BY <1>10, <2>1, <2>2, <2>3 DEF SaveCommit
<1>11. CASE SaveFirstTransaction(w)
  <2>1. handle[w].token.seq = db.seq
    <3>1. pc[w] = "create"
      BY <1>11 DEF SaveFirstTransaction
    <3>2. db.file = "created"
      BY <3>1 DEF CasInv, FirstCommit
    <3> QED BY <3>2 DEF CasInv, FirstCommit
  <2> QED BY <1>11, <1>f, <2>1 DEF SaveFirstTransaction
<1>12. CASE SaveVerify(w)
  BY <1>12, <1>d, <1>e DEF SaveVerify
<1>13. CASE SaveRecover(w)
  BY <1>13, <1>d, <1>e DEF SaveRecover
<1> QED
  BY <1>1, <1>2, <1>3, <1>4, <1>5, <1>6, <1>7, <1>8, <1>9, <1>10, <1>11, <1>12, <1>13
  DEF LoadStep, SaveStep

\* What a ledger transaction is to VersionedStore.
LEMMA RecordRefines ==
  ASSUME CasInv, NEW c \in Collectors, NEW paths \in SUBSET Paths, NEW count \in Nat,
         NEW state \in LifecycleStates, NEW label,
         GcRecord(c, paths, count, state, label)
  PROVE  Committed(c) \/ Stuttered
<1>0. /\ c \in Procs /\ c \notin Writers /\ db \in Databases
      /\ rev \in [Clients \cup Collectors -> Revisions]
      /\ \A p \in Procs : p \notin Writers => p \in Clients \cup Collectors
  BY ProcAssumption DEF CasInv, TypeOK, Procs
<1>1. CASE rev[c] = Revision(db) /\ db' = GcTxn(db, paths, count, state)
           /\ rev' = [rev EXCEPT ![c] = Revision(db')]
  <2>1. db'.seq = db.seq + 1 /\ db'.payload = db.payload
    BY <1>0, <1>1, GcTxnType
  <2>2. Base[c] = db.seq
    BY <1>0, <1>1 DEF Base, Revision
  <2>3. \A p \in Procs \ {c} : Base'[p] = Base[p]
    BY <1>0, <1>1 DEF Base, GcRecord, gcUnchanged
  <2>4. Base'[c] = db.seq + 1
    <3>1. rev'[c] = Revision(db')
      BY <1>0, <1>1
    <3> QED BY <1>0, <2>1, <3>1 DEF Base, Revision
  <2>5. Base' = [Base EXCEPT ![c] = db.seq + 1]
    BY <1>0, <2>3, <2>4, BaseOfOne
  <2> QED BY <1>0, <2>1, <2>2, <2>5 DEF Committed, Databases
<1>2. CASE db' = db /\ rev' = rev
  <2>1. Base' = Base
    BY <1>2 DEF GcRecord, gcUnchanged, Base
  <2> QED BY <1>2, <2>1 DEF Stuttered
<1> QED BY <1>1, <1>2 DEF GcRecord

\* What the steps of a collector are to VersionedStore.
LEMMA CollectorRefines ==
  ASSUME CasInv, NEW c \in Collectors, GcOpen(c) \/ GcStep(c)
  PROVE  Observed(c) \/ Committed(c) \/ Stuttered
<1>0. /\ c \in Procs /\ c \notin Writers
      /\ rev \in [Clients \cup Collectors -> Revisions] /\ gc[c] \in GcStates
      /\ \A p \in Procs : p \notin Writers => p \in Clients \cup Collectors
  BY ProcAssumption DEF CasInv, TypeOK, Procs
<1>a. \A S \in SUBSET Paths : Cardinality(S) \in Nat
  BY PathsFinite
<1>b. {"reclaimable", "deleting", "deleted"} \subseteq LifecycleStates
  BY DEF LifecycleStates
<1>c. gc[c].reclaim \in SUBSET Paths /\ gc[c].recovered \in SUBSET Paths
      /\ gc[c].deleted \in SUBSET Paths
  BY <1>0 DEF GcStates
<1>d. ASSUME db' = db, handle' = handle, rev' = rev
      PROVE  Stuttered
  <2>1. Base' = Base
    BY <1>d DEF Base
  <2> QED BY <1>d, <2>1 DEF Stuttered
<1>1. CASE GcOpen(c)
  <2>1. rev' = [rev EXCEPT ![c] = Revision(db)] /\ db' = db /\ handle' = handle
    BY <1>1 DEF GcOpen, gcUnchanged
  <2>2. \A p \in Procs \ {c} : Base'[p] = Base[p]
    BY <1>0, <2>1 DEF Base
  <2>3. Base'[c] = db.seq
    BY <1>0, <2>1 DEF Base, Revision
  <2> QED BY <1>0, <2>1, <2>2, <2>3, BaseOfOne DEF Observed
<1>2. CASE GcScan(c) \/ GcAcquire(c) \/ GcLedger(c) \/ GcRecoverCheck(c)
           \/ GcRecoverRemove(c) \/ GcDeleteOne(c)
           \/ GcReport(c)
  BY <1>2, <1>d DEF GcScan, GcAcquire, GcLedger, GcRecoverCheck, GcRecoverRemove,
                    GcDeleteOne, GcReport, gcUnchanged
<1>3. CASE GcRecordRecovered(c)
  <2>1. CASE gc[c].recovered # {}
    BY <1>3, <2>1, <1>a, <1>b, <1>c, RecordRefines DEF GcRecordRecovered
  <2>2. CASE gc[c].recovered = {}
    BY <1>3, <2>2, <1>d DEF GcRecordRecovered, gcUnchanged
  <2> QED BY <2>1, <2>2
<1>4. CASE GcRecordReclaimable(c)
  <2>1. CASE gc[c].reclaim # {}
    BY <1>4, <2>1, <1>a, <1>b, <1>c, RecordRefines DEF GcRecordReclaimable
  <2>2. CASE gc[c].reclaim = {}
    BY <1>4, <2>2, <1>d DEF GcRecordReclaimable, gcUnchanged
  <2> QED BY <2>1, <2>2
<1>5. CASE GcRecordDeleting(c)
  BY <1>5, <1>a, <1>b, <1>c, RecordRefines DEF GcRecordDeleting
<1>6. CASE GcRecordDeleted(c)
  <2>1. gc[c].recovered \cup gc[c].deleted \in SUBSET Paths
    BY <1>c
  <2>2. Cardinality(gc[c].recovered) + Cardinality(gc[c].deleted) \in Nat
    BY <1>a, <1>c
  <2> QED BY <1>6, <1>b, <2>1, <2>2, RecordRefines DEF GcRecordDeleted
<1> QED BY <1>1, <1>2, <1>3, <1>4, <1>5, <1>6 DEF GcStep

\* What the steps of a client are to VersionedStore.
LEMMA ClientRefines ==
  ASSUME CasInv, NEW c \in Clients,
         ClientOpen(c) \/ ClientPatch(c) \/ \E g \in GenIds : ClientReplace(c, g)
  PROVE  Observed(c) \/ Committed(c)
<1>0. /\ c \in Procs /\ c \notin Writers /\ db \in Databases
      /\ rev \in [Clients \cup Collectors -> Revisions]
      /\ \A p \in Procs : p \notin Writers => p \in Clients \cup Collectors
  BY ProcAssumption DEF CasInv, TypeOK, Procs
<1>a. ASSUME ClientCommitted(c), rev[c] = Revision(db), handle' = handle,
             db'.seq = db.seq + 1, db'.payload \in SUBSET (Writers \cup Clients)
      PROVE  Committed(c)
  <2>1. Base[c] = db.seq
    BY <1>0, <1>a DEF Base, Revision
  <2>2. CASE rev' = rev
    <3>1. Base' = Base
      BY <1>a, <2>2 DEF Base
    <3> QED BY <1>a, <2>1, <3>1 DEF Committed
  <2>3. CASE rev' = [rev EXCEPT ![c] = Revision(db')]
    <3>1. \A p \in Procs \ {c} : Base'[p] = Base[p]
      BY <1>0, <1>a, <2>3 DEF Base
    <3>2. rev'[c] = Revision(db')
      BY <1>0, <2>3
    <3>3. Base'[c] = db.seq + 1
      BY <1>0, <1>a, <3>2 DEF Base, Revision
    <3>4. Base' = [Base EXCEPT ![c] = db.seq + 1]
      BY <1>0, <3>1, <3>3, BaseOfOne
    <3> QED BY <1>a, <2>1, <3>4 DEF Committed
  <2> QED BY <1>a, <2>2, <2>3 DEF ClientCommitted
<1>1. CASE ClientOpen(c)
  <2>1. rev' = [rev EXCEPT ![c] = Revision(db)] /\ db' = db /\ handle' = handle
    BY <1>1 DEF ClientOpen
  <2>2. \A p \in Procs \ {c} : Base'[p] = Base[p]
    BY <1>0, <2>1 DEF Base
  <2>3. Base'[c] = db.seq
    BY <1>0, <2>1 DEF Base, Revision
  <2> QED BY <1>0, <2>1, <2>2, <2>3, BaseOfOne DEF Observed
<1>2. CASE ClientPatch(c)
  <2>1. db'.seq = db.seq + 1 /\ db' \in Databases
    BY <1>0, <1>2, PatchTxnType DEF ClientPatch
  <2> QED BY <1>2, <1>a, <2>1 DEF ClientPatch, Databases
<1>3. ASSUME NEW g \in GenIds, ClientReplace(c, g)
      PROVE  Committed(c)
  <2>1. disk[Gen(g)].records \in Contents /\ g \in 0..MaxGen
    BY BoundAssumption DEF CasInv, TypeOK, Gen, Paths, GenIds
  <2>2. (db.payload \ Writers) \cup disk[Gen(g)].records \in SUBSET (Writers \cup Clients)
    BY <1>0, <2>1 DEF Databases, Contents
  <2>3. db'.seq = db.seq + 1 /\ db' \in Databases
    BY <1>0, <1>3, <2>1, <2>2, SnapshotTxnType DEF ClientReplace
  <2> QED BY <1>3, <1>a, <2>3 DEF ClientReplace, Databases
<1> QED BY <1>1, <1>2, <1>3

\* A dead process at most loses its base.
LEMMA CrashRefines ==
  ASSUME CasInv, NEW p \in Procs, Crash(p)
  PROVE  Forgotten(p) \/ Stuttered
<1>1. CASE p \in Writers
  <2>1. Base'[p] = 0
    BY <1>1 DEF Crash, Base, NoHandle, NoRevision
  <2>2. \A q \in Procs \ {p} : Base'[q] = Base[q]
    BY DEF Crash, Base
  <2> QED BY <2>1, <2>2, BaseOfOne DEF Forgotten, Crash
<1>2. CASE p \notin Writers
  <2>1. Base' = Base
    BY <1>2 DEF Crash, Base
  <2> QED BY <2>1 DEF Stuttered, Crash
<1> QED BY <1>1, <1>2

\* The adapter store implements VersionedStore: whatever loads, saves, commits,
\* gc runs, crashes and refused opens interleave, a commit succeeds only from
\* the store's current revision and takes the next sequence number.
THEOREM StoreKeepsPromise == Spec => KeepsPromise
<1>1. Init => Promise!Init
  BY DEF Init, Promise!Init, EmptyDb, NoHandle, NoRevision, Procs
<1>2. Init => CasInv
  <2>1. Init => TypeOK /\ LockDiscipline
    BY TypeInit, LockInit
  <2>2. Init => FirstCommit
    BY DEF Init, FirstCommit, EmptyDb, NoHandle, NoRevision, Procs
  <2> QED BY <2>1, <2>2 DEF CasInv
<1>3. CasInv /\ [Next]_vars => CasInv'
  BY TypeStep, LockStep, FirstCommitStep DEF CasInv
<1>4. CasInv /\ [Next]_vars => [Promise!Next]_<<db.seq, db.payload, Base>>
  <2> SUFFICES ASSUME CasInv, [Next]_vars
               PROVE  Promise!Next \/ Stuttered
    BY DEF Stuttered
  <2>1. ASSUME NEW s \in Procs, Observed(s) \/ Forgotten(s) \/ Committed(s)
        PROVE  Promise!Next
    <3>1. CASE Observed(s)
      BY <3>1 DEF Observed, Base, Promise!Next, Promise!Observe
    <3>2. CASE Forgotten(s)
      BY <3>2 DEF Forgotten, Base, Promise!Next, Promise!Forget
    <3>3. CASE Committed(s)
      BY <3>3 DEF Committed, Base, Promise!Next, Promise!Commit
    <3> QED BY <2>1, <3>1, <3>2, <3>3
  <2>2. Writers \cup Clients \cup Collectors = Procs
    BY DEF Procs
  <2>3. ASSUME NEW n \in GenIds, TogglePin(n)
        PROVE  Stuttered
    BY <2>3 DEF TogglePin, Stuttered, Base
  <2>4. CASE Next
    BY <2>1, <2>2, <2>3, <2>4, WriterRefines, ClientRefines, CollectorRefines, CrashRefines
    DEF Next
  <2>5. CASE UNCHANGED vars
    BY <2>5 DEF vars, Stuttered, Base
  <2> QED BY <2>4, <2>5
<1> QED BY <1>1, <1>2, <1>3, <1>4, PTL DEF Spec, KeepsPromise, Promise!Spec, Base

-----------------------------------------------------------------------------
(* What a save may rely on while it holds the writer lock                  *)

\* A file without its first transaction is empty.
DbInv ==
  /\ db.file # "ok" => db = [EmptyDb EXCEPT !.file = db.file]
  /\ db.file = "ok" => db.seq > 0

\* Who may change adapter.redb, and what was verified before.
Snapshots(w) ==
  /\ pc[w] = "create" \/ (pc[w] = "commit" /\ db.file = "ok" /\ SaveAccepted(w))
  /\ CommitSnapshot(w)
  /\ UNCHANGED <<disk, handle, newGen>>
Patches == \E c \in Clients : db' = PatchTxn(db, c)
Collects ==
  \E paths \in SUBSET Paths, count \in Nat, state \in LifecycleStates :
    db' = GcTxn(db, paths, count, state)
Replaces ==
  \E c \in Republishers, g \in GenIds :
    /\ OnDisk(g) /\ OpenVerifies(g)
    /\ db' = SnapshotTxn(db, g, (db.payload \ Writers) \cup disk[Gen(g)].records,
                         disk[Gen(g)].records)

\* The ledger transactions of a collector start from a verified store.
LEMMA CollectorCommits ==
  ASSUME TypeOK, NEW c \in Collectors, GcOpen(c) \/ GcStep(c)
  PROVE  db' = db \/ (OpenVerifies(0) /\ Collects)
<1>a. \A S \in SUBSET Paths : Cardinality(S) \in Nat
  BY PathsFinite
<1>b. {"reclaimable", "deleting", "deleted"} \subseteq LifecycleStates
  BY DEF LifecycleStates
<1>c. gc[c].reclaim \in SUBSET Paths /\ gc[c].recovered \in SUBSET Paths
      /\ gc[c].deleted \in SUBSET Paths
  BY DEF TypeOK, GcStates
<1>d. ASSUME NEW paths \in SUBSET Paths, NEW count \in Nat, NEW state \in LifecycleStates,
             NEW label, GcRecord(c, paths, count, state, label)
      PROVE  db' = db \/ (OpenVerifies(0) /\ Collects)
  BY <1>d DEF GcRecord, Collects
<1>1. CASE GcOpen(c) \/ GcScan(c) \/ GcAcquire(c) \/ GcLedger(c) \/ GcRecoverCheck(c)
           \/ GcRecoverRemove(c)
           \/ GcDeleteOne(c) \/ GcReport(c)
  BY <1>1 DEF GcOpen, GcScan, GcAcquire, GcLedger, GcRecoverCheck, GcRecoverRemove,
              GcDeleteOne, GcReport
<1>2. CASE GcRecordRecovered(c)
  <2>1. gc[c].recovered \in SUBSET Paths /\ Cardinality(gc[c].recovered) \in Nat
        /\ "deleted" \in LifecycleStates
    BY <1>a, <1>b, <1>c
  <2> QED BY <1>2, <1>d, <2>1 DEF GcRecordRecovered
<1>3. CASE GcRecordReclaimable(c)
  <2>1. gc[c].reclaim \in SUBSET Paths /\ Cardinality(gc[c].reclaim) \in Nat
        /\ "reclaimable" \in LifecycleStates
    BY <1>a, <1>b, <1>c
  <2> QED BY <1>3, <1>d, <2>1 DEF GcRecordReclaimable
<1>4. CASE GcRecordDeleting(c)
  <2>1. gc[c].reclaim \in SUBSET Paths /\ Cardinality(gc[c].reclaim) \in Nat
        /\ "deleting" \in LifecycleStates
    BY <1>a, <1>b, <1>c
  <2> QED BY <1>4, <1>d, <2>1 DEF GcRecordDeleting
<1>5. CASE GcRecordDeleted(c)
  <2>1. /\ gc[c].recovered \cup gc[c].deleted \in SUBSET Paths
        /\ Cardinality(gc[c].recovered) + Cardinality(gc[c].deleted) \in Nat
        /\ "deleted" \in LifecycleStates
    BY <1>a, <1>b, <1>c
  <2> QED BY <1>5, <1>d, <2>1 DEF GcRecordDeleted
<1> QED BY <1>1, <1>2, <1>3, <1>4, <1>5 DEF GcStep

LEMMA StoreStep ==
  ASSUME TypeOK, [Next]_vars
  PROVE  \/ db' = db
         \/ db.file = "absent" /\ db' = [db EXCEPT !.file = "created"]
         \/ \E w \in Writers : Snapshots(w)
         \/ OpenVerifies(0) /\ (Patches \/ Collects)
         \/ Replaces
<1>1. ASSUME NEW w \in Writers, LoadPayloads(w) \/ Add(w) \/ SaveAcquire(w) \/ LoadStep(w)
      PROVE  db' = db
  BY <1>1 DEF LoadPayloads, Add, SaveAcquire, LoadStep, LoadToken, LoadIndex
<1>2. ASSUME NEW w \in Writers, SaveStep(w)
      PROVE  \/ db' = db
             \/ db.file = "absent" /\ db' = [db EXCEPT !.file = "created"]
             \/ Snapshots(w)
  BY <1>2 DEF SaveStep, SaveCheckBase, SaveWriteTemp, SaveRename, SaveIoError, SaveCommit,
              SaveFirstTransaction, SaveVerify, SaveRecover, Snapshots
<1>3. ASSUME NEW c \in Clients, ClientOpen(c) \/ ClientPatch(c)
      PROVE  db' = db \/ (OpenVerifies(0) /\ Patches)
  BY <1>3 DEF ClientOpen, ClientPatch, Patches
<1>4. ASSUME NEW c \in Clients, NEW g \in GenIds, ClientReplace(c, g)
      PROVE  Replaces
  BY <1>4 DEF ClientReplace, Replaces
<1>5. ASSUME NEW n \in GenIds, TogglePin(n)
      PROVE  db' = db
  BY <1>5 DEF TogglePin
<1>6. ASSUME NEW p \in Procs, Crash(p)
      PROVE  db' = db
  BY <1>6 DEF Crash
<1>7. CASE UNCHANGED vars
  BY <1>7 DEF vars
<1> QED BY <1>1, <1>2, <1>3, <1>4, <1>5, <1>6, <1>7, CollectorCommits DEF Next

\* What the transactions do to the parts of the manifest that verification
\* reads.
LEMMA SnapshotParts ==
  ASSUME NEW d \in Databases, NEW g \in 0..MaxGen, NEW edits, NEW digest,
         NEW s, s = SnapshotTxn(d, g, edits, digest)
  PROVE  /\ s.file = "ok" /\ s.seq = d.seq + 1
         /\ s.active = g /\ s.digest = digest /\ s.payload = edits
         /\ s.n_generations = IF g = 0 \/ (d.file = "ok" /\ d.active = g)
                              THEN d.n_generations ELSE d.n_generations + 1
         /\ s.gc_rows = d.gc_rows /\ s.n_gc = d.n_gc
<1> DEFINE a == AuditedCommit(d)
           rows == IF g = 0 THEN a.generations
                   ELSE [n \in GenIds |-> IF n = g THEN ActiveRow
                                          ELSE Retire(a.generations[n], d.seq + 1)]
           count == IF g = 0 \/ (d.file = "ok" /\ d.active = g)
                    THEN a.n_generations ELSE a.n_generations + 1
<1>1. /\ a \in Databases /\ a.seq = d.seq + 1
      /\ a.n_generations = d.n_generations /\ a.gc_rows = d.gc_rows /\ a.n_gc = d.n_gc
  BY AuditedCommitType DEF AuditedCommit, Databases
<1>2. s = [a EXCEPT !.file = "ok", !.active = g, !.digest = digest, !.payload = edits,
                    !.n_generations = count, !.generations = rows]
  BY DEF SnapshotTxn
<1> HIDE DEF a, rows, count
<1>3. /\ s.file = "ok" /\ s.seq = a.seq
      /\ s.active = g /\ s.digest = digest /\ s.payload = edits
      /\ s.n_generations = count /\ s.gc_rows = a.gc_rows /\ s.n_gc = a.n_gc
  BY <1>1, <1>2 DEF Databases
<1> QED BY <1>1, <1>3 DEF count

LEMMA SnapshotRows ==
  ASSUME NEW d \in Databases, NEW g \in 0..MaxGen, NEW edits, NEW digest,
         NEW s, s = SnapshotTxn(d, g, edits, digest)
  PROVE  s.generations = IF g = 0 THEN d.generations
                         ELSE [n \in GenIds |-> IF n = g THEN ActiveRow
                                                ELSE Retire(d.generations[n], d.seq + 1)]
<1> DEFINE a == AuditedCommit(d)
           rows == IF g = 0 THEN a.generations
                   ELSE [n \in GenIds |-> IF n = g THEN ActiveRow
                                          ELSE Retire(a.generations[n], d.seq + 1)]
           count == IF g = 0 \/ (d.file = "ok" /\ d.active = g)
                    THEN a.n_generations ELSE a.n_generations + 1
<1>1. a \in Databases /\ a.generations = d.generations
  BY AuditedCommitType
<1>2. s = [a EXCEPT !.file = "ok", !.active = g, !.digest = digest, !.payload = edits,
                    !.n_generations = count, !.generations = rows]
  BY DEF SnapshotTxn
<1> HIDE DEF a, rows, count
<1>3. s.generations = rows
  BY <1>1, <1>2 DEF Databases
<1> QED BY <1>1, <1>3 DEF rows

LEMMA PatchParts ==
  ASSUME NEW d \in Databases, NEW c,
         NEW s, s = PatchTxn(d, c)
  PROVE  /\ s.file = d.file /\ s.seq = d.seq + 1
         /\ s.active = d.active /\ s.digest = d.digest /\ s.payload = d.payload \cup {c}
         /\ s.n_generations = d.n_generations /\ s.generations = d.generations
         /\ s.gc_rows = d.gc_rows /\ s.n_gc = d.n_gc
BY AuditedCommitType DEF PatchTxn, AuditedCommit, Databases

LEMMA GcParts ==
  ASSUME NEW d \in Databases, NEW paths, NEW count, NEW state,
         NEW s, s = GcTxn(d, paths, count, state)
  PROVE  /\ s.file = d.file /\ s.seq = d.seq + 1
         /\ s.active = d.active /\ s.digest = d.digest /\ s.payload = d.payload
         /\ s.n_generations = d.n_generations /\ s.generations = d.generations
         /\ s.gc_rows = d.gc_rows \cup ((d.n_gc + 1)..(d.n_gc + count))
         /\ s.n_gc = d.n_gc + count
<1> DEFINE a == AuditedCommit(d)
           latest == [p \in Paths |-> IF p \in paths THEN state ELSE a.gc_latest[p]]
<1>1. /\ a \in Databases /\ a.seq = d.seq + 1 /\ a.file = d.file /\ a.active = d.active
      /\ a.digest = d.digest /\ a.payload = d.payload /\ a.generations = d.generations
      /\ a.n_generations = d.n_generations /\ a.gc_rows = d.gc_rows /\ a.n_gc = d.n_gc
  BY AuditedCommitType DEF AuditedCommit, Databases
<1>2. s =
        [a EXCEPT !.gc_rows = @ \cup ((d.n_gc + 1)..(d.n_gc + count)),
                  !.n_gc = @ + count, !.gc_latest = latest]
  BY DEF GcTxn
<1> HIDE DEF a, latest
<1> QED BY <1>1, <1>2 DEF Databases

\* The snapshot of a save and that of a republishing client.
LEMMA SaveSnapshot ==
  ASSUME TypeOK, NEW w \in Writers, Snapshots(w)
  PROVE  db'.file = "ok" /\ db'.seq = db.seq + 1 /\ db'.active = newGen[w]
<1>1. db \in Databases /\ newGen[w] \in 0..MaxGen /\ db.seq \in Nat
  BY DEF TypeOK, Databases
<1>2. PICK digest : db' = SnapshotTxn(db, newGen[w], handle[w].edits, digest)
  BY DEF Snapshots, CommitSnapshot
<1> QED BY <1>1, <1>2, SnapshotParts

LEMMA ReplaceSnapshot ==
  ASSUME TypeOK, Replaces
  PROVE  db'.file = "ok" /\ db'.seq = db.seq + 1
<1>1. db \in Databases /\ db.seq \in Nat
  BY DEF TypeOK, Databases
<1>2. PICK g \in GenIds : OnDisk(g) /\ OpenVerifies(g)
        /\ db' = SnapshotTxn(db, g, (db.payload \ Writers) \cup disk[Gen(g)].records,
                             disk[Gen(g)].records)
  BY DEF Replaces
<1>3. g \in 0..MaxGen
  BY BoundAssumption DEF GenIds
<1> QED BY <1>1, <1>2, <1>3, SnapshotParts

LEMMA DbInvStep == CasInv /\ DbInv /\ [Next]_vars => DbInv'
<1> SUFFICES ASSUME CasInv, DbInv, [Next]_vars
             PROVE  DbInv'
  OBVIOUS
<1>0. db \in Databases /\ newGen \in [Writers -> 0..MaxGen] /\ db.seq \in Nat
  BY DEF CasInv, TypeOK, Databases
<1>a. ASSUME db'.file = "ok", db'.seq = db.seq + 1 PROVE DbInv'
  BY <1>0, <1>a DEF DbInv
<1>1. CASE db' = db
  BY <1>1 DEF DbInv
<1>2. CASE db.file = "absent" /\ db' = [db EXCEPT !.file = "created"]
  <2>1. db'.file = "created" /\ db = [EmptyDb EXCEPT !.file = "absent"]
    BY <1>0, <1>2 DEF DbInv, Databases
  <2>2. db' = [EmptyDb EXCEPT !.file = "created"]
    BY <1>2, <2>1 DEF EmptyDb
  <2> QED BY <2>1, <2>2 DEF DbInv
<1>3. ASSUME NEW w \in Writers, Snapshots(w) PROVE DbInv'
  BY <1>3, <1>a, SaveSnapshot DEF CasInv
<1>4. CASE OpenVerifies(0) /\ (Patches \/ Collects)
  BY <1>0, <1>4, <1>a, VerifiedFile, PatchParts, GcParts DEF Patches, Collects
<1>5. CASE Replaces
  BY <1>5, <1>a, ReplaceSnapshot DEF CasInv
<1> QED BY <1>1, <1>2, <1>3, <1>4, <1>5, StoreStep DEF CasInv

\* A step of somebody else than writer w.
WriterStep(w) == LoadPayloads(w) \/ Add(w) \/ SaveAcquire(w) \/ LoadStep(w) \/ SaveStep(w)
OthersStep(w) ==
  \/ \E v \in Writers \ {w} : WriterStep(v)
  \/ \E c \in Clients : ClientOpen(c) \/ ClientPatch(c)
  \/ \E c \in Clients, g \in GenIds : ClientReplace(c, g)
  \/ \E c \in Collectors : GcOpen(c) \/ GcStep(c)
  \/ \E n \in GenIds : TogglePin(n)
  \/ \E p \in Procs \ {w} : Crash(p)
  \/ UNCHANGED vars

\* Nothing of w's own changes in it, and while w holds the writer lock neither
\* do the store and its directory.
LEMMA HolderAlone ==
  ASSUME CasInv, NEW w \in Writers, OthersStep(w)
  PROVE  /\ pc'[w] = pc[w] /\ handle'[w] = handle[w] /\ newGen'[w] = newGen[w]
         /\ published'[w] = published[w] /\ outcome'[w] = outcome[w]
         /\ pc[w] \in WriterLabels => db' = db /\ disk' = disk
<1>0. /\ w \in Procs /\ pc \in [Procs -> Labels] /\ handle \in [Writers -> Handles]
      /\ newGen \in [Writers -> 0..MaxGen] /\ outcome \in [Procs -> Outcomes]
      /\ published \in [Writers -> BOOLEAN]
  BY DEF CasInv, TypeOK, Procs
<1>a. pc[w] \in WriterLabels => lock = w /\ lock # NoProc
  BY <1>0, ProcAssumption DEF CasInv, LockDiscipline, LockedLabels
<1>1. ASSUME NEW v \in Writers \ {w}, WriterStep(v)
      PROVE  /\ pc'[w] = pc[w] /\ handle'[w] = handle[w] /\ newGen'[w] = newGen[w]
             /\ published'[w] = published[w] /\ outcome'[w] = outcome[w]
             /\ pc[w] \in WriterLabels => db' = db /\ disk' = disk
  <2>1. pc'[w] = pc[w] /\ outcome'[w] = outcome[w]
    BY <1>0, <1>1
    DEF WriterStep, LoadPayloads, Add, SaveAcquire, LoadStep, LoadToken, LoadIndex, SaveStep,
        SaveCheckBase, SaveWriteTemp, SaveRename, SaveIoError, SaveCommit,
        SaveFirstTransaction, SaveVerify, SaveRecover, ReportSaved, CommitSnapshot, Finish, Goto
  <2>2. handle'[w] = handle[w] /\ newGen'[w] = newGen[w] /\ published'[w] = published[w]
    BY <1>0, <1>1
    DEF WriterStep, LoadPayloads, Add, SaveAcquire, LoadStep, LoadToken, LoadIndex, SaveStep,
        SaveCheckBase, SaveWriteTemp, SaveRename, SaveIoError, SaveCommit,
        SaveFirstTransaction, SaveVerify, SaveRecover, ReportSaved, CommitSnapshot
  <2>3. ASSUME pc[w] \in WriterLabels PROVE db' = db /\ disk' = disk
    <3>1. v \in Procs /\ pc[v] \notin LockedLabels
      BY <1>0, <2>3, OneLocked DEF CasInv, LockedLabels, Procs
    <3>2. ~SaveStep(v)
      BY <3>1 DEF SaveStep, SaveCheckBase, SaveWriteTemp, SaveRename, SaveIoError, SaveCommit,
                  SaveFirstTransaction, SaveVerify, SaveRecover, LockedLabels, WriterLabels
    <3> QED BY <1>1, <3>2 DEF WriterStep, LoadPayloads, Add, SaveAcquire, LoadStep, LoadToken,
                              LoadIndex
  <2> QED BY <2>1, <2>2, <2>3
<1>2. ASSUME NEW c \in Clients, ClientOpen(c) \/ ClientPatch(c)
      PROVE  /\ pc'[w] = pc[w] /\ handle'[w] = handle[w] /\ newGen'[w] = newGen[w]
             /\ published'[w] = published[w] /\ outcome'[w] = outcome[w]
             /\ pc[w] \in WriterLabels => db' = db /\ disk' = disk
  BY <1>2, <1>a DEF ClientOpen, ClientPatch
<1>3. ASSUME NEW c \in Clients, NEW g \in GenIds, ClientReplace(c, g)
      PROVE  /\ pc'[w] = pc[w] /\ handle'[w] = handle[w] /\ newGen'[w] = newGen[w]
             /\ published'[w] = published[w] /\ outcome'[w] = outcome[w]
             /\ pc[w] \in WriterLabels => db' = db /\ disk' = disk
  BY <1>3, <1>a DEF ClientReplace
<1>4. ASSUME NEW c \in Collectors, GcOpen(c) \/ GcStep(c)
      PROVE  /\ pc'[w] = pc[w] /\ handle'[w] = handle[w] /\ newGen'[w] = newGen[w]
             /\ published'[w] = published[w] /\ outcome'[w] = outcome[w]
             /\ pc[w] \in WriterLabels => db' = db /\ disk' = disk
  <2>1. c \in Procs /\ c # w
    BY ProcAssumption DEF Procs
  <2>2. pc'[w] = pc[w] /\ outcome'[w] = outcome[w]
    BY <1>0, <1>4, <2>1
    DEF GcOpen, GcStep, GcScan, GcAcquire, GcLedger, GcRecoverCheck, GcRecoverRemove,
        GcRecordRecovered,
        GcRecordReclaimable, GcRecordDeleting, GcDeleteOne, GcRecordDeleted, GcReport,
        GcRecord, Finish, Goto
  <2>3. handle' = handle /\ newGen' = newGen /\ published' = published
    BY <1>4
    DEF GcOpen, GcStep, GcScan, GcAcquire, GcLedger, GcRecoverCheck, GcRecoverRemove,
        GcRecordRecovered,
        GcRecordReclaimable, GcRecordDeleting, GcDeleteOne, GcRecordDeleted, GcReport,
        GcRecord, gcUnchanged
  <2>4. ASSUME pc[w] \in WriterLabels PROVE db' = db /\ disk' = disk
    <3>1. pc[c] \notin LockedLabels
      BY <1>0, <2>1, <2>4, OneLocked DEF CasInv, LockedLabels
    <3>2. GcOpen(c) \/ GcScan(c) \/ GcAcquire(c)
      BY <1>4, <3>1
      DEF GcStep, GcLedger, GcRecoverCheck, GcRecoverRemove,
          GcRecordRecovered, GcRecordReclaimable,
          GcRecordDeleting, GcDeleteOne, GcRecordDeleted, GcReport, LockedLabels, CollectorLabels
    <3> QED BY <3>2 DEF GcOpen, GcScan, GcAcquire
  <2> QED BY <2>2, <2>3, <2>4
<1>5. ASSUME NEW n \in GenIds, TogglePin(n)
      PROVE  /\ pc'[w] = pc[w] /\ handle'[w] = handle[w] /\ newGen'[w] = newGen[w]
             /\ published'[w] = published[w] /\ outcome'[w] = outcome[w]
             /\ pc[w] \in WriterLabels => db' = db /\ disk' = disk
  BY <1>5 DEF TogglePin
<1>6. ASSUME NEW p \in Procs \ {w}, Crash(p)
      PROVE  /\ pc'[w] = pc[w] /\ handle'[w] = handle[w] /\ newGen'[w] = newGen[w]
             /\ published'[w] = published[w] /\ outcome'[w] = outcome[w]
             /\ pc[w] \in WriterLabels => db' = db /\ disk' = disk
  BY <1>0, <1>6 DEF Crash, Finish, Goto
<1>7. CASE UNCHANGED vars
  BY <1>7 DEF vars
<1> QED BY <1>1, <1>2, <1>3, <1>4, <1>5, <1>6, <1>7 DEF OthersStep

LEMMA OwnOrOthers ==
  ASSUME [Next]_vars, NEW w \in Writers
  PROVE  WriterStep(w) \/ Crash(w) \/ OthersStep(w)
BY DEF Next, OthersStep, WriterStep

-----------------------------------------------------------------------------
(* The verdict of a save                                                   *)

\* The part of SaveAccepted that is about the snapshot itself
SnapshotReady(w) ==
  IF newGen[w] = 0
    THEN GensOnDisk = {} /\ Records(handle[w].edits) = {}
    ELSE /\ OnDisk(newGen[w])
         /\ Cardinality(disk[Gen(newGen[w])].records) = Cardinality(Records(handle[w].edits))

\* The store is what the save just made it.
Landed(w) ==
  /\ published[w]
  /\ db.file = "ok" /\ db.active = newGen[w] /\ db.payload = handle[w].edits
  /\ GenerationVerifies(db, 0) /\ GenerationRecordsMatch(db)
  /\ handle[w].token.seq < db.seq

BaseHolds(w) == handle[w].token = Revision(db)

\* How far a save is, and what that means for the store.
Saving(w) ==
  /\ pc[w] \in WriterLabels => outcome[w] = "none"
  /\ pc[w] \in {"fresh", "temp", "rename", "commit", "create"} => ~published[w]
  /\ pc[w] \in {"temp", "rename", "commit"} => db.file = "absent" \/ BaseHolds(w)
  /\ pc[w] = "create" => SnapshotReady(w)
  /\ pc[w] = "verify" => Landed(w)
  /\ pc[w] = "recover" => Landed(w) \/ (~published[w] /\ BaseHolds(w))
  /\ published[w] => db.file = "ok"

Verdict(w) ==
  /\ outcome[w] = "saved" => published[w]
  /\ outcome[w] = "retry_safe" => ~published[w]
  /\ outcome[w] = "failed" => ~published[w] \/ ~TableCountsMatch(db)
  /\ outcome[w] = "late_error" => published[w]

\* A handle has every edit of the revision its payloads came from.
Sourced(w) ==
  /\ handle[w].src.seq <= db.seq
  /\ handle[w].src.seq = db.seq => db.payload \subseteq handle[w].edits

WInv == CasInv /\ DbInv /\ \A w \in Writers : Saving(w) /\ Verdict(w) /\ Sourced(w)

\* The snapshot transaction of an accepted save leaves a store that verifies,
\* table counts aside.
LEMMA SnapshotLands ==
  ASSUME CasInv, DbInv, NEW w \in Writers, CommitSnapshot(w), SnapshotReady(w),
         \/ db.file = "created"
         \/ db.file = "ok" /\ OpenVerifies(newGen[w]) /\ BaseHolds(w),
         disk' = disk, handle' = handle, newGen' = newGen
  PROVE  Landed(w)' /\ db'.seq = db.seq + 1
<1> DEFINE g == newGen[w]
           digest == IF g = 0 THEN {} ELSE disk[Gen(g)].records
<1>0. /\ db \in Databases /\ db.seq \in Nat /\ g \in 0..MaxGen /\ (g = 0 \/ g \in GenIds)
      /\ handle[w] \in Handles /\ published \in [Writers -> BOOLEAN]
      /\ db.generations \in [GenIds -> Rows] /\ db.active \in 0..MaxGen
  BY BoundAssumption DEF CasInv, TypeOK, Databases, GenIds
<1>1. db' = SnapshotTxn(db, g, handle[w].edits, digest) /\ published'[w]
  BY <1>0 DEF CommitSnapshot
<1> HIDE DEF digest
<1>2. /\ db'.file = "ok" /\ db'.seq = db.seq + 1 /\ db'.active = g /\ db'.digest = digest
      /\ db'.payload = handle[w].edits
      /\ db'.generations = IF g = 0 THEN db.generations
                           ELSE [n \in GenIds |-> IF n = g THEN ActiveRow
                                                  ELSE Retire(db.generations[n], db.seq + 1)]
  BY <1>0, <1>1, SnapshotParts, SnapshotRows
<1>3. GenerationVerifies(db, 0)'
  <2>1. CASE g = 0
    BY <1>2, <2>1 DEF SnapshotReady, GenerationVerifies, GensOnDisk, OnDisk
  <2>2. CASE g # 0
    BY <1>2, <2>2 DEF SnapshotReady, GenerationVerifies, OnDisk, digest
  <2> QED BY <2>1, <2>2
<1>4. GenerationRecordsMatch(db')
  <2>1. CASE g # 0
    <3>1. \A n \in GenIds : Retire(db.generations[n], db.seq + 1).state # "active"
      BY <1>0 DEF Rows, Retire
    <3>2. \A n \in GenIds : db'.generations[n].state = "active" <=> n = g
      BY <1>2, <2>1, <3>1 DEF ActiveRow
    <3> QED BY <1>0, <1>2, <2>1, <3>2 DEF GenerationRecordsMatch, ActiveRows
  <2>2. CASE g = 0
    <3>1. ActiveRows(db) = {}
      <4>1. CASE db.file = "created"
        <5>1. \A n \in GenIds : db.generations[n].state = "none"
          BY <4>1 DEF DbInv, EmptyDb, NoRow
        <5> QED BY <5>1 DEF ActiveRows
      <4>2. CASE OpenVerifies(g)
        <5>1. GensOnDisk = {}
          BY <2>2 DEF SnapshotReady
        <5>2. db.active = 0
          <6>1. db.active # 0 => db.active \in GensOnDisk
            BY <1>0, <4>2, BoundAssumption DEF OpenVerifies, GenerationVerifies, GensOnDisk, GenIds
          <6> QED BY <5>1, <6>1
        <5> QED BY <4>2, <5>2 DEF OpenVerifies, GenerationRecordsMatch
      <4> QED BY <4>1, <4>2
    <3> QED BY <1>2, <2>2, <3>1 DEF GenerationRecordsMatch, ActiveRows
  <2> QED BY <2>1, <2>2
<1>5. handle[w].token.seq < db.seq + 1
  <2>1. CASE db.file = "created"
    BY <1>0, <2>1 DEF CasInv, FirstCommit
  <2>2. CASE BaseHolds(w)
    BY <1>0, <2>2 DEF BaseHolds, Revision
  <2> QED BY <2>1, <2>2
<1> QED BY <1>1, <1>2, <1>3, <1>4, <1>5 DEF Landed

\* A commit that raises the sequence number finds the tables counted, unless
\* it is the first.
LEMMA DbMoves ==
  ASSUME WInv, [Next]_vars
  PROVE  /\ db.file = "ok" => db'.file = "ok"
         /\ db' = db \/ db'.seq = db.seq + 1 \/ db.file = "absent"
         /\ db' = db \/ TableCountsMatch(db) \/ db.file # "ok"
         /\ db.file = "absent" /\ db' # db =>
              db'.seq = db.seq /\ db'.payload = db.payload
<1>0. /\ db \in Databases /\ newGen \in [Writers -> 0..MaxGen]
  BY DEF WInv, CasInv, TypeOK
<1>1. CASE db' = db
  BY <1>1
<1>2. CASE db.file = "absent" /\ db' = [db EXCEPT !.file = "created"]
  <2>1. db'.seq = db.seq /\ db'.payload = db.payload
    BY <1>0, <1>2 DEF Databases
  <2> QED BY <1>2, <2>1
<1>3. ASSUME NEW w \in Writers, Snapshots(w)
      PROVE  /\ db'.file = "ok" /\ db'.seq = db.seq + 1 /\ db.file # "absent"
             /\ TableCountsMatch(db) \/ db.file # "ok"
  <2>1. db'.file = "ok" /\ db'.seq = db.seq + 1
    BY <1>3, SaveSnapshot DEF WInv, CasInv
  <2>2. CASE pc[w] = "create"
    BY <2>1, <2>2 DEF WInv, CasInv, FirstCommit
  <2>3. CASE db.file = "ok" /\ SaveAccepted(w)
    BY <2>1, <2>3 DEF SaveAccepted, OpenVerifies
  <2> QED BY <1>3, <2>2, <2>3 DEF Snapshots
<1>4. CASE OpenVerifies(0) /\ (Patches \/ Collects)
  <2>1. db.file = "ok" /\ TableCountsMatch(db)
    BY <1>4 DEF OpenVerifies
  <2>2. db'.file = "ok" /\ db'.seq = db.seq + 1
    BY <1>0, <1>4, <2>1, PatchParts, GcParts DEF Patches, Collects
  <2> QED BY <2>1, <2>2
<1>5. CASE Replaces
  <2>1. PICK g \in GenIds : OpenVerifies(g)
    BY <1>5 DEF Replaces
  <2>2. db'.file = "ok" /\ db'.seq = db.seq + 1
    BY <1>5, ReplaceSnapshot DEF WInv, CasInv
  <2> QED BY <2>1, <2>2 DEF OpenVerifies
<1> QED BY <1>1, <1>2, <1>3, <1>4, <1>5, StoreStep DEF WInv, CasInv

\* A handle that keeps its payloads and their revision stays sourced.
LEMMA SourceStays ==
  ASSUME WInv, [Next]_vars, NEW w \in Writers,
         handle'[w].src = handle[w].src, handle[w].edits \subseteq handle'[w].edits
  PROVE  Sourced(w)'
<1>0. /\ db \in Databases /\ db.seq \in Nat /\ handle[w].src.seq \in Nat
      /\ handle[w].src.seq <= db.seq
      /\ handle[w].src.seq = db.seq => db.payload \subseteq handle[w].edits
  BY DEF WInv, CasInv, TypeOK, Databases, Handles, Revisions, Sourced
<1>1. CASE db' = db
  BY <1>0, <1>1 DEF Sourced
<1>2. CASE db'.seq = db.seq + 1
  BY <1>0, <1>2 DEF Sourced
<1>3. CASE db'.seq = db.seq /\ db'.payload = db.payload
  BY <1>0, <1>3 DEF Sourced
<1> QED BY <1>1, <1>2, <1>3, DbMoves

\* A step of another process leaves a writer's save where it was.
LEMMA OthersWInv ==
  ASSUME WInv, [Next]_vars, NEW w \in Writers, OthersStep(w)
  PROVE  Saving(w)' /\ Verdict(w)' /\ Sourced(w)'
<1>1. /\ pc'[w] = pc[w] /\ handle'[w] = handle[w] /\ newGen'[w] = newGen[w]
      /\ published'[w] = published[w] /\ outcome'[w] = outcome[w]
      /\ pc[w] \in WriterLabels => db' = db /\ disk' = disk
  BY HolderAlone DEF WInv
<1>2. Sourced(w)'
  BY <1>1, SourceStays
<1>3. Verdict(w)'
  <2>1. published[w] => db.file = "ok"
    BY DEF WInv, Saving
  <2>2. published[w] /\ ~TableCountsMatch(db) => db' = db
    BY <2>1, DbMoves
  <2>3. db' = db => (TableCountsMatch(db') <=> TableCountsMatch(db))
    OBVIOUS
  <2> QED BY <1>1, <2>2, <2>3 DEF WInv, Verdict
<1>4. Saving(w)'
  <2>1. published'[w] => db'.file = "ok"
    BY <1>1, DbMoves DEF WInv, Saving
  <2>2. CASE pc[w] \in WriterLabels
    <3>1. db' = db /\ disk' = disk
      BY <1>1, <2>2
    <3>2. BaseHolds(w)' <=> BaseHolds(w)
      BY <1>1, <3>1 DEF BaseHolds
    <3>3. SnapshotReady(w)' <=> SnapshotReady(w)
      BY <1>1, <3>1 DEF SnapshotReady, GensOnDisk, OnDisk
    <3>4. Landed(w)' <=> Landed(w)
      <4>1. GenerationVerifies(db, 0)' <=> GenerationVerifies(db, 0)
        BY <3>1 DEF GenerationVerifies, GensOnDisk, OnDisk
      <4> QED BY <1>1, <3>1, <4>1 DEF Landed
    <3> QED BY <1>1, <2>1, <3>1, <3>2, <3>3, <3>4 DEF WInv, Saving
  <2>3. CASE pc[w] \notin WriterLabels
    BY <1>1, <2>1, <2>3 DEF Saving, WriterLabels
  <2> QED BY <2>2, <2>3
<1> QED BY <1>2, <1>3, <1>4

\* The writer's own loads and additions leave its verdict alone and its
\* handle sourced.
LEMMA OwnLoad ==
  ASSUME WInv, [Next]_vars, NEW w \in Writers,
         LoadPayloads(w) \/ Add(w) \/ LoadStep(w)
  PROVE  Saving(w)' /\ Verdict(w)' /\ Sourced(w)'
<1>0. /\ w \in Procs /\ pc \in [Procs -> Labels] /\ handle \in [Writers -> Handles]
      /\ outcome \in [Procs -> Outcomes] /\ db \in Databases /\ db.seq \in Nat
      /\ handle[w].src.seq \in Nat
  BY DEF WInv, CasInv, TypeOK, Procs, Databases, Handles, Revisions
<1>a. db.seq = 0 => db.payload = {}
  BY DEF WInv, DbInv, EmptyDb
<1>b. /\ db' = db /\ published' = published
      /\ pc'[w] \notin WriterLabels
      /\ outcome'[w] \in {outcome[w], "none", "loaded", "load_failed"}
  <2>1. db' = db /\ published' = published
    BY DEF LoadPayloads, Add, LoadStep, LoadToken, LoadIndex
  <2>2. pc'[w] \notin WriterLabels
    BY <1>0 DEF LoadPayloads, Add, LoadStep, LoadToken, LoadIndex, Goto, WriterLabels
  <2>3. outcome'[w] \in {outcome[w], "none", "loaded", "load_failed"}
    BY <1>0 DEF LoadPayloads, Add, LoadStep, LoadToken, LoadIndex
  <2> QED BY <2>1, <2>2, <2>3
<1>c. ASSUME handle'[w] = NoHandle PROVE Sourced(w)'
  BY <1>0, <1>a, <1>b, <1>c DEF Sourced, NoHandle, NoRevision
<1>1. Saving(w)'
  BY <1>b DEF Saving, WriterLabels, WInv
<1>2. Verdict(w)'
  <2>1. TableCountsMatch(db') <=> TableCountsMatch(db)
    BY <1>b
  <2> QED BY <1>b, <2>1 DEF Verdict, WInv
<1>3. Sourced(w)'
  <2>1. CASE LoadPayloads(w)
    <3>1. handle'[w] = [NoHandle EXCEPT !.edits = db.payload, !.src = Revision(db)]
      BY <1>0, <2>1 DEF LoadPayloads
    <3>2. handle'[w].src.seq = db.seq /\ handle'[w].edits = db.payload
      BY <3>1 DEF NoHandle, Revision
    <3> QED BY <1>0, <1>b, <3>2 DEF Sourced
  <2>2. CASE Add(w)
    <3>1. handle'[w].src = handle[w].src /\ handle[w].edits \subseteq handle'[w].edits
      BY <1>0, <2>2 DEF Add, Handles
    <3> QED BY <3>1, SourceStays
  <2>3. CASE LoadToken(w)
    <3>1. \/ handle'[w] = NoHandle
          \/ handle'[w].src = handle[w].src /\ handle'[w].edits = handle[w].edits
      BY <1>0, <2>3 DEF LoadToken, Handles
    <3> QED BY <1>c, <3>1, SourceStays
  <2>4. CASE LoadIndex(w)
    <3>1. \/ handle'[w] = NoHandle
          \/ handle'[w].src = handle[w].src /\ handle'[w].edits = handle[w].edits
      BY <1>0, <2>4 DEF LoadIndex, Handles
    <3> QED BY <1>c, <3>1, SourceStays
  <2> QED BY <2>1, <2>2, <2>3, <2>4 DEF LoadStep
<1> QED BY <1>1, <1>2, <1>3

\* A reported success: the handle now comes from the revision it committed.
LEMMA Reported ==
  ASSUME WInv, NEW w \in Writers, Landed(w), ReportSaved(w), db' = db, published' = published
  PROVE  Saving(w)' /\ Verdict(w)' /\ Sourced(w)'
<1>0. /\ w \in Procs /\ pc \in [Procs -> Labels] /\ handle \in [Writers -> Handles]
      /\ outcome \in [Procs -> Outcomes] /\ db \in Databases /\ db.seq \in Nat
  BY DEF WInv, CasInv, TypeOK, Procs, Databases
<1>1. pc'[w] = "idle" /\ outcome'[w] = "saved" /\ published'[w] /\ db.file = "ok"
  BY <1>0 DEF ReportSaved, Finish, Goto, Landed
<1>2. handle'[w].src.seq = db.seq /\ handle'[w].edits = handle[w].edits
  BY <1>0 DEF ReportSaved, Handles, Revision
<1> QED BY <1>0, <1>1, <1>2 DEF Saving, Verdict, Sourced, WriterLabels, Landed

\* A save that stops without a success reports what became of its snapshot.
LEMMA Stopped ==
  ASSUME WInv, NEW w \in Writers,
         NEW result \in {"failed", "retry_safe", "unknown", "late_error", "none"},
         Finish(w, result), db' = db, published' = published,
         result = "failed" => ~published[w] \/ ~TableCountsMatch(db),
         result = "retry_safe" => ~published[w],
         result = "late_error" => published[w]
  PROVE  Saving(w)' /\ Verdict(w)'
<1>0. w \in Procs /\ pc \in [Procs -> Labels] /\ outcome \in [Procs -> Outcomes]
  BY DEF WInv, CasInv, TypeOK, Procs
<1>1. pc'[w] = "idle" /\ outcome'[w] = result
  BY <1>0 DEF Finish, Goto
<1>2. TableCountsMatch(db') <=> TableCountsMatch(db)
  OBVIOUS
<1>3. Verdict(w)'
  BY <1>1, <1>2 DEF Verdict
<1>4. Saving(w)'
  BY <1>1 DEF Saving, WriterLabels, WInv
<1> QED BY <1>3, <1>4

\* The snapshot transaction, into a new store or an accepted one.
LEMMA SnapshotSaves ==
  ASSUME WInv, NEW w \in Writers, CommitSnapshot(w), SnapshotReady(w),
         pc[w] \in WriterLabels,
         \/ db.file = "created"
         \/ db.file = "ok" /\ OpenVerifies(newGen[w]) /\ BaseHolds(w),
         disk' = disk, handle' = handle, newGen' = newGen, outcome' = outcome
  PROVE  Saving(w)' /\ Verdict(w)'
<1>0. w \in Procs /\ pc \in [Procs -> Labels]
  BY DEF WInv, CasInv, TypeOK, Procs
<1>1. pc'[w] = "verify" /\ outcome'[w] = "none"
  BY <1>0 DEF CommitSnapshot, Goto, WInv, Saving
<1>2. Landed(w)'
  BY SnapshotLands DEF WInv
<1> QED BY <1>1, <1>2 DEF Saving, Verdict, Landed

\* The writer's own saves keep its verdict true.
LEMMA OwnSave ==
  ASSUME WInv, [Next]_vars, NEW w \in Writers, SaveAcquire(w) \/ SaveStep(w)
  PROVE  Saving(w)' /\ Verdict(w)' /\ Sourced(w)'
<1>0. /\ w \in Procs /\ pc \in [Procs -> Labels] /\ handle \in [Writers -> Handles]
      /\ outcome \in [Procs -> Outcomes] /\ published \in [Writers -> BOOLEAN]
      /\ newGen \in [Writers -> 0..MaxGen]
      /\ db \in Databases /\ db.seq \in Nat
  BY DEF WInv, CasInv, TypeOK, Procs, Databases
<1>a. ASSUME handle' = handle PROVE Sourced(w)'
  BY <1>a, SourceStays
<1>b. Saving(w) /\ Verdict(w) /\ Sourced(w)
  BY DEF WInv
<1>c. ASSUME db' = db, handle' = handle, newGen' = newGen, outcome' = outcome,
             published' = published, pc[w] \in WriterLabels,
             NEW label \in {"temp", "rename", "commit", "recover"}, Goto(w, label),
             label # "recover" => ~published[w] /\ (db.file = "absent" \/ BaseHolds(w)),
             label = "recover" => ~published[w] /\ BaseHolds(w)
      PROVE  Saving(w)' /\ Verdict(w)' /\ Sourced(w)'
  <2>1. pc'[w] = label
    BY <1>0, <1>c DEF Goto
  <2>2. BaseHolds(w)' <=> BaseHolds(w)
    BY <1>c DEF BaseHolds
  <2>3. outcome'[w] = "none" /\ published'[w] = published[w] /\ db' = db
    BY <1>b, <1>c DEF Saving
  <2>4. Saving(w)'
    BY <1>b, <1>c, <2>1, <2>2, <2>3 DEF Saving
  <2> QED BY <1>a, <1>c, <2>3, <2>4 DEF Verdict
<1>1. CASE SaveAcquire(w)
  <2>1. /\ db' = db /\ handle' = handle /\ published'[w] = FALSE
        /\ \/ pc'[w] = "fresh" /\ outcome'[w] = "none"
           \/ pc'[w] = "idle" /\ outcome'[w] = "failed"
    BY <1>0, <1>1 DEF SaveAcquire, Goto
  <2> QED BY <1>a, <2>1 DEF Saving, Verdict, WriterLabels
<1>2. CASE SaveCheckBase(w)
  <2>0. pc[w] = "fresh" /\ ~published[w]
    BY <1>2, <1>b DEF SaveCheckBase, Saving
  <2>1. CASE BaseIsFresh(w) /\ Goto(w, IF IsEmptyLazy(w) THEN "commit" ELSE "temp")
             /\ UNCHANGED <<lock, outcome>>
    <3>1. BaseHolds(w) \/ db.file = "absent"
      BY <2>1 DEF BaseIsFresh, BaseHolds
    <3>2. /\ db' = db /\ handle' = handle /\ published'[w] = FALSE /\ outcome'[w] = "none"
          /\ pc'[w] \in {"commit", "temp"}
      BY <1>0, <1>2, <1>b, <2>0, <2>1 DEF SaveCheckBase, Goto, Saving, WriterLabels
    <3>3. BaseHolds(w)' <=> BaseHolds(w)
      BY <3>2 DEF BaseHolds
    <3>4. Saving(w)'
      BY <3>1, <3>2, <3>3 DEF Saving
    <3> QED BY <1>a, <3>2, <3>4 DEF Verdict
  <2>2. CASE Finish(w, "failed")
    <3>1. db' = db /\ published' = published /\ handle' = handle
      BY <1>2 DEF SaveCheckBase
    <3> QED BY <1>a, <2>0, <2>2, <3>1, Stopped
  <2> QED BY <1>2, <2>1, <2>2 DEF SaveCheckBase
<1>3. CASE SaveWriteTemp(w)
  BY <1>3, <1>b, <1>c DEF SaveWriteTemp, Saving, WriterLabels
<1>4. CASE SaveRename(w)
  BY <1>4, <1>b, <1>c DEF SaveRename, Saving, WriterLabels
<1>5. CASE SaveIoError(w)
  <2>1. db' = db /\ published' = published /\ handle' = handle /\ ~published[w]
        /\ Finish(w, "failed")
    BY <1>5, <1>b DEF SaveIoError, Saving
  <2> QED BY <1>a, <2>1, Stopped
<1>6. CASE SaveCommit(w)
  <2>0. /\ pc[w] = "commit" /\ pc[w] \in WriterLabels /\ ~published[w]
        /\ db.file = "absent" \/ BaseHolds(w)
        /\ disk' = disk /\ handle' = handle /\ newGen' = newGen
    BY <1>6, <1>b DEF SaveCommit, Saving, WriterLabels
  <2>a. SaveAccepted(w) => SnapshotReady(w)
    BY DEF SaveAccepted, SnapshotReady
  <2>1. CASE /\ SaveAccepted(w) /\ db' = [db EXCEPT !.file = "created"] /\ Goto(w, "create")
             /\ UNCHANGED <<lock, outcome, published>>
    <3>1. pc'[w] = "create" /\ outcome'[w] = "none" /\ published'[w] = FALSE
      BY <1>0, <1>b, <2>0, <2>1 DEF Goto, Saving
    <3>2. SnapshotReady(w)'
      BY <2>0, <2>1, <2>a DEF SnapshotReady, GensOnDisk, OnDisk
    <3> QED BY <1>a, <2>0, <3>1, <3>2 DEF Saving, Verdict
  <2>2. CASE SaveAccepted(w) /\ db.file = "ok" /\ CommitSnapshot(w)
             /\ UNCHANGED <<lock, outcome>>
    <3>1. OpenVerifies(newGen[w]) /\ BaseHolds(w)
      BY <2>2 DEF SaveAccepted, BaseHolds
    <3> QED BY <1>a, <2>0, <2>2, <2>a, <3>1, SnapshotSaves
  <2>3. CASE Finish(w, "failed") /\ UNCHANGED <<db, published>>
    BY <1>a, <2>0, <2>3, Stopped
  <2>4. CASE db.file # "absent" /\ Goto(w, "recover")
             /\ UNCHANGED <<db, lock, outcome, published>>
    BY <1>c, <2>0, <2>4
  <2> QED BY <1>6, <2>1, <2>2, <2>3, <2>4 DEF SaveCommit
<1>7. CASE SaveFirstTransaction(w)
  <2>1. pc[w] = "create" /\ pc[w] \in WriterLabels /\ SnapshotReady(w)
    BY <1>7, <1>b DEF SaveFirstTransaction, Saving, WriterLabels
  <2>2. db.file = "created"
    BY <2>1 DEF WInv, CasInv, FirstCommit
  <2>3. /\ CommitSnapshot(w) /\ disk' = disk /\ handle' = handle /\ newGen' = newGen
        /\ outcome' = outcome
    BY <1>7 DEF SaveFirstTransaction
  <2> QED BY <1>a, <2>1, <2>2, <2>3, SnapshotSaves
<1>8. CASE SaveVerify(w)
  <2>0. Landed(w) /\ pc[w] = "verify" /\ db' = db /\ published' = published
        /\ newGen' = newGen /\ disk' = disk
    BY <1>8, <1>b DEF SaveVerify, Saving
  <2>1. CASE ReportSaved(w)
    BY <2>0, <2>1, Reported
  <2>2. CASE ~OpenVerifies(0) /\ Finish(w, "failed") /\ UNCHANGED handle
    <3>1. ~TableCountsMatch(db)
      BY <2>0, <2>2 DEF Landed, OpenVerifies
    <3> QED BY <1>a, <2>0, <2>2, <3>1, Stopped
  <2>3. CASE Goto(w, "recover") /\ UNCHANGED <<lock, outcome, handle>>
    <3>1. pc'[w] = "recover" /\ outcome'[w] = "none" /\ published'[w]
      BY <1>0, <1>b, <2>0, <2>3 DEF Goto, Saving, WriterLabels, Landed
    <3>2. Landed(w)'
      <4>1. GenerationVerifies(db, 0)' <=> GenerationVerifies(db, 0)
        BY <2>0 DEF GenerationVerifies, GensOnDisk, OnDisk
      <4> QED BY <2>0, <2>3, <4>1 DEF Landed
    <3>3. db'.file = "ok"
      BY <2>0 DEF Landed
    <3> QED BY <1>a, <2>3, <3>1, <3>2, <3>3 DEF Saving, Verdict
  <2>4. CASE Finish(w, "late_error") /\ UNCHANGED handle
    <3>1. published[w]
      BY <2>0 DEF Landed
    <3> QED BY <1>a, <2>0, <2>4, <3>1, Stopped
  <2> QED BY <1>8, <2>1, <2>2, <2>3, <2>4 DEF SaveVerify
<1>9. CASE SaveRecover(w)
  <2>0. pc[w] = "recover" /\ db' = db /\ published' = published
    BY <1>9 DEF SaveRecover
  <2>a. Landed(w) \/ (~published[w] /\ BaseHolds(w))
    BY <1>b, <2>0 DEF Saving
  <2>b. Landed(w) => CommittedOurs(w)
    <3>1. Landed(w) => Revision(db).seq # handle[w].token.seq
      BY <1>0 DEF Landed, Revision, Handles, Revisions
    <3> QED BY <3>1 DEF Landed, CommittedOurs
  <2>c. BaseHolds(w) => ~CommittedOurs(w)
    BY DEF BaseHolds, CommittedOurs
  <2>1. CASE CommittedOurs(w) /\ ReportSaved(w)
    <3>1. Landed(w)
      BY <2>1, <2>a, <2>c
    <3> QED BY <2>0, <2>1, <3>1, Reported
  <2>2. CASE ~CommittedOurs(w) /\ Finish(w, "retry_safe") /\ UNCHANGED handle
    <3>1. ~published[w]
      BY <2>2, <2>a, <2>b
    <3> QED BY <1>a, <2>0, <2>2, <3>1, Stopped
  <2>3. CASE Finish(w, "unknown") /\ UNCHANGED handle
    BY <1>a, <2>0, <2>3, Stopped
  <2> QED BY <1>9, <2>1, <2>2, <2>3 DEF SaveRecover
<1> QED BY <1>1, <1>2, <1>3, <1>4, <1>5, <1>6, <1>7, <1>8, <1>9 DEF SaveStep

\* A writer that dies loses its handle and reports nothing.
LEMMA OwnCrash ==
  ASSUME WInv, NEW w \in Writers, Crash(w)
  PROVE  Saving(w)' /\ Verdict(w)' /\ Sourced(w)'
<1>1. Finish(w, "none") /\ db' = db /\ published' = published /\ handle'[w] = NoHandle
  BY DEF Crash
<1>2. Saving(w)' /\ Verdict(w)'
  BY <1>1, Stopped
<1>3. db.seq \in Nat /\ (db.seq = 0 => db.payload = {})
  BY DEF WInv, CasInv, TypeOK, Databases, DbInv, EmptyDb
<1>4. Sourced(w)'
  BY <1>1, <1>3 DEF Sourced, NoHandle, NoRevision
<1> QED BY <1>2, <1>4

LEMMA WInvInit == Init => WInv
<1> SUFFICES ASSUME Init PROVE WInv
  OBVIOUS
<1>1. TypeOK /\ LockDiscipline
  BY TypeInit, LockInit
<1>2. FirstCommit
  BY DEF Init, FirstCommit, EmptyDb, NoHandle, NoRevision, Procs
<1>3. DbInv
  <2>1. db = EmptyDb /\ db.file = "absent"
    BY DEF Init, EmptyDb
  <2>2. EmptyDb = [EmptyDb EXCEPT !.file = "absent"]
    BY DEF EmptyDb
  <2> QED BY <2>1, <2>2 DEF DbInv
<1>4. ASSUME NEW w \in Writers
      PROVE  Saving(w) /\ Verdict(w) /\ Sourced(w)
  <2>1. /\ pc[w] = "idle" /\ outcome[w] = "none" /\ published[w] = FALSE
        /\ handle[w] = NoHandle /\ db = EmptyDb
    BY DEF Init, Procs
  <2> QED BY <2>1 DEF Saving, Verdict, Sourced, WriterLabels, NoHandle, NoRevision, EmptyDb
<1> QED BY <1>1, <1>2, <1>3, <1>4 DEF WInv, CasInv

LEMMA WInvStep == WInv /\ [Next]_vars => WInv'
<1> SUFFICES ASSUME WInv, [Next]_vars PROVE WInv'
  OBVIOUS
<1>1. CasInv' /\ DbInv'
  BY TypeStep, LockStep, FirstCommitStep, DbInvStep DEF WInv, CasInv
<1>2. ASSUME NEW w \in Writers
      PROVE  Saving(w)' /\ Verdict(w)' /\ Sourced(w)'
  BY OwnOrOthers, OwnLoad, OwnSave, OwnCrash, OthersWInv DEF WriterStep
<1> QED BY <1>1, <1>2 DEF WInv

\* What a save reports is what became of it, through every interleaving with
\* other writers, clients, collectors, refused opens and crashes: "saved" means
\* durable and "retry_safe" that a retry inserts nothing twice; a plain error
\* leaves nothing behind (or a store that refuses every retry) unless it is
\* the error of an fsync or a read after the transaction, when all of it is in.
THEOREM VerdictIsSound == Spec => []VerdictSound
<1>1. WInv => VerdictSound
  BY DEF WInv, Verdict, VerdictSound
<1> QED BY <1>1, WInvInit, WInvStep, PTL DEF Spec

\* The compare-and-swap on StoreRevision keeps every edit committed before an
\* untorn load: only the interval between a load's two reads can lose one.
THEOREM UntornSavesKeepEdits == Spec => UntornSavesLoseNothing
<1>1. ASSUME WInv, [Next]_vars, NEW w \in Writers,
             published'[w], ~published[w], handle[w].src = handle[w].token
      PROVE  db.payload \subseteq db'.payload
  <2>0. /\ db \in Databases /\ published \in [Writers -> BOOLEAN]
        /\ newGen[w] \in 0..MaxGen /\ Saving(w) /\ Sourced(w)
    BY <1>1 DEF WInv, CasInv, TypeOK
  <2>1. ~OthersStep(w)
    <3>1. OthersStep(w) => published'[w] = published[w]
      BY <1>1, HolderAlone DEF WInv
    <3> QED BY <1>1, <3>1
  <2>2. CommitSnapshot(w) /\ (pc[w] = "create" \/ (SaveAccepted(w) /\ db.file = "ok"))
    <3>1. published' # published /\ ~Crash(w)
      BY <1>1 DEF Crash
    <3>2. ~SaveAcquire(w)
      BY <1>1, <2>0 DEF SaveAcquire
    <3>3. ~(LoadPayloads(w) \/ Add(w) \/ LoadStep(w))
      BY <3>1 DEF LoadPayloads, Add, LoadStep, LoadToken, LoadIndex
    <3>4. SaveStep(w)
      BY <2>1, <3>1, <3>2, <3>3, <1>1, OwnOrOthers DEF WriterStep
    <3>5. SaveCommit(w) \/ SaveFirstTransaction(w)
      BY <3>1, <3>4
      DEF SaveStep, SaveCheckBase, SaveWriteTemp, SaveRename, SaveIoError, SaveVerify, SaveRecover
    <3>6. SaveCommit(w) => CommitSnapshot(w) /\ SaveAccepted(w) /\ db.file = "ok"
      BY <3>1 DEF SaveCommit
    <3> QED BY <3>5, <3>6 DEF SaveFirstTransaction
  <2>3. db'.payload = handle[w].edits
    <3>1. PICK digest : db' = SnapshotTxn(db, newGen[w], handle[w].edits, digest)
      BY <2>2 DEF CommitSnapshot
    <3> QED BY <2>0, <3>1, SnapshotParts
  <2>4. CASE pc[w] = "create"
    <3>1. db.seq = 0
      BY <1>1, <2>4 DEF WInv, CasInv, FirstCommit
    <3>2. db.seq = 0 => db.payload = {}
      BY <1>1 DEF WInv, CasInv, TypeOK, Databases, DbInv, EmptyDb
    <3> QED BY <3>1, <3>2
  <2>5. CASE SaveAccepted(w) /\ db.file = "ok"
    <3>1. handle[w].src.seq = db.seq
      BY <1>1, <2>5 DEF SaveAccepted, Revision
    <3> QED BY <2>0, <2>3, <3>1 DEF Sourced
  <2> QED BY <2>2, <2>4, <2>5
<1>2. WInv /\ [Next]_vars => [\A w \in Writers :
        (published'[w] /\ ~published[w] /\ handle[w].src = handle[w].token) =>
          db.payload \subseteq db'.payload]_vars
  BY <1>1
<1> QED BY <1>2, WInvInit, WInvStep, PTL DEF Spec, UntornSavesLoseNothing

-----------------------------------------------------------------------------
(* The table counts, when no client republishes an old generation          *)

\* The maximum of a set with a largest element is that element.
LEMMA MaxIs ==
  ASSUME NEW S \in SUBSET Nat, NEW n \in S, \A m \in S : m <= n
  PROVE  Max(S) = n
<1>1. \A x \in S : (\A y \in S : x >= y) => x = n
  OBVIOUS
<1>2. \A y \in S : n >= y
  OBVIOUS
<1> QED BY <1>1, <1>2 DEF Max

\* The largest generation directory exists: the one with the fewest larger
\* ones.
LEMMA MaxExists ==
  ASSUME NEW S \in SUBSET (0..MaxGen), S # {}
  PROVE  /\ Max(S) \in S
         /\ \A m \in S : m <= Max(S)
<1> DEFINE Larger(x) == {y \in S : y > x}
           T == {Larger(x) : x \in S}
<1>0. MaxGen \in Nat
  BY BoundAssumption
<1>1. IsFiniteSet(S)
  <2>1. IsFiniteSet(0..MaxGen)
    BY <1>0, FS_Interval
  <2> QED BY <2>1, FS_Subset
<1>2. T \subseteq FiniteSubsetsOf(S) /\ T # {}
  <2>1. \A x \in S : Larger(x) \in SUBSET S /\ IsFiniteSet(Larger(x))
    BY <1>1, FS_Subset
  <2> QED BY <2>1 DEF FiniteSubsetsOf
<1>3. PICK U \in T : \A V \in T : <<V, U>> \notin StrictSubsetOrdering(S)
  BY <1>2, FS_StrictSubsetOrderingWellFounded, WFMin
<1>4. PICK x \in S : U = Larger(x)
  OBVIOUS
<1>5. \A y \in S : y <= x
  <2> SUFFICES ASSUME NEW y \in S, y > x PROVE FALSE
    BY <1>0, SMT
  <2>1. (\A z \in S : z > y => z > x) /\ y > x /\ ~(y > y)
    BY <1>0, SMT
  <2>2. Larger(y) \subseteq Larger(x) /\ y \in Larger(x) /\ y \notin Larger(y)
    BY <2>1
  <2>3. <<Larger(y), Larger(x)>> \in StrictSubsetOrdering(S)
    BY <2>2 DEF StrictSubsetOrdering
  <2> QED BY <1>3, <1>4, <2>3
<1>6. Max(S) = x
  BY <1>0, <1>5, MaxIs
<1> QED BY <1>5, <1>6

\* The tables hold what the manifest counts, and the active row is the newest.
Counted ==
  /\ db.n_generations = Cardinality(RecordedGens(db))
  /\ db.gc_rows = 1..db.n_gc
  /\ GenerationRecordsMatch(db)
  /\ ActiveIsNewest

\* The generation a save is about to publish is newer than the active one.
Newer(w) ==
  pc[w] \in {"temp", "rename", "commit", "create"} /\ newGen[w] # 0 => newGen[w] > db.active

CountInv == WInv /\ Counted /\ \A w \in Writers : Newer(w)

\* The directories a store lists are finitely many.
LEMMA RecordedFinite ==
  ASSUME NEW d
  PROVE  IsFiniteSet(RecordedGens(d))
<1>1. IsFiniteSet(GenIds)
  BY BoundAssumption, FS_Interval DEF GenIds
<1> QED BY <1>1, FS_Subset DEF RecordedGens

\* A save adds one row, the newest, or none to an empty table.
LEMMA SnapshotCounted ==
  ASSUME CountInv, NEW w \in Writers, Snapshots(w)
  PROVE  Counted'
<1> DEFINE g == newGen[w]
<1>0. /\ db \in Databases /\ g \in 0..MaxGen /\ db.seq \in Nat /\ db.active \in 0..MaxGen
      /\ db.generations \in [GenIds -> Rows] /\ MaxGen \in Nat
      /\ g # 0 => g \in GenIds
      /\ db.n_generations \in Nat
  BY BoundAssumption DEF CountInv, WInv, CasInv, TypeOK, Databases, GenIds
<1>1. SnapshotReady(w)
  <2>1. pc[w] = "create" => SnapshotReady(w)
    BY DEF CountInv, WInv, Saving
  <2>2. SaveAccepted(w) => SnapshotReady(w)
    BY DEF SaveAccepted, SnapshotReady
  <2> QED BY <2>1, <2>2 DEF Snapshots
<1>2. db.file = "created" \/ (db.file = "ok" /\ OpenVerifies(g) /\ BaseHolds(w))
  <2>1. pc[w] = "create" => db.file = "created"
    BY DEF CountInv, WInv, CasInv, FirstCommit
  <2>2. db.file = "ok" /\ SaveAccepted(w) => OpenVerifies(g) /\ BaseHolds(w)
    BY DEF SaveAccepted, BaseHolds
  <2> QED BY <2>1, <2>2 DEF Snapshots
<1>3. GenerationRecordsMatch(db')
  <2>1. CommitSnapshot(w) /\ disk' = disk /\ handle' = handle /\ newGen' = newGen
    BY DEF Snapshots
  <2>2. Landed(w)'
    BY <1>1, <1>2, <2>1, SnapshotLands DEF CountInv, WInv
  <2> QED BY <2>2 DEF Landed
<1>4. PICK digest : db' = SnapshotTxn(db, g, handle[w].edits, digest)
  BY DEF Snapshots, CommitSnapshot
<1>5. /\ db'.active = g /\ db'.gc_rows = db.gc_rows /\ db'.n_gc = db.n_gc
      /\ db'.n_generations = IF g = 0 \/ (db.file = "ok" /\ db.active = g)
                             THEN db.n_generations ELSE db.n_generations + 1
  BY <1>0, <1>4, SnapshotParts
<1>6. db'.generations = IF g = 0 THEN db.generations
                        ELSE [n \in GenIds |-> IF n = g THEN ActiveRow
                                               ELSE Retire(db.generations[n], db.seq + 1)]
  BY <1>0, <1>4, SnapshotRows
<1>7. CASE g = 0
  <2>1. RecordedGens(db') = RecordedGens(db) /\ db'.n_generations = db.n_generations
    BY <1>5, <1>6, <1>7 DEF RecordedGens
  <2>2. db.active = 0
    <3>1. CASE db.file = "created"
      <4>1. db.seq = 0
        BY <3>1 DEF CountInv, WInv, CasInv, FirstCommit
      <4>2. db.seq = 0 => db.active = 0
        BY DEF CountInv, WInv, CasInv, TypeOK, Databases, DbInv, EmptyDb
      <4> QED BY <4>1, <4>2
    <3>2. CASE OpenVerifies(g)
      <4>1. db.active # 0 => db.active \in GensOnDisk
        BY <1>0, <3>2 DEF OpenVerifies, GenerationVerifies, GensOnDisk, GenIds
      <4> QED BY <1>1, <1>7, <4>1 DEF SnapshotReady
    <3> QED BY <1>2, <3>1, <3>2
  <2>3. \A n \in RecordedGens(db') : n <= 0
    BY <2>1, <2>2 DEF CountInv, Counted, ActiveIsNewest
  <2> QED BY <1>3, <1>5, <1>7, <2>1, <2>3 DEF CountInv, Counted, ActiveIsNewest
<1>8. CASE g # 0
  <2>0. g > db.active
    <3>1. pc[w] \in {"temp", "rename", "commit", "create"}
      BY DEF Snapshots
    <3> QED BY <1>8, <3>1 DEF CountInv, Newer
  <2>1. \A n \in RecordedGens(db) : n < g
    <3>1. \A n \in RecordedGens(db) : n <= db.active /\ n \in GenIds
      BY DEF CountInv, Counted, ActiveIsNewest, RecordedGens
    <3> QED BY <1>0, <2>0, <3>1 DEF GenIds
  <2>2. g \notin RecordedGens(db)
    BY <1>0, <2>1
  <2>3. RecordedGens(db') = RecordedGens(db) \cup {g}
    <3>1. \A n \in GenIds : Retire(db.generations[n], db.seq + 1).state = "none"
                              <=> db.generations[n].state = "none"
      BY <1>0 DEF Retire, Rows
    <3>2. \A n \in GenIds : db'.generations[n].state # "none"
                              <=> n = g \/ db.generations[n].state # "none"
      BY <1>6, <1>8, <3>1 DEF ActiveRow
    <3> QED BY <1>0, <1>8, <3>2 DEF RecordedGens
  <2>4. Cardinality(RecordedGens(db')) = Cardinality(RecordedGens(db)) + 1
    BY <2>2, <2>3, RecordedFinite, FS_AddElement
  <2>5. db'.n_generations = db.n_generations + 1
    BY <1>0, <1>5, <1>8, <2>0
  <2>6. \A n \in RecordedGens(db') : n <= g
    BY <1>0, <2>1, <2>3 DEF RecordedGens, GenIds
  <2> QED BY <1>3, <1>5, <2>4, <2>5, <2>6 DEF CountInv, Counted, ActiveIsNewest
<1> QED BY <1>7, <1>8

LEMMA CountedStep ==
  ASSUME Republishers = {}, CountInv, [Next]_vars
  PROVE  Counted'
<1>0. /\ db \in Databases /\ db.n_gc \in Nat
  BY DEF CountInv, WInv, CasInv, TypeOK, Databases
<1>a. ASSUME db'.n_generations = db.n_generations, db'.generations = db.generations,
             db'.active = db.active, db'.gc_rows = 1..db'.n_gc
      PROVE  Counted'
  <2>1. RecordedGens(db') = RecordedGens(db) /\ ActiveRows(db') = ActiveRows(db)
    BY <1>a DEF RecordedGens, ActiveRows
  <2> QED BY <1>a, <2>1 DEF CountInv, Counted, GenerationRecordsMatch, ActiveIsNewest
<1>1. CASE db' = db
  BY <1>1, <1>a DEF CountInv, Counted
<1>2. CASE db.file = "absent" /\ db' = [db EXCEPT !.file = "created"]
  <2>1. /\ db'.n_generations = db.n_generations /\ db'.generations = db.generations
        /\ db'.active = db.active /\ db'.gc_rows = db.gc_rows /\ db'.n_gc = db.n_gc
    BY <1>0, <1>2 DEF Databases
  <2> QED BY <1>a, <2>1 DEF CountInv, Counted
<1>3. ASSUME NEW c, db' = PatchTxn(db, c) PROVE Counted'
  <2>1. /\ db'.n_generations = db.n_generations /\ db'.generations = db.generations
        /\ db'.active = db.active /\ db'.gc_rows = db.gc_rows /\ db'.n_gc = db.n_gc
    BY <1>0, <1>3, PatchParts
  <2> QED BY <1>a, <2>1 DEF CountInv, Counted
<1>4. ASSUME NEW paths, NEW count \in Nat, NEW state, db' = GcTxn(db, paths, count, state)
      PROVE  Counted'
  <2>1. /\ db'.n_generations = db.n_generations /\ db'.generations = db.generations
        /\ db'.active = db.active /\ db'.n_gc = db.n_gc + count
        /\ db'.gc_rows = db.gc_rows \cup ((db.n_gc + 1)..(db.n_gc + count))
    BY <1>0, <1>4, GcParts
  <2>2. (1..db.n_gc) \cup ((db.n_gc + 1)..(db.n_gc + count)) = 1..(db.n_gc + count)
    BY <1>0, SMT
  <2> QED BY <1>a, <2>1, <2>2 DEF CountInv, Counted
<1>5. ~Replaces
  BY DEF Replaces
<1> QED
  BY <1>1, <1>2, <1>3, <1>4, <1>5, StoreStep, SnapshotCounted
  DEF Patches, Collects, CountInv, WInv, CasInv

\* The next generation id is larger than that of the active generation.
LEMMA NextIsNewer ==
  ASSUME TypeOK, DbInv, NEW w \in Writers, BaseIsFresh(w)
  PROVE  NextGeneration > db.active
<1> DEFINE S == {0} \cup GensOnDisk
<1>0. MaxGen \in Nat /\ db.active \in 0..MaxGen
  BY BoundAssumption DEF TypeOK, Databases
<1>1. S \in SUBSET (0..MaxGen) /\ S # {}
  BY <1>0 DEF GensOnDisk, GenIds
<1>2. Max(S) \in 0..MaxGen /\ \A m \in S : m <= Max(S)
  BY <1>1, MaxExists
<1>3. db.active \in S
  <2>1. CASE db.file = "absent"
    <3>1. db.active = EmptyDb.active
      BY <2>1 DEF DbInv, EmptyDb, TypeOK, Databases
    <3> QED BY <3>1 DEF EmptyDb
  <2>2. CASE OpenVerifies(0)
    BY <1>0, <2>2 DEF OpenVerifies, GenerationVerifies, GensOnDisk, GenIds
  <2> QED BY <2>1, <2>2 DEF BaseIsFresh
<1> QED BY <1>0, <1>2, <1>3 DEF NextGeneration

LEMMA NewerStep ==
  ASSUME CountInv, [Next]_vars, NEW w \in Writers
  PROVE  Newer(w)'
<1>0. /\ w \in Procs /\ pc \in [Procs -> Labels] /\ newGen \in [Writers -> 0..MaxGen]
      /\ db \in Databases
  BY DEF CountInv, WInv, CasInv, TypeOK, Procs
<1>1. CASE OthersStep(w)
  <2>1. /\ pc'[w] = pc[w] /\ newGen'[w] = newGen[w]
        /\ pc[w] \in WriterLabels => db' = db
    BY <1>1, HolderAlone DEF CountInv, WInv
  <2> QED BY <2>1 DEF CountInv, Newer, WriterLabels
<1>2. CASE Crash(w)
  BY <1>0, <1>2 DEF Crash, Finish, Goto, Newer
<1>3. CASE LoadPayloads(w) \/ Add(w) \/ LoadStep(w)
  <2>1. db' = db /\ newGen' = newGen
    BY <1>3 DEF LoadPayloads, Add, LoadStep, LoadToken, LoadIndex
  <2>2. pc'[w] \in {"temp", "rename", "commit", "create"} => pc[w] = pc'[w]
    BY <1>0, <1>3 DEF LoadPayloads, Add, LoadStep, LoadToken, LoadIndex, Goto
  <2> QED BY <2>1, <2>2 DEF CountInv, Newer
<1>4. CASE SaveAcquire(w)
  BY <1>0, <1>4 DEF SaveAcquire, Goto, Newer
<1>5. CASE SaveCheckBase(w)
  <2>1. CASE BaseIsFresh(w) /\ newGen' = [newGen EXCEPT ![w] = IF IsEmptyLazy(w) THEN 0
                                                                ELSE NextGeneration]
    <3>1. db' = db
      BY <1>5 DEF SaveCheckBase
    <3>2. NextGeneration > db.active
      BY <2>1, NextIsNewer DEF CountInv, WInv, CasInv
    <3>3. newGen'[w] = 0 \/ newGen'[w] = NextGeneration
      BY <1>0, <2>1
    <3> QED BY <3>1, <3>2, <3>3 DEF Newer
  <2>2. CASE Finish(w, "failed")
    BY <1>0, <2>2 DEF Finish, Goto, Newer
  <2> QED BY <1>5, <2>1, <2>2 DEF SaveCheckBase
<1>6. CASE SaveWriteTemp(w) \/ SaveRename(w)
  <2>1. db' = db /\ newGen' = newGen /\ pc[w] \in {"temp", "rename"}
    BY <1>6 DEF SaveWriteTemp, SaveRename
  <2> QED BY <2>1 DEF CountInv, Newer
<1>7. CASE SaveIoError(w)
  BY <1>0, <1>7 DEF SaveIoError, Finish, Goto, Newer
<1>8. CASE SaveCommit(w)
  <2>0. pc[w] = "commit" /\ newGen' = newGen
    BY <1>8 DEF SaveCommit
  <2>1. CASE db' = [db EXCEPT !.file = "created"]
    <3>1. db'.active = db.active
      BY <1>0, <2>1 DEF Databases
    <3> QED BY <2>0, <3>1 DEF CountInv, Newer
  <2>2. CASE CommitSnapshot(w) \/ Finish(w, "failed") \/ Goto(w, "recover")
    BY <1>0, <2>2 DEF CommitSnapshot, Finish, Goto, Newer
  <2> QED BY <1>8, <2>1, <2>2 DEF SaveCommit
<1>9. CASE SaveFirstTransaction(w)
  BY <1>0, <1>9 DEF SaveFirstTransaction, CommitSnapshot, Goto, Newer
<1>10. CASE SaveVerify(w) \/ SaveRecover(w)
  BY <1>0, <1>10 DEF SaveVerify, SaveRecover, ReportSaved, Finish, Goto, Newer
<1> QED
  BY <1>1, <1>2, <1>3, <1>4, <1>5, <1>6, <1>7, <1>8, <1>9, <1>10, OwnOrOthers
  DEF WriterStep, SaveStep

LEMMA CountInvInit == Init => CountInv
<1> SUFFICES ASSUME Init PROVE CountInv
  OBVIOUS
<1>1. db = EmptyDb
  BY DEF Init
<1>2. RecordedGens(db) = {} /\ ActiveRows(db) = {}
  BY <1>1 DEF RecordedGens, ActiveRows, EmptyDb, NoRow
<1>3. db.active = 0 /\ db.n_generations = 0 /\ db.gc_rows = {} /\ db.n_gc = 0
  BY <1>1 DEF EmptyDb
<1>4. Counted
  BY <1>2, <1>3, FS_EmptySet DEF Counted, GenerationRecordsMatch, ActiveIsNewest
<1>5. \A w \in Writers : Newer(w)
  BY DEF Init, Newer, Procs
<1> QED BY <1>4, <1>5, WInvInit DEF CountInv

LEMMA CountInvStep ==
  ASSUME Republishers = {}
  PROVE  CountInv /\ [Next]_vars => CountInv'
BY WInvStep, CountedStep, NewerStep DEF CountInv

LEMMA CountsAgree == CountInv /\ AuditComplete => TablesConsistent
<1> SUFFICES ASSUME CountInv, AuditComplete PROVE TablesConsistent
  OBVIOUS
<1>1. \A k \in Nat : Cardinality(1..k) = k
  BY FS_Interval
<1>2. db.seq \in Nat /\ db.n_gc \in Nat
  BY DEF CountInv, WInv, CasInv, TypeOK, Databases
<1> QED BY <1>1, <1>2 DEF CountInv, Counted, AuditComplete, TablesConsistent, TableCountsMatch

\* As long as nobody republishes an old generation, the manifest's counts are
\* those of the tables after every transaction, and exactly the manifest's
\* generation is the active row: no open_verified fails on them.
THEOREM TablesStayConsistent ==
  ASSUME Republishers = {}
  PROVE  Spec => []TablesConsistent
BY CountInvInit, CountInvStep, CountsAgree, AuditIsComplete, PTL DEF Spec

\* Nor does max+1 over the directories ever hand out an id that the generations
\* table still records, although gc removes directories and keeps their rows:
\* a save starts only where the active directory is found.
THEOREM ActiveStaysNewest ==
  ASSUME Republishers = {}
  PROVE  Spec => []ActiveIsNewest
<1>1. CountInv => ActiveIsNewest
  BY DEF CountInv, Counted
<1> QED BY <1>1, CountInvInit, CountInvStep, PTL DEF Spec

-----------------------------------------------------------------------------
(* The directory while a save or a collector works on it                   *)

\* What a save has put on disk so far.
Scratch(w) ==
  /\ pc[w] \in {"temp", "rename"} => newGen[w] \in GenIds
  /\ pc[w] = "rename" => disk[Tmp(newGen[w])] = Bundle(handle[w].index)
  /\ pc[w] \in {"commit", "create"} =>
       IF newGen[w] = 0 THEN IsEmptyLazy(w)
                        ELSE disk[Gen(newGen[w])] = Bundle(handle[w].index)

\* A canonical name is never a scratch name.
LEMMA PathNames ==
  ASSUME NEW n \in GenIds
  PROVE  /\ Gen(n) \in Paths /\ Tmp(n) \in Paths
         /\ \A m : Gen(n) # Tmp(m) /\ (Gen(n) = Gen(m) => n = m)
BY DEF Paths, Gen, Tmp

LEMMA ScratchStep ==
  ASSUME CasInv, [Next]_vars, NEW w \in Writers, Scratch(w)
  PROVE  Scratch(w)'
<1>0. /\ w \in Procs /\ pc \in [Procs -> Labels] /\ newGen \in [Writers -> 0..MaxGen]
      /\ disk \in [Paths -> [dir : {"absent", "present"}, records : Contents]]
  BY DEF CasInv, TypeOK, Procs
<1>a. ASSUME pc'[w] \notin {"temp", "rename", "commit", "create"}
      PROVE  Scratch(w)'
  BY <1>a DEF Scratch
<1>1. CASE OthersStep(w)
  <2>1. /\ pc'[w] = pc[w] /\ handle'[w] = handle[w] /\ newGen'[w] = newGen[w]
        /\ pc[w] \in WriterLabels => disk' = disk
    BY <1>1, HolderAlone
  <2> QED BY <2>1 DEF Scratch, WriterLabels, IsEmptyLazy
<1>2. CASE Crash(w)
  BY <1>0, <1>a, <1>2 DEF Crash, Finish, Goto
<1>3. CASE LoadPayloads(w) \/ LoadStep(w) \/ SaveAcquire(w)
  <2>1. pc'[w] \in {"loadToken", "loadIndex", "idle", "fresh"}
    BY <1>0, <1>3 DEF LoadPayloads, LoadStep, LoadToken, LoadIndex, SaveAcquire, Goto
  <2> QED BY <1>a, <2>1
<1>4. CASE Add(w)
  BY <1>a, <1>4 DEF Add
<1>5. CASE SaveCheckBase(w)
  <2>1. CASE Finish(w, "failed")
    BY <1>0, <1>a, <2>1 DEF Finish, Goto
  <2>2. CASE /\ NextGeneration \in GenIds
             /\ newGen' = [newGen EXCEPT ![w] = IF IsEmptyLazy(w) THEN 0 ELSE NextGeneration]
             /\ Goto(w, IF IsEmptyLazy(w) THEN "commit" ELSE "temp")
    <3>1. handle' = handle
      BY <1>5 DEF SaveCheckBase
    <3>2. CASE IsEmptyLazy(w)
      <4>1. newGen'[w] = 0 /\ pc'[w] = "commit"
        BY <1>0, <2>2, <3>2 DEF Goto
      <4> QED BY <3>1, <3>2, <4>1 DEF Scratch, IsEmptyLazy
    <3>3. CASE ~IsEmptyLazy(w)
      <4>1. newGen'[w] \in GenIds /\ pc'[w] = "temp"
        BY <1>0, <2>2, <3>3 DEF Goto
      <4> QED BY <4>1 DEF Scratch
    <3> QED BY <3>2, <3>3
  <2> QED BY <1>5, <2>1, <2>2 DEF SaveCheckBase
<1>6. CASE SaveWriteTemp(w)
  <2>1. /\ newGen' = newGen /\ handle' = handle /\ pc'[w] = "rename"
        /\ newGen[w] \in GenIds
    BY <1>0, <1>6 DEF SaveWriteTemp, Goto, Scratch
  <2>2. disk'[Tmp(newGen[w])] = Bundle(handle[w].index)
    BY <1>0, <1>6, <2>1, PathNames DEF SaveWriteTemp
  <2> QED BY <2>1, <2>2 DEF Scratch
<1>7. CASE SaveRename(w)
  <2>1. /\ newGen' = newGen /\ handle' = handle /\ pc'[w] = "commit"
        /\ newGen[w] \in GenIds /\ disk[Tmp(newGen[w])] = Bundle(handle[w].index)
    BY <1>0, <1>7 DEF SaveRename, Goto, Scratch
  <2>2. disk'[Gen(newGen[w])] = disk[Tmp(newGen[w])]
    BY <1>0, <1>7, <2>1, PathNames DEF SaveRename
  <2>3. newGen[w] # 0
    BY <2>1 DEF GenIds
  <2> QED BY <2>1, <2>2, <2>3 DEF Scratch
<1>8. CASE SaveCommit(w)
  <2>1. pc[w] = "commit" /\ newGen' = newGen /\ handle' = handle /\ disk' = disk
    BY <1>8 DEF SaveCommit
  <2>2. pc'[w] \in {"create", "verify", "idle", "recover"}
    BY <1>0, <1>8 DEF SaveCommit, CommitSnapshot, Finish, Goto
  <2> QED BY <2>1, <2>2 DEF Scratch, IsEmptyLazy
<1>9. CASE SaveIoError(w) \/ SaveFirstTransaction(w) \/ SaveVerify(w) \/ SaveRecover(w)
  <2>1. pc'[w] \in {"idle", "verify", "recover"}
    BY <1>0, <1>9 DEF SaveIoError, SaveFirstTransaction, SaveVerify, SaveRecover, ReportSaved,
                      CommitSnapshot, Finish, Goto
  <2> QED BY <1>a, <2>1
<1> QED
  BY <1>1, <1>2, <1>3, <1>4, <1>5, <1>6, <1>7, <1>8, <1>9, OwnOrOthers
  DEF WriterStep, SaveStep

\* A step of somebody else than collector c.
CollectorOthers(c) ==
  \/ \E w \in Writers : WriterStep(w)
  \/ \E k \in Clients : ClientOpen(k) \/ ClientPatch(k)
  \/ \E k \in Clients, g \in GenIds : ClientReplace(k, g)
  \/ \E d \in Collectors \ {c} : GcOpen(d) \/ GcStep(d)
  \/ \E n \in GenIds : TogglePin(n)
  \/ \E p \in Procs \ {c} : Crash(p)
  \/ UNCHANGED vars

\* The run of c stays where it is, and so do the store and its directory while
\* c holds the writer lock.
LEMMA CollectorAlone ==
  ASSUME CasInv, NEW c \in Collectors, CollectorOthers(c)
  PROVE  /\ pc'[c] = pc[c] /\ gc'[c] = gc[c] /\ rev'[c] = rev[c]
         /\ outcome'[c] = outcome[c]
         /\ pc[c] \in CollectorLabels => db' = db /\ disk' = disk
<1> DEFINE Alone == /\ pc'[c] = pc[c] /\ gc'[c] = gc[c] /\ rev'[c] = rev[c]
                    /\ outcome'[c] = outcome[c]
                    /\ pc[c] \in CollectorLabels => db' = db /\ disk' = disk
<1>0. /\ c \in Procs /\ pc \in [Procs -> Labels] /\ gc \in [Collectors -> GcStates]
      /\ rev \in [Clients \cup Collectors -> Revisions] /\ outcome \in [Procs -> Outcomes]
  BY DEF CasInv, TypeOK, Procs
<1>a. pc[c] \in CollectorLabels => lock = c /\ lock # NoProc
  BY <1>0, ProcAssumption DEF CasInv, LockDiscipline, LockedLabels
<1>1. ASSUME NEW w \in Writers, WriterStep(w) PROVE Alone
  <2>0. w \in Procs /\ w # c
    BY ProcAssumption DEF Procs
  <2>1. pc'[c] = pc[c] /\ outcome'[c] = outcome[c]
    BY <1>0, <1>1, <2>0
    DEF WriterStep, LoadPayloads, Add, SaveAcquire, LoadStep, LoadToken, LoadIndex, SaveStep,
        SaveCheckBase, SaveWriteTemp, SaveRename, SaveIoError, SaveCommit,
        SaveFirstTransaction, SaveVerify, SaveRecover, ReportSaved, CommitSnapshot, Finish, Goto
  <2>2. gc' = gc /\ rev' = rev
    BY <1>1
    DEF WriterStep, LoadPayloads, Add, SaveAcquire, LoadStep, LoadToken, LoadIndex, SaveStep,
        SaveCheckBase, SaveWriteTemp, SaveRename, SaveIoError, SaveCommit,
        SaveFirstTransaction, SaveVerify, SaveRecover
  <2>3. ASSUME pc[c] \in CollectorLabels PROVE db' = db /\ disk' = disk
    <3>1. pc[w] \notin LockedLabels
      BY <1>0, <2>0, <2>3, OneLocked DEF CasInv, LockedLabels
    <3>2. ~SaveStep(w)
      BY <3>1 DEF SaveStep, SaveCheckBase, SaveWriteTemp, SaveRename, SaveIoError, SaveCommit,
                  SaveFirstTransaction, SaveVerify, SaveRecover, LockedLabels, WriterLabels
    <3> QED BY <1>1, <3>2 DEF WriterStep, LoadPayloads, Add, SaveAcquire, LoadStep, LoadToken,
                              LoadIndex
  <2> QED BY <2>1, <2>2, <2>3
<1>2. ASSUME NEW k \in Clients, ClientOpen(k) \/ ClientPatch(k) PROVE Alone
  <2>1. k # c
    BY ProcAssumption
  <2> QED BY <1>0, <1>2, <1>a, <2>1 DEF ClientOpen, ClientPatch, ClientCommitted
<1>3. ASSUME NEW k \in Clients, NEW g \in GenIds, ClientReplace(k, g) PROVE Alone
  <2>1. k # c
    BY ProcAssumption
  <2> QED BY <1>0, <1>3, <1>a, <2>1 DEF ClientReplace, ClientCommitted
<1>4. ASSUME NEW d \in Collectors \ {c}, GcOpen(d) \/ GcStep(d) PROVE Alone
  <2>0. d \in Procs /\ d # c
    BY DEF Procs
  <2>1. pc'[c] = pc[c] /\ outcome'[c] = outcome[c]
    BY <1>0, <1>4, <2>0
    DEF GcOpen, GcStep, GcScan, GcAcquire, GcLedger, GcRecoverCheck, GcRecoverRemove,
        GcRecordRecovered,
        GcRecordReclaimable, GcRecordDeleting, GcDeleteOne, GcRecordDeleted, GcReport,
        GcRecord, Finish, Goto
  <2>2. gc'[c] = gc[c] /\ rev'[c] = rev[c]
    BY <1>0, <1>4, <2>0
    DEF GcOpen, GcStep, GcScan, GcAcquire, GcLedger, GcRecoverCheck, GcRecoverRemove,
        GcRecordRecovered,
        GcRecordReclaimable, GcRecordDeleting, GcDeleteOne, GcRecordDeleted, GcReport,
        GcRecord
  <2>3. ASSUME pc[c] \in CollectorLabels PROVE db' = db /\ disk' = disk
    <3>1. pc[d] \notin LockedLabels
      BY <1>0, <2>0, <2>3, OneLocked DEF CasInv, LockedLabels
    <3>2. GcOpen(d) \/ GcScan(d) \/ GcAcquire(d)
      BY <1>4, <3>1
      DEF GcStep, GcLedger, GcRecoverCheck, GcRecoverRemove,
          GcRecordRecovered, GcRecordReclaimable,
          GcRecordDeleting, GcDeleteOne, GcRecordDeleted, GcReport, LockedLabels, CollectorLabels
    <3> QED BY <3>2 DEF GcOpen, GcScan, GcAcquire
  <2> QED BY <2>1, <2>2, <2>3
<1>5. ASSUME NEW n \in GenIds, TogglePin(n) PROVE Alone
  BY <1>5 DEF TogglePin
<1>6. ASSUME NEW p \in Procs \ {c}, Crash(p) PROVE Alone
  BY <1>0, <1>6 DEF Crash, Finish, Goto
<1>7. CASE UNCHANGED vars
  BY <1>7 DEF vars
<1> QED BY <1>1, <1>2, <1>3, <1>4, <1>5, <1>6, <1>7 DEF CollectorOthers

LEMMA CollectorOwnOrOthers ==
  ASSUME [Next]_vars, NEW c \in Collectors
  PROVE  GcOpen(c) \/ GcStep(c) \/ Crash(c) \/ CollectorOthers(c)
BY DEF Next, CollectorOthers, WriterStep

\* Collector c is about to remove what is at path p.
Removes(c, p) ==
  \/ pc[c] = "gcRemove" /\ IsFirst(p, gc[c].todo)
  \/ pc[c] = "gcDelete" /\ p \in gc[c].reclaim

\* A generation directory appears by a rename and goes by a removal.
LEMMA DirectoryStep ==
  ASSUME TypeOK, [Next]_vars, NEW n \in GenIds
  PROVE  \/ disk'[Gen(n)] = disk[Gen(n)]
         \/ \E w \in Writers : SaveRename(w) /\ newGen[w] = n
         \/ disk'[Gen(n)] = Absent /\ n \notin pins' /\ \E c \in Collectors : Removes(c, Gen(n))
<1>0. disk \in [Paths -> [dir : {"absent", "present"}, records : Contents]]
  BY DEF TypeOK
<1>1. ASSUME NEW w \in Writers, WriterStep(w)
      PROVE  disk'[Gen(n)] = disk[Gen(n)] \/ (SaveRename(w) /\ newGen[w] = n)
  <2>1. ASSUME NEW x, disk' = [disk EXCEPT ![Tmp(newGen[w])] = x]
        PROVE  disk'[Gen(n)] = disk[Gen(n)]
    BY <1>0, <2>1, PathNames
  <2>2. ASSUME newGen[w] # n, SaveRename(w)
        PROVE  disk'[Gen(n)] = disk[Gen(n)]
    BY <1>0, <2>2, PathNames DEF SaveRename
  <2> QED
    BY <1>1, <2>1, <2>2
    DEF WriterStep, LoadPayloads, Add, SaveAcquire, LoadStep, LoadToken, LoadIndex, SaveStep,
        SaveCheckBase, SaveWriteTemp, SaveIoError, SaveCommit,
        SaveFirstTransaction, SaveVerify, SaveRecover
<1>2. ASSUME NEW k \in Clients, ClientOpen(k) \/ ClientPatch(k)
      PROVE  disk' = disk
  BY <1>2 DEF ClientOpen, ClientPatch
<1>3. ASSUME NEW k \in Clients, NEW g \in GenIds, ClientReplace(k, g)
      PROVE  disk' = disk
  BY <1>3 DEF ClientReplace
<1>4. ASSUME NEW c \in Collectors, GcOpen(c) \/ GcStep(c)
      PROVE  \/ disk'[Gen(n)] = disk[Gen(n)]
             \/ disk'[Gen(n)] = Absent /\ n \notin pins' /\ Removes(c, Gen(n))
  <2>0. Gen(n) \in Paths
    BY PathNames
  <2>a. ASSUME NEW p \in Paths, DeletePath(p)
        PROVE  \/ disk'[Gen(n)] = disk[Gen(n)]
               \/ p = Gen(n) /\ disk'[Gen(n)] = Absent /\ n \notin pins'
    BY <1>0, <2>0, <2>a DEF DeletePath, Gen
  <2>1. CASE GcRecoverRemove(c)
    BY <2>1, <2>a DEF GcRecoverRemove, Removes
  <2>2. CASE GcDeleteOne(c)
    BY <2>2, <2>a DEF GcDeleteOne, IsFirst, Removes
  <2>3. CASE ~GcRecoverRemove(c) /\ ~GcDeleteOne(c)
    BY <1>4, <2>3
    DEF GcOpen, GcStep, GcScan, GcAcquire, GcLedger, GcRecoverCheck, GcRecordRecovered,
        GcRecordReclaimable, GcRecordDeleting, GcRecordDeleted, GcReport, GcRecord
  <2> QED BY <2>1, <2>2, <2>3
<1>5. ASSUME NEW m \in GenIds, TogglePin(m)
      PROVE  disk' = disk
  BY <1>5 DEF TogglePin
<1>6. ASSUME NEW p \in Procs, Crash(p)
      PROVE  disk' = disk
  BY <1>6 DEF Crash
<1>7. CASE UNCHANGED vars
  BY <1>7 DEF vars
<1> QED BY <1>1, <1>2, <1>3, <1>4, <1>5, <1>6, <1>7 DEF Next, WriterStep

-----------------------------------------------------------------------------
(* What a collector deletes, and what it leaves in the ledger              *)

\* The paths whose latest ledger event announces a deletion.
Deleting == {p \in Paths : db.gc_latest[p] = "deleting"}

LEMMA GcLatest ==
  ASSUME NEW d \in Databases, NEW paths, NEW count, NEW state,
         NEW s, s = GcTxn(d, paths, count, state)
  PROVE  s.gc_latest = [p \in Paths |-> IF p \in paths THEN state ELSE d.gc_latest[p]]
<1> DEFINE a == AuditedCommit(d)
           latest == [p \in Paths |-> IF p \in paths THEN state ELSE a.gc_latest[p]]
<1>1. a \in Databases /\ a.gc_latest = d.gc_latest
  BY AuditedCommitType DEF AuditedCommit, Databases
<1>2. s =
        [a EXCEPT !.gc_rows = @ \cup ((d.n_gc + 1)..(d.n_gc + count)),
                  !.n_gc = @ + count, !.gc_latest = latest]
  BY DEF GcTxn
<1> HIDE DEF a, latest
<1>3. s.gc_latest = latest
  BY <1>1, <1>2 DEF Databases
<1> QED BY <1>1, <1>3 DEF latest

\* A ledger transaction happens at the revision the collector holds, keeps the
\* active generation and changes the latest events of its own paths only.
LEMMA GcRecorded ==
  ASSUME TypeOK, NEW c \in Collectors, NEW paths \in SUBSET Paths, NEW count,
         NEW state \in {"reclaimable", "deleting", "deleted"}, NEW label,
         GcRecord(c, paths, count, state, label)
  PROVE  /\ disk' = disk /\ pins' = pins /\ gc' = gc
         /\ pc'[c] = label \/ (pc'[c] = "idle" /\ outcome'[c] = "failed")
         /\ \/ db' = db /\ pc'[c] = "idle"
            \/ /\ OpenVerifies(0) /\ rev[c] = Revision(db) /\ rev'[c] = Revision(db')
               /\ db'.seq = db.seq + 1 /\ db'.active = db.active
               /\ state = "deleting" => Deleting' = Deleting \cup paths
               /\ state # "deleting" => Deleting' = Deleting \ paths
<1>0. /\ c \in Procs /\ pc \in [Procs -> Labels] /\ outcome \in [Procs -> Outcomes]
      /\ db \in Databases /\ rev \in [Clients \cup Collectors -> Revisions]
  BY DEF TypeOK, Procs
<1>1. disk' = disk /\ pins' = pins /\ gc' = gc
  BY DEF GcRecord
<1>2. pc'[c] = label \/ (pc'[c] = "idle" /\ outcome'[c] = "failed")
  BY <1>0 DEF GcRecord, Goto, Finish
<1>3. CASE db' = db /\ Finish(c, "failed")
  BY <1>0, <1>1, <1>2, <1>3 DEF Finish, Goto
<1>4. CASE /\ OpenVerifies(0) /\ rev[c] = Revision(db)
           /\ db' = GcTxn(db, paths, count, state)
           /\ rev' = [rev EXCEPT ![c] = Revision(db')]
  <2>1. db'.seq = db.seq + 1 /\ db'.active = db.active
    BY <1>0, <1>4, GcParts
  <2>2. db'.gc_latest = [p \in Paths |-> IF p \in paths THEN state ELSE db.gc_latest[p]]
    BY <1>0, <1>4, GcLatest
  <2>3. /\ state = "deleting" => Deleting' = Deleting \cup paths
        /\ state # "deleting" => Deleting' = Deleting \ paths
    BY <2>2 DEF Deleting
  <2>4. rev'[c] = Revision(db')
    BY <1>0, <1>4
  <2> QED BY <1>1, <1>2, <1>4, <2>1, <2>3, <2>4
<1> QED BY <1>3, <1>4 DEF GcRecord

\* A record that was written moves the collector on; the paths that are left
\* to delete afterwards.
Recorded(c, label) ==
  /\ disk' = disk /\ gc' = gc /\ pc'[c] = label
  /\ OpenVerifies(0) /\ rev[c] = Revision(db) /\ rev'[c] = Revision(db')
  /\ db'.active = db.active

RecordedAs(c, left, label) == Recorded(c, label) /\ Deleting' = left

LEMMA RecordWritten ==
  ASSUME TypeOK, NEW c \in Collectors, NEW paths, NEW count, NEW state, NEW label,
         GcRecord(c, paths, count, state, label), pc'[c] # "idle"
  PROVE  /\ Recorded(c, label)
         /\ db'.gc_latest = [p \in Paths |-> IF p \in paths THEN state ELSE db.gc_latest[p]]
<1>0. /\ c \in Procs /\ pc \in [Procs -> Labels]
      /\ db \in Databases /\ rev \in [Clients \cup Collectors -> Revisions]
  BY DEF TypeOK, Procs
<1>1. ~Finish(c, "failed")
  BY <1>0 DEF Finish, Goto
<1>2. /\ disk' = disk /\ gc' = gc /\ OpenVerifies(0) /\ rev[c] = Revision(db)
      /\ db' = GcTxn(db, paths, count, state)
      /\ rev' = [rev EXCEPT ![c] = Revision(db')]
      /\ Goto(c, label)
  BY <1>1 DEF GcRecord
<1>3. pc'[c] = label
  BY <1>0, <1>2 DEF Goto
<1>4. rev'[c] = Revision(db')
  BY <1>0, <1>2
<1>5. db'.active = db.active
  BY <1>0, <1>2, GcParts
<1>6. db'.gc_latest = [p \in Paths |-> IF p \in paths THEN state ELSE db.gc_latest[p]]
  BY <1>0, <1>2, GcLatest
<1> QED BY <1>2, <1>3, <1>4, <1>5, <1>6 DEF Recorded

LEMMA DeletingAnnounced ==
  ASSUME TypeOK, NEW c \in Collectors, NEW paths \in SUBSET Paths, NEW count, NEW label,
         GcRecord(c, paths, count, "deleting", label), pc'[c] # "idle"
  PROVE  RecordedAs(c, Deleting \cup paths, label)
<1>1. db'.gc_latest = [p \in Paths |-> IF p \in paths THEN "deleting" ELSE db.gc_latest[p]]
  BY RecordWritten
<1>2. Deleting' = Deleting \cup paths
  BY <1>1 DEF Deleting
<1>3. Recorded(c, label)
  BY RecordWritten
<1> QED BY <1>2, <1>3 DEF RecordedAs

LEMMA DeletingSettled ==
  ASSUME TypeOK, NEW c \in Collectors, NEW paths \in SUBSET Paths, NEW count, NEW label,
         NEW state, state # "deleting",
         GcRecord(c, paths, count, state, label), pc'[c] # "idle"
  PROVE  RecordedAs(c, Deleting \ paths, label)
<1>1. db'.gc_latest = [p \in Paths |-> IF p \in paths THEN state ELSE db.gc_latest[p]]
  BY RecordWritten
<1>2. Deleting' = Deleting \ paths
  BY <1>1 DEF Deleting
<1>3. Recorded(c, label)
  BY RecordWritten
<1> QED BY <1>2, <1>3 DEF RecordedAs

\* A pin lies inside a generation directory.
PinsOnDisk == \A n \in pins : OnDisk(n)

\* The generations a collector found pinned are not on its list, and recovery
\* removes none that was pinned when it looked.
Listing(c) ==
  /\ \A n \in gc[c].pinned : Gen(n) \notin gc[c].reclaim
  /\ pc[c] = "gcRemove" => \A n \in gc[c].looked : ~IsFirst(Gen(n), gc[c].todo)

\* The announced deletions that have happened, save for the path that was
\* active when the run began: this run has to record them.
Unsettled(c) == {p \in Deleting : disk[p] = Absent /\ p # Gen(rev[c].active)}
Settled(c) ==
  /\ pc[c] \in {"gcRecover", "gcRemove"} =>
       Unsettled(c) \subseteq gc[c].todo \cup gc[c].recovered
  /\ pc[c] \in {"gcMain", "gcMark", "gcDone"} => Unsettled(c) = {}
  /\ pc[c] = "gcDelete" => Unsettled(c) \subseteq gc[c].reclaim

HouseInv ==
  /\ CasInv
  /\ \A w \in Writers : Scratch(w)
  /\ PinsOnDisk
  /\ \A c \in Collectors : Listing(c) /\ Settled(c)

\* Only an operator adds a pin, and only to a generation that is there.
LEMMA PinsStep ==
  ASSUME TypeOK, [Next]_vars, NEW n \in pins', n \notin pins
  PROVE  n \in GenIds /\ OnDisk(n) /\ disk' = disk
<1>1. ASSUME NEW w \in Writers, WriterStep(w) PROVE pins' = pins
  BY <1>1
  DEF WriterStep, LoadPayloads, Add, SaveAcquire, LoadStep, LoadToken, LoadIndex, SaveStep,
      SaveCheckBase, SaveWriteTemp, SaveRename, SaveIoError, SaveCommit,
      SaveFirstTransaction, SaveVerify, SaveRecover
<1>2. ASSUME NEW k \in Clients, ClientOpen(k) \/ ClientPatch(k) PROVE pins' = pins
  BY <1>2 DEF ClientOpen, ClientPatch
<1>3. ASSUME NEW k \in Clients, NEW g \in GenIds, ClientReplace(k, g) PROVE pins' = pins
  BY <1>3 DEF ClientReplace
<1>4. ASSUME NEW c \in Collectors, GcOpen(c) \/ GcStep(c) PROVE pins' \subseteq pins
  BY <1>4
  DEF GcOpen, GcStep, GcScan, GcAcquire, GcLedger, GcRecoverCheck, GcRecoverRemove,
      GcRecordRecovered,
      GcRecordReclaimable, GcRecordDeleting, GcDeleteOne, GcRecordDeleted, GcReport,
      GcRecord, DeletePath
<1>5. ASSUME NEW m \in GenIds, TogglePin(m)
      PROVE  OnDisk(m) /\ disk' = disk /\ pins' \subseteq pins \cup {m}
  BY <1>5 DEF TogglePin
<1>6. ASSUME NEW p \in Procs, Crash(p) PROVE pins' = pins
  BY <1>6 DEF Crash
<1>7. CASE UNCHANGED vars
  BY <1>7 DEF vars
<1> QED BY <1>1, <1>2, <1>3, <1>4, <1>5, <1>6, <1>7 DEF Next, WriterStep

\* A generation directory that was there stays, unless a collector removes it.
LEMMA DirectoryStays ==
  ASSUME HouseInv, [Next]_vars, NEW n \in GenIds, OnDisk(n)
  PROVE  \/ OnDisk(n)'
         \/ n \notin pins' /\ \E c \in Collectors : Removes(c, Gen(n))
<1>0. /\ TypeOK /\ newGen \in [Writers -> 0..MaxGen]
      /\ disk \in [Paths -> [dir : {"absent", "present"}, records : Contents]]
  BY DEF HouseInv, CasInv, TypeOK
<1>1. CASE disk'[Gen(n)] = disk[Gen(n)]
  BY <1>1 DEF OnDisk
<1>2. ASSUME NEW w \in Writers, SaveRename(w), newGen[w] = n
      PROVE  OnDisk(n)'
  <2>1. disk'[Gen(n)] = disk[Tmp(n)]
    BY <1>0, <1>2, PathNames DEF SaveRename
  <2>2. disk[Tmp(n)] = Bundle(handle[w].index)
    BY <1>2 DEF HouseInv, Scratch, SaveRename
  <2> QED BY <2>1, <2>2 DEF OnDisk, Bundle
<1> QED BY <1>0, <1>1, <1>2, DirectoryStep

LEMMA PinsOnDiskStep == HouseInv /\ [Next]_vars => PinsOnDisk'
<1> SUFFICES ASSUME HouseInv, [Next]_vars, NEW n \in pins'
             PROVE  OnDisk(n)'
  BY DEF PinsOnDisk
<1>1. CASE n \in pins
  <2>1. n \in GenIds /\ OnDisk(n)
    BY <1>1 DEF HouseInv, CasInv, TypeOK, PinsOnDisk
  <2> QED BY <2>1, DirectoryStays
<1>2. CASE n \notin pins
  BY <1>2, PinsStep DEF HouseInv, CasInv, OnDisk
<1> QED BY <1>1, <1>2

\* Only one path at a time is first.
LEMMA FirstIsUnique ==
  ASSUME NEW S \in SUBSET Paths, NEW p \in Paths, NEW q \in Paths,
         IsFirst(p, S), IsFirst(q, S)
  PROVE  p = q
<1>1. Before(p, q) /\ Before(q, p)
  BY DEF IsFirst
<1>2. PICK k \in {"gen", "tmp"}, m \in GenIds : p = <<k, m>>
  BY DEF Paths
<1>3. PICK l \in {"gen", "tmp"}, n \in GenIds : q = <<l, n>>
  BY DEF Paths
<1>4. k = l
  BY <1>1, <1>2, <1>3 DEF Before
<1>5. m <= n /\ n <= m
  BY <1>1, <1>2, <1>3, <1>4 DEF Before
<1> QED BY <1>2, <1>3, <1>4, <1>5 DEF GenIds

\* What a recovery leaves alone between its ledger reads and its transaction.
LEMMA RecoverySteps ==
  ASSUME TypeOK, NEW c \in Collectors, GcRecoverCheck(c) \/ GcRecoverRemove(c)
  PROVE  /\ pc[c] \in {"gcRecover", "gcRemove"} /\ pc'[c] \in {"gcRecover", "gcRemove"}
         /\ db' = db /\ rev' = rev
         /\ gc'[c].pinned = gc[c].pinned /\ gc'[c].reclaim = gc[c].reclaim
         /\ gc'[c].todo \subseteq gc[c].todo
<1>0. /\ c \in Procs /\ pc \in [Procs -> Labels] /\ gc[c] \in GcStates
      /\ gc \in [Collectors -> GcStates]
  BY DEF TypeOK, Procs
<1>1. CASE GcRecoverCheck(c)
  <2>1. pc[c] = "gcRecover" /\ db' = db /\ rev' = rev
        /\ (pc' = pc \/ Goto(c, "gcRemove"))
    BY <1>1 DEF GcRecoverCheck
  <2>2. PICK p : \/ gc' = [gc EXCEPT ![c].todo = @ \ {p}]
                 \/ gc' = [gc EXCEPT ![c].todo = @ \ {p}, ![c].recovered = @ \cup {p}]
                 \/ gc' = [gc EXCEPT ![c].looked = pins]
    BY <1>1 DEF GcRecoverCheck
  <2>3. /\ gc'[c].pinned = gc[c].pinned /\ gc'[c].reclaim = gc[c].reclaim
        /\ gc'[c].todo \subseteq gc[c].todo
    BY <1>0, <2>2 DEF GcStates
  <2> QED BY <1>0, <2>1, <2>3 DEF Goto
<1>2. CASE GcRecoverRemove(c)
  <2>1. pc[c] = "gcRemove" /\ db' = db /\ rev' = rev /\ Goto(c, "gcRecover")
    BY <1>2 DEF GcRecoverRemove
  <2>2. PICK p : gc' = [gc EXCEPT ![c].todo = @ \ {p}, ![c].looked = {},
                                  ![c].recovered = @ \cup {p}]
    BY <1>2 DEF GcRecoverRemove
  <2>3. /\ gc'[c].pinned = gc[c].pinned /\ gc'[c].reclaim = gc[c].reclaim
        /\ gc'[c].todo \subseteq gc[c].todo
    BY <1>0, <2>2 DEF GcStates
  <2> QED BY <1>0, <2>1, <2>3 DEF Goto
<1> QED BY <1>1, <1>2

\* The list a collector makes has no pinned generation, and none is added.
LEMMA ListingStep ==
  ASSUME CasInv, [Next]_vars, NEW c \in Collectors, Listing(c)
  PROVE  Listing(c)'
<1>0. /\ gc \in [Collectors -> GcStates] /\ gc[c] \in GcStates
      /\ TypeOK /\ c \in Procs /\ pc \in [Procs -> Labels]
  BY DEF CasInv, TypeOK, Procs
<1>a. ASSUME gc'[c].pinned = gc[c].pinned, gc'[c].reclaim = gc[c].reclaim,
             pc'[c] # "gcRemove"
      PROVE  Listing(c)'
  BY <1>a DEF Listing
<1>1. CASE CollectorOthers(c)
  BY <1>1, CollectorAlone DEF Listing
<1>2. CASE Crash(c) \/ GcOpen(c)
  <2>1. gc'[c] = NoGc /\ pc'[c] # "gcRemove"
    BY <1>0, <1>2 DEF Crash, GcOpen, Finish, Goto
  <2> QED BY <2>1 DEF Listing, NoGc
<1>3. CASE GcScan(c)
  <2>1. /\ gc'[c].pinned = Retained(c) \cap pins
        /\ gc'[c].reclaim = {Gen(n) : n \in BeyondBudget(Retained(c) \ pins)}
                              \cup {Tmp(n) : n \in {m \in GenIds : disk[Tmp(m)] # Absent}}
    BY <1>0, <1>3 DEF GcScan, GcStates
  <2>4. pc'[c] # "gcRemove"
    BY <1>0, <1>3 DEF GcScan, Goto
  <2> SUFFICES ASSUME NEW n \in gc'[c].pinned
               PROVE  Gen(n) \notin gc'[c].reclaim
    BY <2>4 DEF Listing
  <2>2. n \in GenIds /\ n \in pins
    BY <2>1 DEF Retained, GensOnDisk
  <2>3. n \notin BeyondBudget(Retained(c) \ pins)
    BY <2>2 DEF BeyondBudget
  <2> QED BY <2>1, <2>2, <2>3, PathNames
<1>4. CASE GcLedger(c) \/ GcDeleteOne(c)
  <2>1. gc'[c].pinned = gc[c].pinned /\ gc'[c].reclaim = gc[c].reclaim
    <3>1. CASE GcLedger(c)
      BY <1>0, <3>1 DEF GcLedger, GcStates
    <3>2. CASE GcDeleteOne(c)
      BY <1>0, <3>2 DEF GcDeleteOne, GcStates
    <3> QED BY <1>4, <3>1, <3>2
  <2>2. pc'[c] # "gcRemove"
    BY <1>0, <1>4 DEF GcLedger, GcDeleteOne, Finish, Goto
  <2> QED BY <1>a, <2>1, <2>2
<1>6. CASE GcRecoverCheck(c)
  <2>1. CASE pc' = pc
    <3>1. pc'[c] # "gcRemove"
      BY <1>6, <2>1 DEF GcRecoverCheck
    <3> QED BY <1>0, <1>6, <1>a, <3>1, RecoverySteps
  <2>2. CASE pc' # pc
    <3>1. PICK p \in Paths : /\ IsFirst(p, gc[c].todo) /\ ~IsPinned(p)
                             /\ gc' = [gc EXCEPT ![c].looked = pins]
      BY <1>6, <2>2 DEF GcRecoverCheck
    <3>2. gc'[c].looked = pins /\ gc'[c].todo = gc[c].todo
      BY <1>0, <3>1 DEF GcStates
    <3>3. ASSUME NEW n \in pins
          PROVE  ~IsFirst(Gen(n), gc[c].todo)
      <4>1. Gen(n) \in Paths /\ IsPinned(Gen(n)) /\ gc[c].todo \in SUBSET Paths
        BY <1>0, PathNames DEF TypeOK, GcStates, IsPinned, Gen
      <4> QED BY <3>1, <4>1, FirstIsUnique
    <3>4. gc'[c].pinned = gc[c].pinned /\ gc'[c].reclaim = gc[c].reclaim
      BY <1>0, <1>6, RecoverySteps
    <3> QED BY <3>2, <3>3, <3>4 DEF Listing
  <2> QED BY <2>1, <2>2
<1>7. CASE GcRecoverRemove(c)
  <2>1. pc'[c] # "gcRemove"
    BY <1>0, <1>7 DEF GcRecoverRemove, Goto
  <2> QED BY <1>0, <1>7, <1>a, <2>1, RecoverySteps
<1>5. CASE GcAcquire(c) \/ GcRecordRecovered(c) \/ GcRecordReclaimable(c)
           \/ GcRecordDeleting(c) \/ GcRecordDeleted(c) \/ GcReport(c)
  <2>1. gc' = gc
    BY <1>5 DEF GcAcquire, GcRecordRecovered, GcRecordReclaimable, GcRecordDeleting,
                GcRecordDeleted, GcReport, GcRecord
  <2>2. pc'[c] # "gcRemove"
    BY <1>0, <1>5 DEF GcAcquire, GcRecordRecovered, GcRecordReclaimable, GcRecordDeleting,
                GcRecordDeleted, GcReport, GcRecord, Finish, Goto
  <2> QED BY <1>a, <2>1, <2>2
<1> QED BY <1>1, <1>2, <1>3, <1>4, <1>5, <1>6, <1>7, CollectorOwnOrOthers DEF GcStep

\* A path that a recovery or a deletion removes is on the list it works on.
LEMMA UnsettledGrows ==
  ASSUME TypeOK, NEW c \in Collectors, NEW p \in Paths, DeletePath(p),
         db' = db, rev' = rev
  PROVE  Unsettled(c)' \subseteq Unsettled(c) \cup {p}
<1>1. \A q \in Paths : q # p => disk'[q] = disk[q]
  BY DEF DeletePath, TypeOK
<1> QED BY <1>1 DEF Unsettled, Deleting

LEMMA SettledRecord ==
  ASSUME TypeOK, NEW c \in Collectors, NEW paths \in SUBSET Paths, NEW count,
         NEW state, state # "deleting", NEW label,
         GcRecord(c, paths, count, state, label)
  PROVE  pc'[c] = "idle" \/ (pc'[c] = label /\ Unsettled(c)' = Unsettled(c) \ paths)
<1> SUFFICES ASSUME pc'[c] # "idle"
             PROVE  pc'[c] = label /\ Unsettled(c)' = Unsettled(c) \ paths
  OBVIOUS
<1>0. RecordedAs(c, Deleting \ paths, label)
  BY DeletingSettled
<1>1. /\ disk' = disk /\ pc'[c] = label
      /\ rev[c] = Revision(db) /\ rev'[c] = Revision(db') /\ db'.active = db.active
      /\ Deleting' = Deleting \ paths
  BY <1>0 DEF RecordedAs, Recorded
<1>2. rev'[c].active = rev[c].active
  BY <1>1 DEF Revision
<1> QED BY <1>1, <1>2 DEF Unsettled

LEMMA SettledStep ==
  ASSUME CasInv, [Next]_vars, NEW c \in Collectors, Settled(c)
  PROVE  Settled(c)'
<1>0. /\ TypeOK /\ c \in Procs /\ pc \in [Procs -> Labels] /\ gc[c] \in GcStates
      /\ gc \in [Collectors -> GcStates] /\ rev \in [Clients \cup Collectors -> Revisions]
  BY DEF CasInv, TypeOK, Procs
<1>a. ASSUME pc'[c] \notin {"gcRecover", "gcRemove", "gcMain", "gcMark", "gcDone", "gcDelete"}
      PROVE  Settled(c)'
  BY <1>a DEF Settled
<1>b. /\ gc[c].reclaim \in SUBSET Paths /\ gc[c].recovered \in SUBSET Paths
      /\ gc[c].deleted \in SUBSET Paths
  BY <1>0 DEF GcStates
<1>1. CASE CollectorOthers(c)
  <2>1. /\ pc'[c] = pc[c] /\ gc'[c] = gc[c] /\ rev'[c] = rev[c]
        /\ pc[c] \in CollectorLabels => db' = db /\ disk' = disk
    BY <1>1, CollectorAlone
  <2>2. pc[c] \in CollectorLabels => Unsettled(c)' = Unsettled(c)
    BY <2>1 DEF Unsettled, Deleting
  <2> QED BY <2>1, <2>2 DEF Settled, CollectorLabels
<1>2. CASE Crash(c) \/ GcOpen(c) \/ GcScan(c) \/ GcAcquire(c) \/ GcReport(c)
  <2>1. pc'[c] \in {"idle", "gcScan", "gcLock", "gcLedger"}
    BY <1>0, <1>2 DEF Crash, GcOpen, GcScan, GcAcquire, GcReport, Finish, Goto
  <2> QED BY <1>a, <2>1
<1>3. CASE GcLedger(c)
  <2>1. CASE Finish(c, "failed")
    BY <1>0, <1>a, <2>1 DEF Finish, Goto
  <2>2. CASE /\ gc' = [gc EXCEPT ![c].todo =
                  {p \in Paths : db.gc_latest[p] = "deleting"} \ {Gen(rev[c].active)}]
             /\ Goto(c, "gcRecover")
    <3>1. pc'[c] = "gcRecover" /\ gc'[c].todo = Deleting \ {Gen(rev[c].active)}
      BY <1>0, <2>2 DEF Goto, GcStates, Deleting
    <3>2. db' = db /\ disk' = disk /\ rev' = rev
      BY <1>3 DEF GcLedger
    <3>3. Unsettled(c)' = Unsettled(c)
      BY <3>2 DEF Unsettled, Deleting
    <3> QED BY <3>1, <3>3 DEF Settled, Unsettled
  <2> QED BY <1>3, <2>1, <2>2 DEF GcLedger
<1>4. CASE GcRecoverCheck(c) \/ GcRecoverRemove(c)
  <2>0. /\ pc[c] \in {"gcRecover", "gcRemove"} /\ pc'[c] \in {"gcRecover", "gcRemove"}
        /\ db' = db /\ rev' = rev
        /\ Unsettled(c) \subseteq gc[c].todo \cup gc[c].recovered
    BY <1>0, <1>4, RecoverySteps DEF Settled
  <2>1. PICK p \in Paths :
          \/ /\ disk[p] # Absent /\ gc' = [gc EXCEPT ![c].todo = @ \ {p}]
             /\ UNCHANGED disk
          \/ gc' = [gc EXCEPT ![c].looked = pins] /\ UNCHANGED disk
          \/ /\ gc' = [gc EXCEPT ![c].todo = @ \ {p}, ![c].recovered = @ \cup {p}]
             /\ UNCHANGED disk
          \/ /\ gc' = [gc EXCEPT ![c].todo = @ \ {p}, ![c].looked = {},
                                  ![c].recovered = @ \cup {p}]
             /\ DeletePath(p)
    BY <1>4 DEF GcRecoverCheck, GcRecoverRemove
  <2>2. CASE disk[p] # Absent /\ gc' = [gc EXCEPT ![c].todo = @ \ {p}] /\ UNCHANGED disk
    <3>1. gc'[c].todo = gc[c].todo \ {p} /\ gc'[c].recovered = gc[c].recovered
      BY <1>0, <2>2 DEF GcStates
    <3>2. Unsettled(c)' = Unsettled(c) /\ p \notin Unsettled(c)
      BY <2>0, <2>2 DEF Unsettled, Deleting
    <3> QED BY <2>0, <3>1, <3>2 DEF Settled
  <2>3. CASE /\ gc' = [gc EXCEPT ![c].todo = @ \ {p}, ![c].looked = {},
                                 ![c].recovered = @ \cup {p}]
             /\ DeletePath(p)
    <3>1. gc'[c].todo = gc[c].todo \ {p} /\ gc'[c].recovered = gc[c].recovered \cup {p}
      BY <1>0, <2>3 DEF GcStates
    <3>2. Unsettled(c)' \subseteq Unsettled(c) \cup {p}
      BY <1>0, <2>0, <2>3, UnsettledGrows
    <3> QED BY <2>0, <3>1, <3>2 DEF Settled
  <2>4. CASE gc' = [gc EXCEPT ![c].looked = pins] /\ UNCHANGED disk
    <3>1. gc'[c].todo = gc[c].todo /\ gc'[c].recovered = gc[c].recovered
      BY <1>0, <2>4 DEF GcStates
    <3>2. Unsettled(c)' = Unsettled(c)
      BY <2>0, <2>4 DEF Unsettled, Deleting
    <3> QED BY <2>0, <3>1, <3>2 DEF Settled
  <2>5. CASE /\ gc' = [gc EXCEPT ![c].todo = @ \ {p}, ![c].recovered = @ \cup {p}]
             /\ UNCHANGED disk
    <3>1. gc'[c].todo = gc[c].todo \ {p} /\ gc'[c].recovered = gc[c].recovered \cup {p}
      BY <1>0, <2>5 DEF GcStates
    <3>2. Unsettled(c)' = Unsettled(c)
      BY <2>0, <2>5 DEF Unsettled, Deleting
    <3> QED BY <2>0, <3>1, <3>2 DEF Settled
  <2> QED BY <2>1, <2>2, <2>3, <2>4, <2>5
<1>5. CASE GcRecordRecovered(c)
  <2>1. pc[c] = "gcRecover" /\ Unsettled(c) \subseteq gc[c].recovered
    BY <1>5 DEF GcRecordRecovered, Settled
  <2>2. CASE GcRecord(c, gc[c].recovered, Cardinality(gc[c].recovered), "deleted", "gcMain")
    <3>1. pc'[c] = "idle" \/ (pc'[c] = "gcMain" /\ Unsettled(c)' = Unsettled(c) \ gc[c].recovered)
      <4>1. TypeOK /\ gc[c].recovered \in SUBSET Paths
        BY <1>0, <1>b
      <4> QED BY <2>2, <4>1, SettledRecord
    <3> QED BY <2>1, <3>1 DEF Settled
  <2>3. CASE gc[c].recovered = {} /\ Goto(c, "gcMain") /\ UNCHANGED <<db, disk, rev>>
    <3>1. pc'[c] = "gcMain" /\ Unsettled(c)' = Unsettled(c)
      BY <1>0, <2>3 DEF Goto, Unsettled, Deleting
    <3> QED BY <2>1, <2>3, <3>1 DEF Settled
  <2> QED BY <1>5, <2>2, <2>3 DEF GcRecordRecovered
<1>6. CASE GcRecordReclaimable(c)
  <2>1. pc[c] = "gcMain" /\ Unsettled(c) = {}
    BY <1>6 DEF GcRecordReclaimable, Settled
  <2>2. CASE GcRecord(c, gc[c].reclaim, Cardinality(gc[c].reclaim), "reclaimable", "gcMark")
    <3>1. pc'[c] = "idle" \/ (pc'[c] = "gcMark" /\ Unsettled(c)' = Unsettled(c) \ gc[c].reclaim)
      <4>1. TypeOK /\ gc[c].reclaim \in SUBSET Paths
        BY <1>0, <1>b
      <4> QED BY <2>2, <4>1, SettledRecord
    <3> QED BY <2>1, <3>1 DEF Settled
  <2>3. CASE Finish(c, "ok")
    BY <1>0, <1>a, <2>3 DEF Finish, Goto
  <2> QED BY <1>6, <2>2, <2>3 DEF GcRecordReclaimable
<1>7. CASE GcRecordDeleting(c)
  <2>1. pc[c] = "gcMark" /\ Unsettled(c) = {}
    BY <1>7 DEF GcRecordDeleting, Settled
  <2>2. GcRecord(c, gc[c].reclaim, Cardinality(gc[c].reclaim), "deleting", "gcDelete")
    BY <1>7 DEF GcRecordDeleting
  <2>3. CASE pc'[c] = "idle"
    BY <1>a, <2>3
  <2>4. CASE pc'[c] # "idle"
    <3>0. TypeOK /\ gc[c].reclaim \in SUBSET Paths
      BY <1>0, <1>b
    <3>a. RecordedAs(c, Deleting \cup gc[c].reclaim, "gcDelete")
      BY <2>2, <2>4, <3>0, DeletingAnnounced
    <3>1. /\ disk' = disk /\ gc' = gc /\ pc'[c] = "gcDelete"
          /\ rev[c] = Revision(db) /\ rev'[c] = Revision(db') /\ db'.active = db.active
          /\ Deleting' = Deleting \cup gc[c].reclaim
      BY <3>a DEF RecordedAs, Recorded
    <3>2. rev'[c].active = rev[c].active
      BY <3>1 DEF Revision
    <3>3. Unsettled(c)' \subseteq Unsettled(c) \cup gc[c].reclaim
      BY <3>1, <3>2 DEF Unsettled
    <3> QED BY <2>1, <3>1, <3>3 DEF Settled
  <2> QED BY <2>3, <2>4
<1>8. CASE GcDeleteOne(c)
  <2>0. /\ pc[c] = "gcDelete" /\ db' = db /\ rev' = rev /\ Unsettled(c) \subseteq gc[c].reclaim
    BY <1>8 DEF GcDeleteOne, Settled
  <2>1. PICK p \in Paths :
          /\ p \in gc[c].reclaim
          /\ \/ /\ DeletePath(p)
                /\ gc' = [gc EXCEPT ![c].deleted = @ \cup {p}]
                /\ UNCHANGED pc
             \/ Finish(c, "failed")
    BY <1>8 DEF GcDeleteOne, IsFirst
  <2>2. CASE Finish(c, "failed")
    BY <1>0, <1>a, <2>2 DEF Finish, Goto
  <2>3. CASE DeletePath(p) /\ gc' = [gc EXCEPT ![c].deleted = @ \cup {p}] /\ UNCHANGED pc
    <3>1. gc'[c].reclaim = gc[c].reclaim
      BY <1>0, <2>3 DEF GcStates
    <3>2. Unsettled(c)' \subseteq Unsettled(c) \cup {p}
      BY <1>0, <2>0, <2>3, UnsettledGrows
    <3> QED BY <2>0, <2>1, <2>3, <3>1, <3>2 DEF Settled
  <2> QED BY <2>1, <2>2, <2>3
<1>9. CASE GcRecordDeleted(c)
  <2>1. /\ pc[c] = "gcDelete" /\ gc[c].deleted = gc[c].reclaim
        /\ Unsettled(c) \subseteq gc[c].reclaim
        /\ GcRecord(c, gc[c].recovered \cup gc[c].deleted,
                    Cardinality(gc[c].recovered) + Cardinality(gc[c].deleted),
                    "deleted", "gcDone")
    BY <1>9 DEF GcRecordDeleted, Settled
  <2>2. \/ pc'[c] = "idle"
        \/ /\ pc'[c] = "gcDone"
           /\ Unsettled(c)' = Unsettled(c) \ (gc[c].recovered \cup gc[c].deleted)
    <3>1. TypeOK /\ gc[c].recovered \cup gc[c].deleted \in SUBSET Paths
      BY <1>0, <1>b
    <3> QED BY <2>1, <3>1, SettledRecord
  <2> QED BY <2>1, <2>2 DEF Settled
<1> QED
  BY <1>1, <1>2, <1>3, <1>4, <1>5, <1>6, <1>7, <1>8, <1>9, CollectorOwnOrOthers DEF GcStep

LEMMA HouseInvInit == Init => HouseInv
<1> SUFFICES ASSUME Init PROVE HouseInv
  OBVIOUS
<1>1. CasInv
  BY WInvInit DEF WInv
<1>2. \A w \in Writers : Scratch(w)
  BY DEF Init, Scratch, Procs
<1>3. PinsOnDisk
  BY DEF Init, PinsOnDisk
<1>4. \A c \in Collectors : Listing(c) /\ Settled(c)
  BY DEF Init, Listing, Settled, NoGc, Procs
<1> QED BY <1>1, <1>2, <1>3, <1>4 DEF HouseInv

LEMMA CasInvStep == CasInv /\ [Next]_vars => CasInv'
BY TypeStep, LockStep, FirstCommitStep DEF CasInv

LEMMA HouseInvStep == HouseInv /\ [Next]_vars => HouseInv'
BY CasInvStep, ScratchStep, PinsOnDiskStep, ListingStep, SettledStep DEF HouseInv

\* A gc run that reports success has recorded every announced deletion that
\* happened, its own and those of the run it recovered from, whatever died in
\* between: nothing else touches the ledger or vectors/ while it has the lock.
THEOREM OkRunsSettleLedger == Spec => OkSettlesLedger
<1>1. HouseInv /\ [Next]_vars =>
        [\A c \in Collectors :
           (pc[c] # "idle" /\ outcome'[c] = "ok" /\ pc'[c] = "idle") =>
             \A p \in Paths : db.gc_latest[p] = "deleting" =>
               disk[p] # Absent \/ p = Gen(rev[c].active)]_vars
  <2> SUFFICES ASSUME HouseInv, [Next]_vars, NEW c \in Collectors,
                      pc[c] # "idle", outcome'[c] = "ok", pc'[c] = "idle"
               PROVE  Unsettled(c) = {}
    BY DEF Unsettled, Deleting
  <2>0. /\ CasInv /\ TypeOK /\ c \in Procs /\ pc \in [Procs -> Labels]
        /\ outcome \in [Procs -> Outcomes]
    BY DEF HouseInv, CasInv, TypeOK, Procs
  <2>1. ~CollectorOthers(c)
    BY <2>0, CollectorAlone
  <2>2. ~Crash(c) /\ ~GcOpen(c)
    BY <2>0 DEF Crash, GcOpen, Finish, Goto
  <2>3. GcStep(c)
    BY <2>1, <2>2, CollectorOwnOrOthers
  <2>4. pc[c] \in {"gcMain", "gcDone"}
    BY <2>0, <2>3
    DEF GcStep, GcScan, GcAcquire, GcLedger, GcRecoverCheck, GcRecoverRemove, GcRecordRecovered,
        GcRecordReclaimable, GcRecordDeleting, GcDeleteOne, GcRecordDeleted, GcReport,
        GcRecord, Finish, Goto
  <2> QED BY <2>4 DEF HouseInv, Settled
<1> QED BY <1>1, HouseInvInit, HouseInvStep, PTL DEF Spec, OkSettlesLedger

\* No interleaving of pins, saves, crashes and two gc runs removes a pinned
\* generation, unless the pin was placed after the run that removes it had
\* looked: when it listed the generations, or, for a directory an interrupted
\* run announced, when recovery came to it.
THEOREM SeenPinsAreKept == Spec => PinsSeenAreKept
<1>1. HouseInv /\ [Next]_vars =>
        [\A n \in pins : OnDisk(n)' \/
           \E c \in Collectors :
             \/ pc[c] = "gcDelete" /\ n \notin gc[c].pinned
             \/ pc[c] = "gcRemove" /\ n \notin gc[c].looked]_vars
  <2> SUFFICES ASSUME HouseInv, [Next]_vars, NEW n \in pins, ~OnDisk(n)'
               PROVE  \E c \in Collectors :
                        \/ pc[c] = "gcDelete" /\ n \notin gc[c].pinned
                        \/ pc[c] = "gcRemove" /\ n \notin gc[c].looked
    OBVIOUS
  <2>1. n \in GenIds /\ OnDisk(n)
    BY DEF HouseInv, CasInv, TypeOK, PinsOnDisk
  <2>2. PICK c \in Collectors : Removes(c, Gen(n))
    BY <2>1, DirectoryStays
  <2> QED BY <2>2 DEF Removes, HouseInv, Listing
<1> QED BY <1>1, HouseInvInit, HouseInvStep, PTL DEF Spec, PinsSeenAreKept

-----------------------------------------------------------------------------
(* A generation, the manifest and a handle hold the same records           *)

RecordedDigest == db.digest = Records(db.payload)
BundleKept == db.active # 0 /\ OnDisk(db.active) => disk[Gen(db.active)].records = db.digest

\* A handle's vectors are those of its ids, except while it is being loaded;
\* then its payloads and the bundle they name belong together.
Paired(w) ==
  pc[w] \notin {"loadToken", "loadIndex"} => handle[w].index = Records(handle[w].edits)
SourceKept(src) ==
  src.active # 0 =>
    /\ src.active \in RecordedGens(db)
    /\ OnDisk(src.active) => disk[Gen(src.active)].records = src.digest
Loading(w) ==
  pc[w] \in {"loadToken", "loadIndex"} =>
    /\ outcome[w] = "none"
    /\ handle[w].src.digest = Records(handle[w].edits)
    /\ handle[w].src.active = 0 => Records(handle[w].edits) = {}
    /\ SourceKept(handle[w].src)

BundleInv ==
  /\ CountInv
  /\ RecordedDigest /\ BundleKept
  /\ \A w \in Writers : Scratch(w) /\ Paired(w) /\ Loading(w)

\* The generations table never loses a row, and keeps one for the active
\* generation.
LEMMA RecordedStay ==
  ASSUME Republishers = {}, CountInv, [Next]_vars
  PROVE  RecordedGens(db) \subseteq RecordedGens(db')
<1>0. db \in Databases /\ db.generations \in [GenIds -> Rows]
  BY DEF CountInv, WInv, CasInv, TypeOK, Databases
<1>a. ASSUME db'.generations = db.generations
      PROVE  RecordedGens(db) \subseteq RecordedGens(db')
  BY <1>a DEF RecordedGens
<1>1. CASE db.file = "absent" /\ db' = [db EXCEPT !.file = "created"]
  <2>1. db'.generations = db.generations
    BY <1>0, <1>1 DEF Databases
  <2> QED BY <1>a, <2>1
<1>2. ASSUME NEW w \in Writers, Snapshots(w)
      PROVE  RecordedGens(db) \subseteq RecordedGens(db')
  <2>0. newGen[w] \in 0..MaxGen
    BY DEF CountInv, WInv, CasInv, TypeOK
  <2>1. PICK digest : db' = SnapshotTxn(db, newGen[w], handle[w].edits, digest)
    BY <1>2 DEF Snapshots, CommitSnapshot
  <2>2. db'.generations = IF newGen[w] = 0 THEN db.generations
                          ELSE [n \in GenIds |-> IF n = newGen[w] THEN ActiveRow
                                                 ELSE Retire(db.generations[n], db.seq + 1)]
    BY <1>0, <2>0, <2>1, SnapshotRows
  <2>3. \A n \in GenIds : Retire(db.generations[n], db.seq + 1).state = "none"
                            => db.generations[n].state = "none"
    BY <1>0 DEF Retire, Rows
  <2> QED BY <2>2, <2>3 DEF RecordedGens, ActiveRow
<1>3. ASSUME NEW k, db' = PatchTxn(db, k) PROVE db'.generations = db.generations
  BY <1>0, <1>3, PatchParts
<1>4. ASSUME NEW paths, NEW count, NEW state, db' = GcTxn(db, paths, count, state)
      PROVE  db'.generations = db.generations
  BY <1>0, <1>4, GcParts
<1>5. ~Replaces
  BY DEF Replaces
<1> QED BY <1>1, <1>2, <1>3, <1>4, <1>5, <1>a, StoreStep
        DEF Patches, Collects, CountInv, WInv, CasInv

LEMMA ActiveRecorded ==
  ASSUME CountInv, db.active # 0
  PROVE  db.active \in RecordedGens(db)
<1>1. db.active \in ActiveRows(db)
  BY DEF CountInv, Counted, GenerationRecordsMatch
<1> QED BY <1>1 DEF ActiveRows, RecordedGens

\* What a recorded generation holds does not change as long as it is there:
\* its id is not used again.
LEMMA RecordedBundleStays ==
  ASSUME CountInv, [Next]_vars, NEW n \in RecordedGens(db), OnDisk(n)'
  PROVE  disk'[Gen(n)] = disk[Gen(n)]
<1>0. TypeOK /\ n \in GenIds /\ n <= db.active /\ db.active \in 0..MaxGen /\ MaxGen \in Nat
  BY BoundAssumption
  DEF CountInv, WInv, CasInv, TypeOK, Databases, RecordedGens, Counted, ActiveIsNewest
<1>1. ASSUME NEW w \in Writers, SaveRename(w), newGen[w] = n
      PROVE  FALSE
  <2>1. n # 0
    BY <1>0 DEF GenIds
  <2>2. n > db.active
    BY <1>1, <2>1 DEF CountInv, Newer, SaveRename
  <2> QED BY <1>0, <2>2 DEF GenIds
<1>2. disk'[Gen(n)] # Absent
  BY DEF OnDisk, Absent
<1> QED BY <1>0, <1>1, <1>2, DirectoryStep

LEMMA SourceKeptStep ==
  ASSUME Republishers = {}, CountInv, [Next]_vars, NEW src, SourceKept(src)
  PROVE  src.active # 0 =>
           /\ src.active \in RecordedGens(db')
           /\ OnDisk(src.active)' => disk'[Gen(src.active)].records = src.digest
<1> SUFFICES ASSUME src.active # 0
             PROVE  /\ src.active \in RecordedGens(db')
                    /\ OnDisk(src.active)' => disk'[Gen(src.active)].records = src.digest
  OBVIOUS
<1>1. src.active \in RecordedGens(db)
  BY DEF SourceKept
<1>2. ASSUME OnDisk(src.active)'
      PROVE  disk'[Gen(src.active)].records = src.digest
  <2>1. disk'[Gen(src.active)] = disk[Gen(src.active)]
    BY <1>1, <1>2, RecordedBundleStays
  <2> QED BY <1>2, <2>1 DEF SourceKept, OnDisk
<1> QED BY <1>1, <1>2, RecordedStay

\* The digest a commit writes is that of the records it writes, and of the
\* bundle it names.
LEMMA ManifestStep ==
  ASSUME Republishers = {}, BundleInv, [Next]_vars
  PROVE  RecordedDigest' /\ BundleKept'
<1>0. db \in Databases /\ CountInv /\ RecordedDigest /\ BundleKept
  BY DEF BundleInv, CountInv, WInv, CasInv, TypeOK
<1>a. ASSUME db'.active = db.active, db'.digest = db.digest,
             Records(db'.payload) = Records(db.payload)
      PROVE  RecordedDigest' /\ BundleKept'
  <2>1. RecordedDigest'
    BY <1>0, <1>a DEF RecordedDigest
  <2>2. ASSUME db.active # 0, OnDisk(db.active)'
        PROVE  disk'[Gen(db.active)].records = db.digest
    <3>1. disk'[Gen(db.active)] = disk[Gen(db.active)]
      <4>1. db.active \in RecordedGens(db)
        BY <1>0, <2>2, ActiveRecorded
      <4>2. disk'[Gen(db.active)].dir = "present"
        BY <1>a, <2>2 DEF OnDisk
      <4> DEFINE n == db.active
      <4>3. ASSUME NEW m \in RecordedGens(db), disk'[Gen(m)].dir = "present"
            PROVE  disk'[Gen(m)] = disk[Gen(m)]
        BY <1>0, <4>3, RecordedBundleStays DEF OnDisk
      <4> QED BY <4>1, <4>2, <4>3
    <3>2. disk'[Gen(db.active)].dir = "present"
      BY <1>a, <2>2 DEF OnDisk
    <3> QED BY <1>0, <2>2, <3>1, <3>2 DEF BundleKept, OnDisk
  <2>3. BundleKept'
    BY <1>a, <2>2 DEF BundleKept, OnDisk
  <2> QED BY <2>1, <2>3
<1>1. CASE db' = db
  BY <1>1, <1>a
<1>2. CASE db.file = "absent" /\ db' = [db EXCEPT !.file = "created"]
  <2>1. db'.active = db.active /\ db'.digest = db.digest /\ db'.payload = db.payload
    BY <1>0, <1>2 DEF Databases
  <2> QED BY <1>a, <2>1
<1>3. ASSUME NEW w \in Writers, Snapshots(w)
      PROVE  RecordedDigest' /\ BundleKept'
  <2> DEFINE digest == IF newGen[w] = 0 THEN {} ELSE disk[Gen(newGen[w])].records
  <2>0. newGen[w] \in 0..MaxGen /\ pc[w] \in {"commit", "create"} /\ disk' = disk
    BY <1>3 DEF BundleInv, CountInv, WInv, CasInv, TypeOK, Snapshots
  <2>1. db' = SnapshotTxn(db, newGen[w], handle[w].edits, digest)
    BY <1>3 DEF Snapshots, CommitSnapshot
  <2>2. db'.active = newGen[w] /\ db'.digest = digest /\ db'.payload = handle[w].edits
    BY <1>0, <2>0, <2>1, SnapshotParts
  <2>3. digest = handle[w].index
    <3>1. IF newGen[w] = 0 THEN handle[w].index = {}
                           ELSE disk[Gen(newGen[w])] = Bundle(handle[w].index)
      BY <2>0 DEF BundleInv, Scratch, IsEmptyLazy
    <3>2. Bundle(handle[w].index).records = handle[w].index
      BY DEF Bundle
    <3> QED BY <3>1, <3>2
  <2>4. handle[w].index = Records(handle[w].edits)
    BY <2>0 DEF BundleInv, Paired
  <2>5. RecordedDigest'
    BY <2>2, <2>3, <2>4 DEF RecordedDigest
  <2>6. newGen[w] # 0 => disk'[Gen(newGen[w])].records = digest
    BY <2>0
  <2>7. BundleKept'
    BY <2>2, <2>6 DEF BundleKept
  <2> QED BY <2>5, <2>7
<1>4. ASSUME NEW k \in Clients, db' = PatchTxn(db, k)
      PROVE  RecordedDigest' /\ BundleKept'
  <2>1. db'.active = db.active /\ db'.digest = db.digest /\ db'.payload = db.payload \cup {k}
    BY <1>0, <1>4, PatchParts
  <2>2. Records(db'.payload) = Records(db.payload)
    BY <2>1, ProcAssumption DEF Records
  <2> QED BY <1>a, <2>1, <2>2
<1>5. ASSUME NEW paths, NEW count, NEW state, db' = GcTxn(db, paths, count, state)
      PROVE  RecordedDigest' /\ BundleKept'
  <2>1. db'.active = db.active /\ db'.digest = db.digest /\ db'.payload = db.payload
    BY <1>0, <1>5, GcParts
  <2> QED BY <1>a, <2>1
<1>6. ~Replaces
  BY DEF Replaces
<1> QED BY <1>1, <1>2, <1>3, <1>4, <1>5, <1>6, StoreStep
        DEF Patches, Collects, BundleInv, CountInv, WInv, CasInv

\* A save leaves its handle's ids and vectors alone, and ends outside a load.
LEMMA SavePairs ==
  ASSUME BundleInv, NEW w \in Writers, SaveAcquire(w) \/ SaveStep(w)
  PROVE  Paired(w)' /\ Loading(w)'
<1>0. /\ w \in Procs /\ pc \in [Procs -> Labels] /\ handle \in [Writers -> Handles]
      /\ handle[w] \in Handles
  BY DEF BundleInv, CountInv, WInv, CasInv, TypeOK, Procs
<1>1. pc[w] \notin {"loadToken", "loadIndex"}
  BY DEF SaveAcquire, SaveStep, SaveCheckBase, SaveWriteTemp, SaveRename, SaveIoError,
         SaveCommit, SaveFirstTransaction, SaveVerify, SaveRecover
<1>2. pc'[w] \notin {"loadToken", "loadIndex"}
  BY <1>0, <1>1
  DEF SaveAcquire, SaveStep, SaveCheckBase, SaveWriteTemp, SaveRename, SaveIoError,
      SaveCommit, SaveFirstTransaction, SaveVerify, SaveRecover, ReportSaved,
      CommitSnapshot, Finish, Goto
<1>3. handle'[w].index = handle[w].index /\ handle'[w].edits = handle[w].edits
  <2>1. CASE handle' = handle
    BY <2>1
  <2>2. CASE ReportSaved(w)
    BY <1>0, <2>2 DEF ReportSaved, Handles
  <2> QED
    BY <2>1, <2>2
    DEF SaveAcquire, SaveStep, SaveCheckBase, SaveWriteTemp, SaveRename, SaveIoError,
        SaveCommit, SaveFirstTransaction, SaveVerify, SaveRecover
<1> QED BY <1>1, <1>2, <1>3 DEF BundleInv, Paired, Loading

LEMMA LoadPairs ==
  ASSUME BundleInv, NEW w \in Writers, LoadPayloads(w) \/ LoadStep(w) \/ Add(w) \/ Crash(w)
  PROVE  Paired(w)' /\ Loading(w)'
<1>0. /\ w \in Procs /\ pc \in [Procs -> Labels] /\ handle \in [Writers -> Handles]
      /\ handle[w] \in Handles /\ outcome \in [Procs -> Outcomes] /\ CountInv
  BY DEF BundleInv, CountInv, WInv, CasInv, TypeOK, Procs
<1>a. NoHandle.index = Records(NoHandle.edits)
  BY DEF NoHandle, Records
<1>1. CASE LoadPayloads(w)
  <2>1. handle'[w] = [NoHandle EXCEPT !.edits = db.payload, !.src = Revision(db)]
    BY <1>0, <1>1 DEF LoadPayloads
  <2>2. handle'[w].edits = db.payload /\ handle'[w].src = Revision(db)
    BY <2>1 DEF NoHandle
  <2>3. /\ pc'[w] = "loadToken" /\ outcome'[w] = "none" /\ OpenVerifies(0)
        /\ db' = db /\ disk' = disk
    BY <1>0, <1>1 DEF LoadPayloads, Goto
  <2>4. Revision(db).active = db.active /\ Revision(db).digest = db.digest
    BY DEF Revision
  <2>5. db.active = 0 => Records(db.payload) = {}
    BY <2>3 DEF OpenVerifies, GenerationVerifies
  <2>6. SourceKept(Revision(db))
    BY <1>0, <2>4, ActiveRecorded DEF SourceKept, BundleInv, BundleKept
  <2>7. SourceKept(handle[w].src)'
    BY <2>2, <2>3, <2>6 DEF SourceKept, OnDisk
  <2> QED BY <2>2, <2>3, <2>4, <2>5, <2>7 DEF Paired, Loading, BundleInv, RecordedDigest
<1>2. CASE LoadToken(w)
  <2>0. db' = db /\ disk' = disk /\ pc[w] = "loadToken"
    BY <1>2 DEF LoadToken
  <2>1. CASE handle' = [handle EXCEPT ![w].token = Revision(db)] /\ Goto(w, "loadIndex")
             /\ UNCHANGED outcome
    <3>1. /\ handle'[w].edits = handle[w].edits /\ handle'[w].src = handle[w].src
          /\ pc'[w] = "loadIndex" /\ outcome'[w] = outcome[w]
      BY <1>0, <2>1 DEF Goto, Handles
    <3>2. SourceKept(handle[w].src)
      BY <2>0 DEF BundleInv, Loading
    <3>3. SourceKept(handle[w].src)'
      BY <2>0, <3>1, <3>2 DEF SourceKept, OnDisk
    <3> QED BY <2>0, <3>1, <3>3 DEF BundleInv, Loading, Paired
  <2>2. CASE handle' = [handle EXCEPT ![w] = NoHandle] /\ Goto(w, "idle")
    <3>1. handle'[w] = NoHandle /\ pc'[w] = "idle"
      BY <1>0, <2>2 DEF Goto
    <3> QED BY <1>a, <3>1 DEF Paired, Loading
  <2> QED BY <1>2, <2>1, <2>2 DEF LoadToken
<1>3. CASE LoadIndex(w)
  <2> DEFINE src == handle[w].src
             loadable == IF src.active = 0
                           THEN ~vectorsDir
                           ELSE /\ OnDisk(src.active)
                                /\ Cardinality(disk[Gen(src.active)].records)
                                     = Cardinality(Records(handle[w].edits))
             vectors == IF src.active = 0 THEN {} ELSE disk[Gen(src.active)].records
  <2>1. /\ pc[w] = "loadIndex" /\ pc'[w] = "idle"
        /\ handle'[w] = IF loadable THEN [handle[w] EXCEPT !.index = vectors] ELSE NoHandle
    BY <1>0, <1>3 DEF LoadIndex, Goto
  <2>2. loadable => vectors = Records(handle[w].edits)
    BY <2>1 DEF BundleInv, Loading, SourceKept
  <2>3. CASE loadable
    <3>1. handle'[w].index = vectors /\ handle'[w].edits = handle[w].edits
      BY <1>0, <2>1, <2>3 DEF Handles
    <3> QED BY <2>1, <2>2, <2>3, <3>1 DEF Paired, Loading
  <2>4. CASE ~loadable
    BY <1>a, <2>1, <2>4 DEF Paired, Loading
  <2> QED BY <2>3, <2>4
<1>4. CASE Add(w)
  <2>1. handle'[w].edits = handle[w].edits \cup {w} /\ handle'[w].index = handle[w].index \cup {w}
    BY <1>0, <1>4 DEF Add, Handles
  <2>2. pc[w] = "idle" /\ pc' = pc
    BY <1>4 DEF Add
  <2>3. handle[w].index = Records(handle[w].edits)
    BY <2>2 DEF BundleInv, Paired
  <2> QED BY <2>1, <2>2, <2>3 DEF Paired, Loading, Records
<1>5. CASE Crash(w)
  <2>1. handle'[w] = NoHandle /\ pc'[w] = "idle"
    BY <1>0, <1>5 DEF Crash, Finish, Goto
  <2> QED BY <1>a, <2>1 DEF Paired, Loading
<1> QED BY <1>1, <1>2, <1>3, <1>4, <1>5 DEF LoadStep

LEMMA OthersPair ==
  ASSUME Republishers = {}, BundleInv, [Next]_vars, NEW w \in Writers, OthersStep(w)
  PROVE  Paired(w)' /\ Loading(w)'
<1>0. CountInv /\ CasInv
  BY DEF BundleInv, CountInv, WInv
<1>1. pc'[w] = pc[w] /\ handle'[w] = handle[w] /\ outcome'[w] = outcome[w]
  BY <1>0, HolderAlone
<1>2. ASSUME SourceKept(handle[w].src)
      PROVE  SourceKept(handle[w].src)'
  <2>1. \A src : SourceKept(src) =>
          (src.active # 0 =>
             /\ src.active \in RecordedGens(db')
             /\ disk'[Gen(src.active)].dir = "present" =>
                  disk'[Gen(src.active)].records = src.digest)
    BY <1>0, SourceKeptStep DEF OnDisk
  <2> QED BY <1>1, <1>2, <2>1 DEF SourceKept, OnDisk
<1>3. Paired(w)'
  BY <1>1 DEF BundleInv, Paired
<1>4. Loading(w)'
  BY <1>1, <1>2 DEF BundleInv, Loading
<1> QED BY <1>3, <1>4

LEMMA BundleInvStep ==
  ASSUME Republishers = {}
  PROVE  BundleInv /\ [Next]_vars => BundleInv'
<1> SUFFICES ASSUME BundleInv, [Next]_vars PROVE BundleInv'
  OBVIOUS
<1>1. CountInv'
  BY CountInvStep DEF BundleInv
<1>2. RecordedDigest' /\ BundleKept'
  BY ManifestStep
<1>3. ASSUME NEW w \in Writers PROVE Scratch(w)'
  BY ScratchStep DEF BundleInv, CountInv, WInv
<1>4. ASSUME NEW w \in Writers PROVE Paired(w)' /\ Loading(w)'
  BY OwnOrOthers, SavePairs, LoadPairs, OthersPair DEF WriterStep
<1> QED BY <1>1, <1>2, <1>3, <1>4 DEF BundleInv

LEMMA BundleInvInit == Init => BundleInv
<1> SUFFICES ASSUME Init PROVE BundleInv
  OBVIOUS
<1>1. CountInv
  BY CountInvInit
<1>2. RecordedDigest /\ BundleKept
  BY DEF Init, EmptyDb, RecordedDigest, BundleKept, Records
<1>3. \A w \in Writers : Scratch(w) /\ Paired(w) /\ Loading(w)
  <2> SUFFICES ASSUME NEW w \in Writers PROVE Scratch(w) /\ Paired(w) /\ Loading(w)
    OBVIOUS
  <2>1. pc[w] = "idle" /\ handle[w] = NoHandle
    BY DEF Init, Procs
  <2> QED BY <2>1 DEF Scratch, Paired, Loading, NoHandle, Records
<1> QED BY <1>1, <1>2, <1>3 DEF BundleInv

\* As long as nobody republishes an old generation, the three reads of a load
\* cannot pair the ids of one snapshot with the vectors of another, although
\* the load only compares their number: while the payloads' generation is
\* there it is the one they were saved with, and when gc has taken it its id
\* is not given to a later one.
THEOREM LoadedHandlesAgree ==
  ASSUME Republishers = {}
  PROVE  Spec => []LoadedHandleConsistent
<1>1. BundleInv => LoadedHandleConsistent
  BY DEF BundleInv, Paired, Loading, LoadedHandleConsistent
<1> QED BY <1>1, BundleInvInit, BundleInvStep, PTL DEF Spec

-----------------------------------------------------------------------------
(* The retention budget of a gc run                                        *)

\* At least Retain members of S are newer than generation n.
Enough(S, n) == Cardinality({m \in S : m > n}) >= Retain

\* Generations that are there, are not active and are not announced for
\* deletion; the generation of a save that has not committed yet may still
\* become the active one.
Safe == {m \in GensOnDisk \ {db.active} : Gen(m) \notin Deleting}
InFlight == {newGen[w] : w \in {v \in Writers : pc[v] \in {"commit", "create"}}}
Kept == Safe \ InFlight
Spared(c) == {m \in Safe : Gen(m) \notin gc[c].reclaim}

\* Whatever is announced for deletion, enough newer generations stay.
LedgerGuarded == \A n \in GenIds : Gen(n) \in Deleting => Enough(Kept, n)

\* A collector's list stays within the budget as long as its revision is the
\* store's, and from its first ledger transaction on.
OnBudget(c) == \A n \in GenIds : Gen(n) \in gc[c].reclaim => Enough(Spared(c), n)
Listed(c) ==
  (\/ pc[c] \in {"gcMark", "gcDelete"}
   \/ pc[c] \in {"gcLock", "gcLedger", "gcRecover", "gcRemove", "gcMain"} /\ rev[c] = Revision(db))
  => OnBudget(c)

\* What a collector removes has been announced, and its revision is no newer
\* than the store's.
Announced(c) ==
  /\ pc[c] \in {"gcRecover", "gcRemove"} => gc[c].todo \subseteq Deleting
  /\ pc[c] = "gcDelete" => gc[c].reclaim \subseteq Deleting
Behind(c) == rev[c].seq <= db.seq

\* The id of a save's generation is not in use until the save renames it.
Fresh(w) == pc[w] \in {"temp", "rename"} => newGen[w] \notin GensOnDisk

RetInv ==
  /\ BundleInv
  /\ \A w \in Writers : Fresh(w)
  /\ LedgerGuarded
  /\ \A c \in Collectors : Listed(c) /\ Announced(c) /\ Behind(c)

LEMMA RetTypes ==
  ASSUME RetInv
  PROVE  /\ CountInv /\ WInv /\ CasInv /\ TypeOK /\ LockDiscipline
         /\ db \in Databases /\ db.seq \in Nat /\ db.active \in 0..MaxGen
         /\ pc \in [Procs -> Labels] /\ newGen \in [Writers -> 0..MaxGen]
         /\ gc \in [Collectors -> GcStates]
         /\ rev \in [Clients \cup Collectors -> Revisions]
         /\ MaxGen \in Nat /\ Retain \in Nat
BY BoundAssumption DEF RetInv, BundleInv, CountInv, WInv, CasInv, TypeOK, Databases

\* Counting the generations newer than n.
LEMMA EnoughMoves ==
  ASSUME NEW S, NEW T \in SUBSET GenIds, NEW n, NEW k,
         Enough(S, n), \A m \in S : m > n => m \in T /\ m > k
  PROVE  Enough(T, k)
<1> DEFINE A == {m \in S : m > n}
           B == {m \in T : m > k}
<1>1. IsFiniteSet(B)
  <2>1. IsFiniteSet(GenIds)
    BY BoundAssumption, FS_Interval DEF GenIds
  <2> QED BY <2>1, FS_Subset
<1>2. A \subseteq B
  OBVIOUS
<1>3. Cardinality(A) <= Cardinality(B) /\ Cardinality(B) \in Nat /\ Cardinality(A) \in Nat
  BY <1>1, <1>2, FS_Subset, FS_CardinalityType
<1>4. Retain \in Nat /\ Cardinality(A) >= Retain
  BY BoundAssumption DEF Enough
<1> HIDE DEF A, B
<1>5. Cardinality(B) >= Retain
  BY <1>3, <1>4
<1> QED BY <1>5 DEF Enough, B

LEMMA BudgetIsEnough ==
  ASSUME NEW S
  PROVE  BeyondBudget(S) = {n \in S : Enough(S, n)}
BY DEF BeyondBudget, Enough

\* Beyond each generation over the budget there are Retain within it.
LEMMA BudgetKeeps ==
  ASSUME NEW S \in SUBSET GenIds, NEW n \in BeyondBudget(S)
  PROVE  Enough(S \ BeyondBudget(S), n)
<1> DEFINE T == {m \in BeyondBudget(S) : m >= n}
<1>0. MaxGen \in Nat /\ n \in GenIds /\ n \in Nat /\ BeyondBudget(S) \subseteq GenIds
  <2>1. MaxGen \in Nat /\ GenIds \subseteq Nat
    BY BoundAssumption DEF GenIds
  <2>2. BeyondBudget(S) \subseteq S
    BY BudgetIsEnough
  <2> QED BY <2>1, <2>2
<1>1. T \in SUBSET (0..MaxGen) /\ T # {}
  BY <1>0 DEF GenIds
<1>2. Max(T) \in T /\ \A m \in T : m <= Max(T)
  BY <1>1, MaxExists
<1>3. Enough(S, Max(T))
  BY <1>2, BudgetIsEnough
<1>4. \A m \in S : m > Max(T) => m \in S \ BeyondBudget(S) /\ m > n
  <2> SUFFICES ASSUME NEW m \in S, m > Max(T)
               PROVE  m \notin BeyondBudget(S) /\ m > n
    OBVIOUS
  <2>1. m \in Nat /\ Max(T) \in Nat /\ Max(T) >= n
    BY <1>0, <1>1, <1>2 DEF GenIds
  <2>2. m > n
    BY <1>0, <2>1
  <2>3. m \in T => m <= Max(T)
    BY <1>2
  <2> QED BY <1>0, <2>1, <2>2, <2>3
<1> QED BY <1>3, <1>4, EnoughMoves

\* The transactions that are not a collector's leave the ledger alone.
LEMMA LedgerStays ==
  ASSUME NEW d \in Databases
  PROVE  /\ \A g, edits, digest, s : s = SnapshotTxn(d, g, edits, digest) => s.gc_latest = d.gc_latest
         /\ \A k, s : s = PatchTxn(d, k) => s.gc_latest = d.gc_latest
<1>1. AuditedCommit(d) \in Databases /\ AuditedCommit(d).gc_latest = d.gc_latest
  BY AuditedCommitType DEF AuditedCommit, Databases
<1>2. ASSUME NEW g, NEW edits, NEW digest, NEW s, s = SnapshotTxn(d, g, edits, digest)
      PROVE  s.gc_latest = d.gc_latest
  <2> DEFINE a == AuditedCommit(d)
             rows == IF g = 0 THEN a.generations
                     ELSE [n \in GenIds |-> IF n = g THEN ActiveRow
                                            ELSE Retire(a.generations[n], d.seq + 1)]
             count == IF g = 0 \/ (d.file = "ok" /\ d.active = g)
                      THEN a.n_generations ELSE a.n_generations + 1
  <2>1. s = [a EXCEPT !.file = "ok", !.active = g, !.digest = digest, !.payload = edits,
                      !.n_generations = count, !.generations = rows]
    BY <1>2 DEF SnapshotTxn
  <2> HIDE DEF rows, count
  <2>2. s.gc_latest = a.gc_latest
    BY <1>1, <2>1 DEF Databases
  <2> QED BY <1>1, <2>2
<1>3. ASSUME NEW k, NEW s, s = PatchTxn(d, k)
      PROVE  s.gc_latest = d.gc_latest
  BY <1>1, <1>3 DEF PatchTxn, Databases
<1> QED BY <1>2, <1>3

\* A step changes the active generation only by committing a save, and the
\* sequence stays only when revision and ledger stay.
LEMMA RevisionStep ==
  ASSUME Republishers = {}, RetInv, [Next]_vars
  PROVE  /\ db'.seq \in Nat /\ db'.seq >= db.seq
         /\ db'.active = db.active \/ \E w \in Writers : Snapshots(w)
         /\ db'.seq = db.seq => Revision(db') = Revision(db) /\ Deleting' = Deleting
<1>0. db \in Databases /\ db.seq \in Nat
  BY RetTypes
<1>1. CASE db' = db
  BY <1>0, <1>1 DEF Deleting
<1>2. CASE db.file = "absent" /\ db' = [db EXCEPT !.file = "created"]
  <2>1. /\ db'.seq = db.seq /\ db'.active = db.active /\ db'.digest = db.digest
        /\ db'.gc_latest = db.gc_latest
    BY <1>0, <1>2 DEF Databases
  <2> QED BY <1>0, <2>1 DEF Deleting, Revision
<1>3. ASSUME NEW w \in Writers, Snapshots(w)
      PROVE  db'.seq = db.seq + 1
  BY <1>3, SaveSnapshot, RetTypes DEF CasInv
<1>4. ASSUME NEW k, db' = PatchTxn(db, k)
      PROVE  db'.seq = db.seq + 1 /\ db'.active = db.active
  BY <1>0, <1>4, PatchParts
<1>5. ASSUME NEW paths, NEW count, NEW state, db' = GcTxn(db, paths, count, state)
      PROVE  db'.seq = db.seq + 1 /\ db'.active = db.active
  BY <1>0, <1>5, GcParts
<1>6. ~Replaces
  BY DEF Replaces
<1>7. TypeOK
  BY RetTypes
<1>a. ASSUME db'.seq = db.seq + 1
      PROVE  db'.seq \in Nat /\ db'.seq >= db.seq /\ db'.seq # db.seq
  BY <1>0, <1>a
<1> QED BY <1>1, <1>2, <1>3, <1>4, <1>5, <1>6, <1>7, <1>a, StoreStep DEF Patches, Collects

\* Only a collector's main deletion announces paths.
LEMMA DeletingStep ==
  ASSUME Republishers = {}, RetInv, [Next]_vars
  PROVE  \/ Deleting' \subseteq Deleting
         \/ \E c \in Collectors :
              /\ GcRecordDeleting(c) /\ pc[c] = "gcMark"
              /\ disk' = disk /\ db'.active = db.active /\ gc' = gc /\ rev[c] = Revision(db)
              /\ Deleting' = Deleting \cup gc[c].reclaim
<1>0. TypeOK /\ db \in Databases /\ gc \in [Collectors -> GcStates]
  BY RetTypes
<1>a. ASSUME db'.gc_latest = db.gc_latest PROVE Deleting' \subseteq Deleting
  BY <1>a DEF Deleting
<1>1. ASSUME NEW w \in Writers, WriterStep(w)
      PROVE  Deleting' \subseteq Deleting
  <2>1. \/ db' = db
        \/ db' = [db EXCEPT !.file = "created"]
        \/ \E g, edits, digest : db' = SnapshotTxn(db, g, edits, digest)
    BY <1>1
    DEF WriterStep, LoadPayloads, Add, SaveAcquire, LoadStep, LoadToken, LoadIndex, SaveStep,
        SaveCheckBase, SaveWriteTemp, SaveRename, SaveIoError, SaveCommit,
        SaveFirstTransaction, SaveVerify, SaveRecover, CommitSnapshot
  <2>2. db'.gc_latest = db.gc_latest
    <3>1. CASE db' = [db EXCEPT !.file = "created"]
      BY <1>0, <3>1 DEF Databases
    <3>2. ASSUME NEW g, NEW edits, NEW digest, db' = SnapshotTxn(db, g, edits, digest)
          PROVE  db'.gc_latest = db.gc_latest
      BY <1>0, <3>2, LedgerStays
    <3> QED BY <2>1, <3>1, <3>2
  <2> QED BY <1>a, <2>2
<1>2. ASSUME NEW k \in Clients, ClientOpen(k) \/ ClientPatch(k)
      PROVE  Deleting' \subseteq Deleting
  <2>1. db' = db \/ db' = PatchTxn(db, k)
    BY <1>2 DEF ClientOpen, ClientPatch
  <2>2. db'.gc_latest = db.gc_latest
    BY <1>0, <2>1, LedgerStays
  <2> QED BY <1>a, <2>2
<1>3. ASSUME NEW k \in Clients, NEW g \in GenIds, ClientReplace(k, g)
      PROVE  FALSE
  BY <1>3 DEF ClientReplace
<1>4. ASSUME NEW c \in Collectors, GcOpen(c) \/ GcStep(c)
      PROVE  \/ Deleting' \subseteq Deleting
             \/ /\ GcRecordDeleting(c) /\ pc[c] = "gcMark"
                /\ disk' = disk /\ db'.active = db.active /\ gc' = gc /\ rev[c] = Revision(db)
                /\ Deleting' = Deleting \cup gc[c].reclaim
  <2>0. gc[c].reclaim \in SUBSET Paths /\ gc[c].recovered \cup gc[c].deleted \in SUBSET Paths
        /\ gc[c].recovered \in SUBSET Paths
    BY <1>0 DEF GcStates
  <2>a. ASSUME NEW paths \in SUBSET Paths, NEW count, NEW label,
               NEW state \in {"reclaimable", "deleted"}, GcRecord(c, paths, count, state, label)
        PROVE  Deleting' \subseteq Deleting
    <3>1. db' = db \/ Deleting' = Deleting \ paths
      BY <1>0, <2>a, GcRecorded
    <3> QED BY <1>a, <3>1
  <2>1. CASE GcOpen(c) \/ GcScan(c) \/ GcAcquire(c) \/ GcLedger(c) \/ GcRecoverCheck(c)
             \/ GcRecoverRemove(c)
             \/ GcDeleteOne(c) \/ GcReport(c)
    BY <1>a, <2>1 DEF GcOpen, GcScan, GcAcquire, GcLedger, GcRecoverCheck, GcRecoverRemove,
                      GcDeleteOne, GcReport
  <2>2. CASE GcRecordRecovered(c)
    BY <1>a, <2>0, <2>2, <2>a DEF GcRecordRecovered
  <2>3. CASE GcRecordReclaimable(c)
    BY <1>a, <2>0, <2>3, <2>a DEF GcRecordReclaimable
  <2>4. CASE GcRecordDeleting(c)
    <3>1. pc[c] = "gcMark" /\ GcRecord(c, gc[c].reclaim, Cardinality(gc[c].reclaim),
                                       "deleting", "gcDelete")
      BY <2>4 DEF GcRecordDeleting
    <3>2. CASE db' = db
      BY <1>a, <3>2
    <3>3. CASE db' # db
      <4>1. disk' = disk /\ gc' = gc /\ rev[c] = Revision(db) /\ db'.active = db.active
        BY <1>0, <2>0, <3>1, <3>3, GcRecorded
      <4>2. Deleting' = Deleting \cup gc[c].reclaim
        BY <1>0, <2>0, <3>1, <3>3, GcRecorded
      <4> QED BY <2>4, <3>1, <4>1, <4>2
    <3> QED BY <3>2, <3>3
  <2>5. CASE GcRecordDeleted(c)
    BY <2>0, <2>5, <2>a DEF GcRecordDeleted
  <2> QED BY <1>4, <2>1, <2>2, <2>3, <2>4, <2>5 DEF GcStep
<1>5. ASSUME NEW n \in GenIds, TogglePin(n) PROVE Deleting' \subseteq Deleting
  BY <1>5, <1>a DEF TogglePin
<1>6. ASSUME NEW p \in Procs, Crash(p) PROVE Deleting' \subseteq Deleting
  BY <1>6, <1>a DEF Crash
<1>7. CASE UNCHANGED vars
  BY <1>7, <1>a DEF vars
<1> QED BY <1>1, <1>2, <1>3, <1>4, <1>5, <1>6, <1>7 DEF Next, WriterStep

\* What is not announced for deletion stays on disk, and an id comes into use by
\* its rename.
LEMMA UnannouncedStays ==
  ASSUME RetInv, [Next]_vars, NEW n \in GensOnDisk, Gen(n) \notin Deleting
  PROVE  OnDisk(n)'
<1>0. TypeOK /\ n \in GenIds /\ OnDisk(n)
  BY RetTypes DEF GensOnDisk
<1>1. ASSUME NEW w \in Writers, SaveRename(w), newGen[w] = n
      PROVE  FALSE
  BY <1>0, <1>1 DEF SaveRename, RetInv, Fresh, GensOnDisk
<1>2. ASSUME NEW c \in Collectors, Removes(c, Gen(n))
      PROVE  FALSE
  BY <1>0, <1>2 DEF Removes, IsFirst, RetInv, Announced
<1>3. disk'[Gen(n)] = disk[Gen(n)]
  BY <1>0, <1>1, <1>2, DirectoryStep
<1> QED BY <1>0, <1>3 DEF OnDisk

LEMMA SafeStays ==
  ASSUME RetInv, [Next]_vars, NEW n \in Safe
  PROVE  OnDisk(n)'
BY UnannouncedStays DEF Safe

LEMMA FreshStep ==
  ASSUME RetInv, [Next]_vars, NEW w \in Writers
  PROVE  Fresh(w)'
<1>0. /\ CasInv /\ w \in Procs /\ pc \in [Procs -> Labels] /\ newGen \in [Writers -> 0..MaxGen]
      /\ MaxGen \in Nat /\ Fresh(w)
      /\ disk \in [Paths -> [dir : {"absent", "present"}, records : Contents]]
  BY RetTypes DEF RetInv, TypeOK, Procs
<1>a. ASSUME pc'[w] \notin {"temp", "rename"}
      PROVE  Fresh(w)'
  BY <1>a DEF Fresh
<1>1. CASE OthersStep(w)
  <2>1. /\ pc'[w] = pc[w] /\ newGen'[w] = newGen[w]
        /\ pc[w] \in WriterLabels => disk' = disk
    BY <1>0, <1>1, HolderAlone
  <2> QED BY <1>0, <2>1 DEF Fresh, WriterLabels, GensOnDisk, OnDisk
<1>2. CASE Crash(w) \/ LoadPayloads(w) \/ Add(w) \/ LoadStep(w) \/ SaveAcquire(w)
  <2>1. pc'[w] \notin {"temp", "rename"}
    BY <1>0, <1>2 DEF Crash, LoadPayloads, Add, LoadStep, LoadToken, LoadIndex, SaveAcquire,
                      Finish, Goto
  <2> QED BY <1>a, <2>1
<1>3. CASE SaveCheckBase(w)
  <2> DEFINE S == {0} \cup GensOnDisk
  <2>1. S \in SUBSET (0..MaxGen) /\ S # {}
    BY <1>0 DEF GensOnDisk, GenIds
  <2>2. Max(S) \in 0..MaxGen /\ \A m \in S : m <= Max(S)
    BY <2>1, MaxExists
  <2>3. NextGeneration = Max(S) + 1
    BY DEF NextGeneration
  <2> HIDE DEF S
  <2>4. NextGeneration \notin S
    BY <1>0, <2>1, <2>2, <2>3
  <2>5. disk' = disk
    BY <1>3 DEF SaveCheckBase
  <2>6. CASE Finish(w, "failed")
    BY <1>0, <1>a, <2>6 DEF Finish, Goto
  <2>7. CASE /\ newGen' = [newGen EXCEPT ![w] = IF IsEmptyLazy(w) THEN 0 ELSE NextGeneration]
             /\ Goto(w, IF IsEmptyLazy(w) THEN "commit" ELSE "temp")
    <3>1. CASE IsEmptyLazy(w)
      <4>1. pc'[w] = "commit"
        BY <1>0, <2>7, <3>1 DEF Goto
      <4> QED BY <1>a, <4>1
    <3>2. CASE ~IsEmptyLazy(w)
      <4>1. newGen'[w] = NextGeneration
        BY <1>0, <2>7, <3>2
      <4>2. NextGeneration \notin GensOnDisk
        BY <2>4 DEF S
      <4> QED BY <2>5, <4>1, <4>2 DEF Fresh, GensOnDisk, OnDisk
    <3> QED BY <3>1, <3>2
  <2> QED BY <1>3, <2>6, <2>7 DEF SaveCheckBase
<1>4. CASE SaveWriteTemp(w)
  <2>1. newGen' = newGen /\ pc[w] = "temp"
    BY <1>4 DEF SaveWriteTemp
  <2>2. \A n \in GenIds : disk'[Gen(n)] = disk[Gen(n)]
    BY <1>0, <1>4, PathNames DEF SaveWriteTemp
  <2>3. GensOnDisk' = GensOnDisk
    BY <2>2 DEF GensOnDisk, OnDisk
  <2> QED BY <1>0, <2>1, <2>3 DEF Fresh
<1>5. CASE SaveRename(w) \/ SaveIoError(w) \/ SaveCommit(w) \/ SaveFirstTransaction(w)
           \/ SaveVerify(w) \/ SaveRecover(w)
  <2>1. pc'[w] \notin {"temp", "rename"}
    BY <1>0, <1>5 DEF SaveRename, SaveIoError, SaveCommit, SaveFirstTransaction, SaveVerify,
                      SaveRecover, ReportSaved, CommitSnapshot, Finish, Goto
  <2> QED BY <1>a, <2>1
<1> QED BY <1>1, <1>2, <1>3, <1>4, <1>5, OwnOrOthers DEF WriterStep, SaveStep

\* A generation that is there comes into flight only by being in flight.
LEMMA InFlightStep ==
  ASSUME RetInv, [Next]_vars, NEW n \in GensOnDisk, n \in InFlight'
  PROVE  n \in InFlight
<1>0. /\ CasInv /\ pc \in [Procs -> Labels] /\ newGen \in [Writers -> 0..MaxGen]
      /\ n \in GenIds /\ n # 0
  BY RetTypes DEF GensOnDisk, GenIds
<1>1. PICK w \in Writers : pc'[w] \in {"commit", "create"} /\ newGen'[w] = n
  BY DEF InFlight
<1>2. w \in Procs
  BY DEF Procs
<1>3. CASE pc[w] \in {"commit", "create"} /\ newGen'[w] = newGen[w]
  BY <1>1, <1>3 DEF InFlight
<1>4. CASE OthersStep(w)
  <2>1. pc'[w] = pc[w] /\ newGen'[w] = newGen[w]
    BY <1>0, <1>4, HolderAlone
  <2> QED BY <1>1, <1>3, <2>1
<1>5. CASE Crash(w) \/ LoadPayloads(w) \/ LoadStep(w) \/ SaveAcquire(w) \/ SaveWriteTemp(w)
           \/ SaveIoError(w) \/ SaveFirstTransaction(w) \/ SaveVerify(w) \/ SaveRecover(w)
  <2>1. pc'[w] \notin {"commit", "create"}
    BY <1>0, <1>2, <1>5
    DEF Crash, LoadPayloads, LoadStep, LoadToken, LoadIndex, SaveAcquire, SaveWriteTemp,
        SaveIoError, SaveFirstTransaction, SaveVerify, SaveRecover, ReportSaved,
        CommitSnapshot, Finish, Goto
  <2> QED BY <1>1, <2>1
<1>6. CASE Add(w) \/ SaveCommit(w)
  <2>1. newGen' = newGen /\ (pc[w] \in {"commit", "create"} \/ pc' = pc)
    BY <1>6 DEF Add, SaveCommit
  <2> QED BY <1>1, <1>3, <2>1
<1>7. CASE SaveCheckBase(w)
  <2>1. CASE Finish(w, "failed")
    BY <1>0, <1>1, <1>2, <2>1 DEF Finish, Goto
  <2>2. CASE /\ newGen' = [newGen EXCEPT ![w] = IF IsEmptyLazy(w) THEN 0 ELSE NextGeneration]
             /\ Goto(w, IF IsEmptyLazy(w) THEN "commit" ELSE "temp")
    <3>1. pc'[w] = "commit" => newGen'[w] = 0
      BY <1>0, <1>2, <2>2 DEF Goto
    <3>2. pc'[w] \in {"commit", "temp"}
      BY <1>0, <1>2, <2>2 DEF Goto
    <3> QED BY <1>0, <1>1, <3>1, <3>2
  <2> QED BY <1>7, <2>1, <2>2 DEF SaveCheckBase
<1>8. CASE SaveRename(w)
  <2>1. newGen' = newGen /\ newGen[w] \notin GensOnDisk
    BY <1>8 DEF SaveRename, RetInv, Fresh
  <2> QED BY <1>1, <2>1
<1> QED BY <1>4, <1>5, <1>6, <1>7, <1>8, OwnOrOthers DEF WriterStep, SaveStep

\* The kept generations stay kept unless they are announced for deletion.
LEMMA KeptStays ==
  ASSUME Republishers = {}, RetInv, [Next]_vars, NEW n \in Kept, Gen(n) \notin Deleting'
  PROVE  n \in Kept'
<1>1. n \in Safe /\ n \in GensOnDisk /\ n # db.active /\ n \notin InFlight
  BY DEF Kept, Safe
<1>2. OnDisk(n)'
  BY <1>1, SafeStays
<1>3. n \notin InFlight'
  BY <1>1, InFlightStep
<1>4. n # db'.active
  <2>1. CASE db'.active = db.active
    BY <1>1, <2>1
  <2>2. ASSUME NEW w \in Writers, Snapshots(w)
        PROVE  n # db'.active
    <3>1. newGen[w] \in InFlight
      BY <2>2 DEF Snapshots, InFlight
    <3>2. db'.active = newGen[w]
      BY <2>2, SaveSnapshot, RetTypes
    <3> QED BY <1>1, <3>1, <3>2
  <2> QED BY <2>1, <2>2, RevisionStep
<1>5. n \in Safe'
  BY <1>1, <1>2, <1>4 DEF Safe, GensOnDisk
<1> QED BY <1>3, <1>5 DEF Kept

LEMMA SparedStays ==
  ASSUME RetInv, [Next]_vars, NEW c \in Collectors,
         gc'[c].reclaim = gc[c].reclaim, db'.active = db.active,
         Deleting' \subseteq Deleting \cup gc[c].reclaim, OnBudget(c)
  PROVE  OnBudget(c)'
<1>1. Spared(c) \subseteq Spared(c)'
  <2> SUFFICES ASSUME NEW n \in Spared(c) PROVE n \in Spared(c)'
    OBVIOUS
  <2>1. n \in Safe /\ n \in GenIds /\ n # db.active /\ Gen(n) \notin gc[c].reclaim
        /\ Gen(n) \notin Deleting
    BY DEF Spared, Safe, GensOnDisk
  <2>2. OnDisk(n)'
    BY <2>1, SafeStays
  <2> QED BY <2>1, <2>2 DEF Spared, Safe, GensOnDisk
<1>2. Spared(c)' \in SUBSET GenIds
  BY DEF Spared, Safe, GensOnDisk
<1>3. \A n : Enough(Spared(c), n) => Enough(Spared(c)', n)
  BY <1>1, <1>2, EnoughMoves
<1>4. \A n \in GenIds : Gen(n) \in gc[c].reclaim => Enough(Spared(c)', n)
  BY <1>3 DEF OnBudget
<1> QED BY <1>4 DEF OnBudget, Enough

LEMMA LedgerGuardedStep ==
  ASSUME Republishers = {}, RetInv, [Next]_vars
  PROVE  LedgerGuarded'
<1>0. Kept' \in SUBSET GenIds /\ Kept \in SUBSET GenIds
  BY DEF Kept, Safe, GensOnDisk
<1>a. ASSUME \A n \in GenIds : Gen(n) \in Deleting' => Enough(Kept', n)
      PROVE  LedgerGuarded'
  BY <1>a DEF LedgerGuarded, Enough
<1>1. CASE Deleting' \subseteq Deleting
  <2> SUFFICES ASSUME NEW n \in GenIds, Gen(n) \in Deleting'
               PROVE  Enough(Kept', n)
    BY <1>a
  <2>1. Enough(Kept, n)
    BY <1>1 DEF RetInv, LedgerGuarded
  <2>2. Kept \subseteq Kept'
    <3>1. \A m \in Kept : Gen(m) \notin Deleting
      BY DEF Kept, Safe
    <3> QED BY <1>1, <3>1, KeptStays
  <2> QED BY <1>0, <2>1, <2>2, EnoughMoves
<1>2. ASSUME NEW c \in Collectors, pc[c] = "gcMark", db'.active = db.active,
             Deleting' = Deleting \cup gc[c].reclaim
      PROVE  LedgerGuarded'
  <2>1. InFlight = {}
    <3>1. /\ LockDiscipline /\ c \in Procs /\ \A w \in Writers : w \in Procs /\ w # c
      BY ProcAssumption, RetTypes DEF Procs
    <3>2. \A w \in Writers : pc[w] \notin {"commit", "create"}
      BY <1>2, <3>1, OneLocked DEF LockedLabels, WriterLabels, CollectorLabels
    <3> QED BY <3>2 DEF InFlight
  <2>2. Kept = Safe
    BY <2>1 DEF Kept
  <2>3. Spared(c) \subseteq Kept'
    <3> SUFFICES ASSUME NEW n \in Spared(c) PROVE n \in Kept'
      OBVIOUS
    <3>1. n \in Kept /\ Gen(n) \notin Deleting'
      BY <1>2, <2>2 DEF Spared, Safe
    <3> QED BY <3>1, KeptStays
  <2>4. OnBudget(c)
    BY <1>2 DEF RetInv, Listed
  <2> SUFFICES ASSUME NEW n \in GenIds, Gen(n) \in Deleting'
               PROVE  Enough(Kept', n)
    BY <1>a
  <2>5. CASE Gen(n) \in gc[c].reclaim
    <3>1. Enough(Spared(c), n)
      BY <2>4, <2>5 DEF OnBudget
    <3> QED BY <1>0, <2>3, <3>1, EnoughMoves
  <2>6. ASSUME NEW x \in Kept, x > n, Gen(x) \in gc[c].reclaim
        PROVE  Enough(Kept', n)
    <3>1. Enough(Spared(c), x) /\ x \in GenIds
      BY <1>0, <2>4, <2>6 DEF OnBudget
    <3>2. \A m \in Spared(c) : m > x => m \in Kept' /\ m > n
      <4>1. Spared(c) \subseteq Nat /\ x \in Nat /\ n \in Nat
        BY <3>1 DEF Spared, Safe, GensOnDisk, GenIds
      <4> QED BY <2>3, <2>6, <4>1
    <3> QED BY <1>0, <3>1, <3>2, EnoughMoves
  <2>7. CASE /\ Gen(n) \in Deleting
             /\ \A x \in Kept : x > n => Gen(x) \notin gc[c].reclaim
    <3>1. Enough(Kept, n)
      BY <2>7 DEF RetInv, LedgerGuarded
    <3>2. \A m \in Kept : m > n => m \in Kept'
      <4> SUFFICES ASSUME NEW m \in Kept, m > n PROVE m \in Kept'
        OBVIOUS
      <4>1. Gen(m) \notin Deleting'
        BY <1>2, <2>7 DEF Kept, Safe
      <4> QED BY <4>1, KeptStays
    <3> QED BY <1>0, <3>1, <3>2, EnoughMoves
  <2> QED BY <1>2, <2>5, <2>6, <2>7
<1> QED BY <1>1, <1>2, DeletingStep

\* The list made by a scan is within the budget, although generations that
\* are already announced for deletion fill part of it: each of them has its
\* own Retain newer ones.
LEMMA ScanOnBudget ==
  ASSUME RetInv, NEW S \in SUBSET (GensOnDisk \ {db.active}), NEW n \in BeyondBudget(S)
  PROVE  Enough({m \in Safe : m \notin BeyondBudget(S)}, n)
<1> DEFINE T == {m \in Safe : m \notin BeyondBudget(S)}
<1>0. S \in SUBSET GenIds /\ T \in SUBSET GenIds /\ n \in GenIds /\ GenIds \subseteq Nat
      /\ Kept \subseteq Safe
  <2>1. S \in SUBSET GenIds /\ T \in SUBSET GenIds /\ Kept \subseteq Safe
    BY DEF GensOnDisk, Safe, Kept
  <2>2. n \in S
    BY BudgetIsEnough
  <2> QED BY <2>1, <2>2 DEF GenIds
<1>1. CASE \A m \in S \ BeyondBudget(S) : m > n => Gen(m) \notin Deleting
  <2>1. Enough(S \ BeyondBudget(S), n)
    BY <1>0, BudgetKeeps
  <2>2. \A m \in S \ BeyondBudget(S) : m > n => m \in T
    BY <1>1 DEF Safe
  <2> QED BY <1>0, <2>1, <2>2, EnoughMoves
<1>2. ASSUME NEW d \in S \ BeyondBudget(S), d > n, Gen(d) \in Deleting
      PROVE  Enough(T, n)
  <2>1. Enough(Kept, d)
    BY <1>0, <1>2 DEF RetInv, LedgerGuarded
  <2>2. \A m \in Kept : m > d => m \in T /\ m > n
    <3> SUFFICES ASSUME NEW m \in Kept, m > d PROVE m \in T /\ m > n
      OBVIOUS
    <3>1. m \in Nat /\ d \in Nat /\ n \in Nat /\ m \in Safe
      BY <1>0 DEF Safe, GensOnDisk
    <3>2. m > n
      BY <1>2, <3>1
    <3>3. ASSUME m \in BeyondBudget(S) PROVE FALSE
      <4>1. Enough(S, m)
        BY <3>3, BudgetIsEnough
      <4>2. \A k \in S : k > m => k > d
        BY <1>0, <3>1
      <4>3. Enough(S, d)
        BY <1>0, <4>1, <4>2, EnoughMoves
      <4> QED BY <1>2, <4>3, BudgetIsEnough
    <3> QED BY <3>1, <3>2, <3>3
  <2> QED BY <1>0, <2>1, <2>2, EnoughMoves
<1> QED BY <1>1, <1>2

LEMMA ListedStep ==
  ASSUME Republishers = {}, RetInv, [Next]_vars, NEW c \in Collectors
  PROVE  Listed(c)'
<1>0. /\ TypeOK /\ CasInv /\ c \in Procs /\ pc \in [Procs -> Labels]
      /\ gc \in [Collectors -> GcStates] /\ gc[c] \in GcStates
      /\ rev \in [Clients \cup Collectors -> Revisions] /\ rev[c].seq \in Nat
      /\ db.seq \in Nat /\ Listed(c) /\ Behind(c)
  BY RetTypes DEF RetInv, Procs, Revisions
<1>a. ASSUME pc'[c] \in {"idle", "gcScan", "gcDone"}
      PROVE  Listed(c)'
  BY <1>a DEF Listed
<1>b. ASSUME db' = db, rev' = rev, gc'[c].reclaim = gc[c].reclaim,
             pc'[c] = pc[c] \/
               (pc[c] \in {"gcLock", "gcLedger", "gcRecover", "gcRemove", "gcMain"} /\
                pc'[c] \in {"gcLock", "gcLedger", "gcRecover", "gcRemove", "gcMain"})
      PROVE  Listed(c)'
  <2>1. OnBudget(c) => OnBudget(c)'
    BY <1>b, SparedStays DEF Deleting
  <2> QED BY <1>0, <1>b, <2>1 DEF Listed
<1>c. gc[c].reclaim \in SUBSET Paths /\ gc[c].recovered \in SUBSET Paths
  BY <1>0 DEF GcStates
<1>1. CASE CollectorOthers(c)
  <2>1. /\ pc'[c] = pc[c] /\ gc'[c] = gc[c] /\ rev'[c] = rev[c]
        /\ pc[c] \in CollectorLabels => db' = db /\ disk' = disk
    BY <1>0, <1>1, CollectorAlone
  <2>2. ASSUME \/ pc[c] \in {"gcMark", "gcDelete"}
               \/ /\ pc[c] \in {"gcLock", "gcLedger", "gcRecover", "gcRemove", "gcMain"}
                  /\ rev[c] = Revision(db')
        PROVE  OnBudget(c)'
    <3>1. db'.active = db.active /\ Deleting' = Deleting
          /\ (pc[c] \in {"gcMark", "gcDelete"} \/ rev[c] = Revision(db))
      <4>1. CASE pc[c] \in {"gcMark", "gcDelete"}
        BY <2>1, <4>1 DEF CollectorLabels, Deleting
      <4>2. CASE rev[c] = Revision(db')
        <5>1. rev[c].seq = db'.seq /\ rev[c].active = db'.active
          BY <4>2 DEF Revision
        <5>2. db'.seq = db.seq
          BY <1>0, <5>1, RevisionStep DEF Behind
        <5>3. Revision(db') = Revision(db) /\ Deleting' = Deleting
          BY <5>2, RevisionStep
        <5>4. Revision(db').active = db'.active /\ Revision(db).active = db.active
          BY DEF Revision
        <5> QED BY <4>2, <5>3, <5>4
      <4> QED BY <2>2, <4>1, <4>2
    <3>2. OnBudget(c)
      BY <1>0, <2>2, <3>1 DEF Listed
    <3> QED BY <2>1, <3>1, <3>2, SparedStays
  <2> QED BY <2>1, <2>2 DEF Listed
<1>2. CASE Crash(c) \/ GcOpen(c) \/ GcReport(c) \/ GcRecordDeleted(c)
  <2>1. pc'[c] \in {"idle", "gcScan", "gcDone"}
    BY <1>0, <1>2 DEF Crash, GcOpen, GcReport, GcRecordDeleted, GcRecord, Finish, Goto
  <2> QED BY <1>a, <2>1
<1>3. CASE GcScan(c)
  <2> DEFINE S == Retained(c) \ pins
  <2>1. gc'[c].reclaim = {Gen(n) : n \in BeyondBudget(S)}
                           \cup {Tmp(n) : n \in {m \in GenIds : disk[Tmp(m)] # Absent}}
    BY <1>0, <1>3 DEF GcScan, GcStates
  <2>2. /\ pc'[c] = "gcLock" /\ rev' = rev /\ db' = db /\ disk' = disk
    BY <1>0, <1>3 DEF GcScan, Goto
  <2>3. \A n \in GenIds : Gen(n) \in gc'[c].reclaim <=> n \in BeyondBudget(S)
    <3>1. BeyondBudget(S) \subseteq GenIds
      BY BudgetIsEnough DEF Retained, GensOnDisk
    <3> HIDE DEF S
    <3> QED BY <2>1, <3>1, PathNames
  <2>4. ASSUME rev[c] = Revision(db)
        PROVE  \A n \in GenIds : n \in BeyondBudget(S) =>
                 Enough({m \in Safe : m \notin BeyondBudget(S)}, n)
    <3>1. S \in SUBSET (GensOnDisk \ {db.active})
      BY <2>4 DEF Retained, Revision
    <3> HIDE DEF S
    <3> QED BY <3>1, ScanOnBudget
  <2>5. Safe' = Safe /\ Safe \subseteq GenIds
    BY <2>2 DEF Safe, GensOnDisk, OnDisk, Deleting
  <2> HIDE DEF S
  <2>6. Spared(c)' = {m \in Safe : m \notin BeyondBudget(S)}
    BY <2>3, <2>5 DEF Spared
  <2>7. ASSUME rev[c] = Revision(db) PROVE OnBudget(c)'
    <3>1. \A n \in GenIds : n \in BeyondBudget(S) => Enough(Spared(c)', n)
      BY <2>4, <2>6, <2>7
    <3> QED BY <2>3, <3>1 DEF OnBudget, Enough
  <2> QED BY <2>2, <2>7 DEF Listed
<1>4. CASE GcAcquire(c)
  <2>1. CASE Finish(c, "failed")
    BY <1>0, <1>a, <2>1 DEF Finish, Goto
  <2>2. CASE Goto(c, "gcLedger")
    <3>1. pc[c] = "gcLock" /\ pc'[c] = "gcLedger" /\ db' = db /\ rev' = rev /\ gc' = gc
      BY <1>0, <1>4, <2>2 DEF GcAcquire, Goto
    <3> QED BY <1>b, <3>1
  <2> QED BY <1>4, <2>1, <2>2 DEF GcAcquire
<1>5. CASE GcLedger(c)
  <2>1. CASE Finish(c, "failed")
    BY <1>0, <1>a, <2>1 DEF Finish, Goto
  <2>2. CASE /\ gc' = [gc EXCEPT ![c].todo =
                  {p \in Paths : db.gc_latest[p] = "deleting"} \ {Gen(rev[c].active)}]
             /\ Goto(c, "gcRecover")
    <3>1. gc'[c].reclaim = gc[c].reclaim /\ pc'[c] = "gcRecover"
      BY <1>0, <2>2 DEF Goto, GcStates
    <3>2. pc[c] = "gcLedger" /\ db' = db /\ rev' = rev
      BY <1>5 DEF GcLedger
    <3> QED BY <1>b, <3>1, <3>2
  <2> QED BY <1>5, <2>1, <2>2 DEF GcLedger
<1>6. CASE GcRecoverCheck(c) \/ GcRecoverRemove(c)
  BY <1>0, <1>6, <1>b, RecoverySteps
<1>7. CASE GcDeleteOne(c)
  <2>1. CASE Finish(c, "failed")
    BY <1>0, <1>a, <2>1 DEF Finish, Goto
  <2>2. CASE ~Finish(c, "failed")
    <3>1. pc' = pc /\ db' = db /\ rev' = rev
      BY <1>7, <2>2 DEF GcDeleteOne
    <3>2. PICK p \in Paths : gc' = [gc EXCEPT ![c].deleted = @ \cup {p}]
      BY <1>7, <2>2 DEF GcDeleteOne
    <3>3. gc'[c].reclaim = gc[c].reclaim
      BY <1>0, <3>2 DEF GcStates
    <3> QED BY <1>b, <3>1, <3>3
  <2> QED BY <2>1, <2>2
<1>d. ASSUME NEW paths \in SUBSET Paths, NEW count, NEW label,
             NEW state \in {"reclaimable", "deleting", "deleted"},
             GcRecord(c, paths, count, state, label),
             OnBudget(c) \/ rev[c] # Revision(db), state = "deleting" => paths = gc[c].reclaim
      PROVE  pc'[c] = "idle" \/ (pc'[c] = label /\ OnBudget(c)')
  <2>1. CASE pc'[c] = "idle"
    BY <2>1
  <2>2. CASE pc'[c] # "idle"
    <3>0. TypeOK
      BY <1>0
    <3>1. gc' = gc /\ pc'[c] = label
      BY <1>d, <2>2, <3>0, GcRecorded
    <3>2. rev[c] = Revision(db) /\ db'.active = db.active
      BY <1>d, <2>2, <3>0, GcRecorded
    <3>3. CASE state = "deleting"
      <4>1. Deleting' = Deleting \cup paths
        BY <1>d, <2>2, <3>0, <3>3, GcRecorded
      <4> QED BY <1>d, <3>1, <3>2, <3>3, <4>1, SparedStays
    <3>4. CASE state # "deleting"
      <4>1. Deleting' = Deleting \ paths
        <5>1. ~(db' = db /\ pc'[c] = "idle")
          BY <2>2
        <5>2. CASE state = "reclaimable"
          BY <1>d, <5>1, <5>2, <3>0, GcRecorded
        <5>3. CASE state = "deleted"
          BY <1>d, <5>1, <5>3, <3>0, GcRecorded
        <5> QED BY <3>4, <1>d, <5>2, <5>3
      <4> QED BY <1>d, <3>1, <3>2, <4>1, SparedStays
    <3> QED BY <3>3, <3>4
  <2> QED BY <2>1, <2>2
<1>8. CASE GcRecordRecovered(c)
  <2>1. pc[c] = "gcRecover" /\ (OnBudget(c) \/ rev[c] # Revision(db))
    BY <1>0, <1>8 DEF GcRecordRecovered, Listed
  <2>2. CASE GcRecord(c, gc[c].recovered, Cardinality(gc[c].recovered), "deleted", "gcMain")
    <3>1. pc'[c] = "idle" \/ (pc'[c] = "gcMain" /\ OnBudget(c)')
      BY <1>c, <1>d, <2>1, <2>2
    <3> QED BY <3>1 DEF Listed
  <2>3. CASE Goto(c, "gcMain") /\ UNCHANGED <<db, disk, rev, gc>>
    <3>1. pc'[c] = "gcMain"
      BY <1>0, <2>3 DEF Goto
    <3> QED BY <1>b, <2>1, <2>3, <3>1
  <2> QED BY <1>8, <2>2, <2>3 DEF GcRecordRecovered
<1>9. CASE GcRecordReclaimable(c)
  <2>1. pc[c] = "gcMain" /\ (OnBudget(c) \/ rev[c] # Revision(db))
    BY <1>0, <1>9 DEF GcRecordReclaimable, Listed
  <2>2. CASE GcRecord(c, gc[c].reclaim, Cardinality(gc[c].reclaim), "reclaimable", "gcMark")
    <3>1. pc'[c] = "idle" \/ (pc'[c] = "gcMark" /\ OnBudget(c)')
      BY <1>c, <1>d, <2>1, <2>2
    <3> QED BY <3>1 DEF Listed
  <2>3. CASE Finish(c, "ok")
    BY <1>0, <1>a, <2>3 DEF Finish, Goto
  <2> QED BY <1>9, <2>2, <2>3 DEF GcRecordReclaimable
<1>10. CASE GcRecordDeleting(c)
  <2>1. OnBudget(c) /\ GcRecord(c, gc[c].reclaim, Cardinality(gc[c].reclaim),
                                "deleting", "gcDelete")
    BY <1>0, <1>10 DEF GcRecordDeleting, Listed
  <2>2. pc'[c] = "idle" \/ (pc'[c] = "gcDelete" /\ OnBudget(c)')
    BY <1>c, <1>d, <2>1
  <2> QED BY <2>2 DEF Listed
<1> QED BY <1>1, <1>2, <1>3, <1>4, <1>5, <1>6, <1>7, <1>8, <1>9, <1>10,
           CollectorOwnOrOthers DEF GcStep

LEMMA BehindStep ==
  ASSUME Republishers = {}, RetInv, [Next]_vars, NEW c \in Collectors
  PROVE  Behind(c)'
<1>0. /\ CasInv /\ rev[c].seq \in Nat /\ db.seq \in Nat /\ rev[c].seq <= db.seq
      /\ rev \in [Clients \cup Collectors -> Revisions]
  BY RetTypes DEF RetInv, Behind, Revisions
<1>1. rev'[c] = rev[c] \/ rev'[c] = Revision(db) \/ rev'[c] = Revision(db')
  <2>1. CASE CollectorOthers(c)
    BY <1>0, <2>1, CollectorAlone
  <2>2. CASE GcOpen(c) \/ GcStep(c) \/ Crash(c)
    BY <1>0, <2>2
    DEF Crash, GcOpen, GcStep, GcScan, GcAcquire, GcLedger, GcRecoverCheck, GcRecoverRemove,
        GcRecordRecovered,
        GcRecordReclaimable, GcRecordDeleting, GcDeleteOne, GcRecordDeleted, GcReport,
        GcRecord
  <2> QED BY <2>1, <2>2, CollectorOwnOrOthers
<1>2. Revision(db).seq = db.seq /\ Revision(db').seq = db'.seq
  BY DEF Revision
<1>3. rev'[c].seq <= db'.seq
  BY <1>0, <1>1, <1>2, RevisionStep
<1> QED BY <1>3 DEF Behind

LEMMA AnnouncedStep ==
  ASSUME RetInv, [Next]_vars, NEW c \in Collectors
  PROVE  Announced(c)'
<1>0. /\ TypeOK /\ CasInv /\ c \in Procs /\ pc \in [Procs -> Labels]
      /\ gc \in [Collectors -> GcStates] /\ gc[c] \in GcStates /\ Announced(c)
  BY RetTypes DEF RetInv, Procs
<1>a. ASSUME pc'[c] \notin {"gcRecover", "gcRemove", "gcDelete"}
      PROVE  Announced(c)'
  BY <1>a DEF Announced
<1>1. CASE CollectorOthers(c)
  <2>1. /\ pc'[c] = pc[c] /\ gc'[c] = gc[c]
        /\ pc[c] \in CollectorLabels => db' = db
    BY <1>0, <1>1, CollectorAlone
  <2> QED BY <1>0, <2>1 DEF Announced, CollectorLabels, Deleting
<1>2. CASE Crash(c) \/ GcOpen(c) \/ GcReport(c) \/ GcScan(c) \/ GcAcquire(c)
           \/ GcRecordRecovered(c) \/ GcRecordReclaimable(c) \/ GcRecordDeleted(c)
  <2>1. pc'[c] \notin {"gcRecover", "gcRemove", "gcDelete"}
    BY <1>0, <1>2 DEF Crash, GcOpen, GcReport, GcScan, GcAcquire, GcRecordRecovered,
      GcRecordReclaimable, GcRecordDeleted, GcRecord, Finish, Goto
  <2> QED BY <1>a, <2>1
<1>3. CASE GcLedger(c)
  <2>1. CASE Finish(c, "failed")
    BY <1>0, <1>a, <2>1 DEF Finish, Goto
  <2>2. CASE /\ gc' = [gc EXCEPT ![c].todo =
                  {p \in Paths : db.gc_latest[p] = "deleting"} \ {Gen(rev[c].active)}]
             /\ Goto(c, "gcRecover")
    <3>1. gc'[c].todo \subseteq Deleting /\ pc'[c] = "gcRecover"
      BY <1>0, <2>2 DEF Goto, GcStates, Deleting
    <3>2. db' = db
      BY <1>3 DEF GcLedger
    <3> QED BY <3>1, <3>2 DEF Announced, Deleting
  <2> QED BY <1>3, <2>1, <2>2 DEF GcLedger
<1>4. CASE GcRecoverCheck(c) \/ GcRecoverRemove(c)
  BY <1>0, <1>4, RecoverySteps DEF Announced, Deleting
<1>5. CASE GcDeleteOne(c)
  <2>1. CASE Finish(c, "failed")
    BY <1>0, <1>a, <2>1 DEF Finish, Goto
  <2>2. CASE ~Finish(c, "failed")
    <3>1. pc' = pc /\ db' = db /\ pc[c] = "gcDelete"
      BY <1>5, <2>2 DEF GcDeleteOne
    <3>2. PICK p \in Paths : gc' = [gc EXCEPT ![c].deleted = @ \cup {p}]
      BY <1>5, <2>2 DEF GcDeleteOne
    <3>3. gc'[c].reclaim = gc[c].reclaim
      BY <1>0, <3>2 DEF GcStates
    <3> QED BY <1>0, <3>1, <3>3 DEF Announced, Deleting
  <2> QED BY <2>1, <2>2
<1>6. CASE GcRecordDeleting(c)
  <2>1. GcRecord(c, gc[c].reclaim, Cardinality(gc[c].reclaim), "deleting", "gcDelete")
    BY <1>6 DEF GcRecordDeleting
  <2>2. gc[c].reclaim \in SUBSET Paths
    BY <1>0 DEF GcStates
  <2>3. CASE pc'[c] = "idle"
    BY <1>a, <2>3
  <2>4. CASE pc'[c] # "idle"
    <3>1. gc' = gc /\ pc'[c] = "gcDelete"
      BY <1>0, <2>1, <2>2, <2>4, GcRecorded
    <3>2. Deleting' = Deleting \cup gc[c].reclaim
      BY <1>0, <2>1, <2>2, <2>4, GcRecorded
    <3> QED BY <3>1, <3>2 DEF Announced
  <2> QED BY <2>3, <2>4
<1> QED BY <1>1, <1>2, <1>3, <1>4, <1>5, <1>6, CollectorOwnOrOthers DEF GcStep

LEMMA RetInvInit == Init => RetInv
<1> SUFFICES ASSUME Init PROVE RetInv
  OBVIOUS
<1>1. BundleInv
  BY BundleInvInit
<1>2. \A w \in Writers : Fresh(w)
  BY DEF Init, Fresh, Procs
<1>3. Deleting = {}
  BY DEF Init, EmptyDb, Deleting
<1>4. LedgerGuarded
  BY <1>3 DEF LedgerGuarded
<1>5. \A c \in Collectors : Listed(c) /\ Announced(c) /\ Behind(c)
  BY DEF Init, Listed, Announced, Behind, Procs, EmptyDb, NoRevision
<1> QED BY <1>1, <1>2, <1>4, <1>5 DEF RetInv

LEMMA RetInvStep ==
  ASSUME Republishers = {}
  PROVE  RetInv /\ [Next]_vars => RetInv'
<1> SUFFICES ASSUME RetInv, [Next]_vars PROVE RetInv'
  OBVIOUS
<1>1. BundleInv'
  BY BundleInvStep DEF RetInv
<1> QED BY <1>1, FreshStep, LedgerGuardedStep, ListedStep, AnnouncedStep, BehindStep DEF RetInv

\* Whatever a gc run is about to delete, at least Retain newer generations
\* besides the active one are on disk and not on its list: its scan runs before
\* the lock, and an interrupted earlier run may have announced generations that
\* the scan counts as kept and that the run's own recovery then removes, but
\* those had their own newer ones, and the compare-and-swap on the revision
\* throws away a list that anything else has made stale.
THEOREM RetentionIsHonoured ==
  ASSUME Republishers = {}
  PROVE  Spec => []RetentionHonoured
<1>1. RetInv => RetentionHonoured
  <2> SUFFICES ASSUME RetInv, NEW c \in Collectors, pc[c] \in {"gcMark", "gcDelete"},
                      NEW n \in GenIds, Gen(n) \in gc[c].reclaim
               PROVE  Cardinality({m \in GensOnDisk \ {db.active} :
                                     m > n /\ Gen(m) \notin gc[c].reclaim}) >= Retain
    BY DEF RetentionHonoured
  <2> DEFINE T == {m \in GensOnDisk \ {db.active} : Gen(m) \notin gc[c].reclaim}
  <2>1. Enough(Spared(c), n)
    BY DEF RetInv, Listed, OnBudget
  <2>2. Spared(c) \subseteq T /\ T \in SUBSET GenIds
    BY DEF Spared, Safe, GensOnDisk
  <2>3. Enough(T, n)
    BY <2>1, <2>2, EnoughMoves
  <2>4. {m \in T : m > n} = {m \in GensOnDisk \ {db.active} :
                                m > n /\ Gen(m) \notin gc[c].reclaim}
    OBVIOUS
  <2> HIDE DEF T
  <2> QED BY <2>3, <2>4 DEF Enough
<1> QED BY <1>1, RetInvInit, RetInvStep, PTL DEF Spec

-----------------------------------------------------------------------------
(* A published store stays readable                                        *)

\* The active generation is there and is not announced for deletion.
Standing == db.active # 0 => OnDisk(db.active) /\ Gen(db.active) \notin Deleting

\* Neither is the generation a save is about to publish announced, and a
\* collector's list spares the generation its revision names.
Unannounced(w) ==
  pc[w] \in {"temp", "rename", "commit", "create"} => Gen(newGen[w]) \notin Deleting
Apart(c) ==
  pc[c] \in {"gcLock", "gcLedger", "gcRecover", "gcRemove", "gcMain", "gcMark"} =>
    Gen(rev[c].active) \notin gc[c].reclaim

\* Without interruptions, paths are announced only while a collector deletes
\* them, what it listed is still there, and nothing stops it.
Quiet == Deleting # {} => \E c \in Collectors : pc[c] = "gcDelete"
Found(c) ==
  pc[c] \in {"gcLock", "gcLedger", "gcRecover", "gcRemove", "gcMain", "gcMark"}
      /\ rev[c] = Revision(db) /\ Deleting = {} =>
    \A n \in GenIds : Gen(n) \in gc[c].reclaim => OnDisk(n)
Unstopped(c) ==
  pc[c] = "gcDelete" =>
    /\ OpenVerifies(0) /\ rev[c] = Revision(db)
    /\ Deleting \subseteq gc[c].reclaim
    /\ \A n \in GenIds : Gen(n) \in gc[c].reclaim \ gc[c].deleted => OnDisk(n)
Undisturbed == Quiet /\ \A c \in Collectors : Found(c) /\ Unstopped(c)

OpenInv ==
  /\ RetInv /\ AuditComplete /\ Standing
  /\ \A w \in Writers : Unannounced(w)
  /\ \A c \in Collectors : Apart(c)
  /\ Retain >= 1 \/ Undisturbed

\* max+1 over the directories is not an announced id: each announced
\* generation has a newer one on disk, or no deletion is under way.
LEMMA NewIdUnannounced ==
  ASSUME RetInv, Retain >= 1
  PROVE  Gen(NextGeneration) \notin Deleting
<1> SUFFICES ASSUME Gen(NextGeneration) \in Deleting PROVE FALSE
  OBVIOUS
<1> DEFINE S == {0} \cup GensOnDisk
           N == NextGeneration
<1>0. MaxGen \in Nat /\ Retain \in Nat
  BY RetTypes
<1>1. S \in SUBSET (0..MaxGen) /\ S # {} /\ Kept \subseteq S
  BY <1>0 DEF GensOnDisk, GenIds, Kept, Safe
<1>2. Max(S) \in 0..MaxGen /\ \A m \in S : m <= Max(S)
  BY <1>1, MaxExists
<1>3. N = Max(S) + 1
  BY DEF NextGeneration
<1> HIDE DEF N, S
<1>4. N \in GenIds
  BY DEF Deleting, Paths, Gen, N
<1>5. Enough(Kept, N)
  BY <1>4 DEF RetInv, LedgerGuarded, N
<1>6. {m \in Kept : m > N} # {}
  BY <1>0, <1>5, FS_EmptySet DEF Enough
<1>7. PICK m \in Kept : m > N
  BY <1>6
<1> QED BY <1>0, <1>1, <1>2, <1>3, <1>7

\* While a writer holds the lock nothing is announced.
LEMMA WriterHolds ==
  ASSUME RetInv, NEW w \in Writers, pc[w] \in WriterLabels, NEW c \in Collectors
  PROVE  pc[c] \notin CollectorLabels
<1>1. LockDiscipline /\ w \in Procs /\ c \in Procs /\ w # c
  BY ProcAssumption, RetTypes DEF Procs
<1> QED BY <1>1, OneLocked DEF LockedLabels

LEMMA CollectorsExclude ==
  ASSUME RetInv, NEW c \in Collectors, NEW d \in Collectors,
         pc[c] \in CollectorLabels, pc[d] \in CollectorLabels
  PROVE  c = d
<1>1. LockDiscipline /\ c \in Procs /\ d \in Procs
  BY RetTypes DEF Procs
<1> QED BY <1>1, OneLocked DEF LockedLabels

LEMMA UnannouncedStep ==
  ASSUME Republishers = {}, OpenInv, [Next]_vars, NEW w \in Writers
  PROVE  Unannounced(w)'
<1>0. /\ RetInv /\ CasInv /\ w \in Procs /\ pc \in [Procs -> Labels]
      /\ newGen \in [Writers -> 0..MaxGen] /\ Unannounced(w)
  BY RetTypes DEF OpenInv, Procs
<1>a. ASSUME pc'[w] \notin {"temp", "rename", "commit", "create"}
      PROVE  Unannounced(w)'
  BY <1>a DEF Unannounced
<1>b. ASSUME pc[w] \in {"temp", "rename", "commit", "create"}, newGen'[w] = newGen[w]
      PROVE  Unannounced(w)'
  <2>1. \A c \in Collectors : pc[c] # "gcMark"
    BY <1>0, <1>b, WriterHolds DEF WriterLabels, CollectorLabels
  <2>2. Deleting' \subseteq Deleting
    BY <1>0, <2>1, DeletingStep
  <2> QED BY <1>0, <1>b, <2>2 DEF Unannounced
<1>1. CASE OthersStep(w)
  <2>1. pc'[w] = pc[w] /\ newGen'[w] = newGen[w]
    BY <1>0, <1>1, HolderAlone
  <2> QED BY <1>a, <1>b, <2>1
<1>2. CASE Crash(w) \/ LoadPayloads(w) \/ LoadStep(w) \/ SaveAcquire(w) \/ SaveIoError(w)
           \/ SaveFirstTransaction(w) \/ SaveVerify(w) \/ SaveRecover(w)
  <2>1. pc'[w] \notin {"temp", "rename", "commit", "create"}
    BY <1>0, <1>2 DEF Crash, LoadPayloads, LoadStep, LoadToken, LoadIndex, SaveAcquire,
                      SaveIoError, SaveFirstTransaction, SaveVerify, SaveRecover, ReportSaved,
                      CommitSnapshot, Finish, Goto
  <2> QED BY <1>a, <2>1
<1>3. CASE Add(w) \/ SaveWriteTemp(w) \/ SaveRename(w) \/ SaveCommit(w)
  <2>1. newGen' = newGen /\ (pc[w] \in {"temp", "rename", "commit", "create"} \/ pc' = pc)
    BY <1>3 DEF Add, SaveWriteTemp, SaveRename, SaveCommit
  <2> QED BY <1>a, <1>b, <2>1
<1>4. CASE SaveCheckBase(w)
  <2>0. pc[w] = "fresh" /\ db' = db
    BY <1>4 DEF SaveCheckBase
  <2>1. CASE Finish(w, "failed")
    BY <1>0, <1>a, <2>1 DEF Finish, Goto
  <2>2. CASE newGen' = [newGen EXCEPT ![w] = IF IsEmptyLazy(w) THEN 0 ELSE NextGeneration]
    <3>1. newGen'[w] = 0 \/ newGen'[w] = NextGeneration
      BY <1>0, <2>2
    <3>2. Gen(0) \notin Deleting
      BY DEF Deleting, Paths, Gen, GenIds
    <3>3. Gen(NextGeneration) \notin Deleting
      <4>1. CASE Retain >= 1
        BY <1>0, <4>1, NewIdUnannounced
      <4>2. CASE Quiet
        BY <1>0, <2>0, <4>2, WriterHolds DEF Quiet, WriterLabels, CollectorLabels
      <4> QED BY <4>1, <4>2 DEF OpenInv, Undisturbed
    <3> QED BY <2>0, <3>1, <3>2, <3>3 DEF Unannounced, Deleting
  <2> QED BY <1>4, <2>1, <2>2 DEF SaveCheckBase
<1> QED BY <1>1, <1>2, <1>3, <1>4, OwnOrOthers DEF WriterStep, SaveStep

LEMMA ApartStep ==
  ASSUME RetInv, [Next]_vars, NEW c \in Collectors, Apart(c)
  PROVE  Apart(c)'
<1>0. /\ TypeOK /\ CasInv /\ c \in Procs /\ pc \in [Procs -> Labels]
      /\ gc \in [Collectors -> GcStates] /\ gc[c] \in GcStates
  BY RetTypes DEF Procs
<1>a. ASSUME pc'[c] \notin {"gcLock", "gcLedger", "gcRecover", "gcRemove", "gcMain", "gcMark"}
      PROVE  Apart(c)'
  BY <1>a DEF Apart
<1>b. ASSUME pc[c] \in {"gcLock", "gcLedger", "gcRecover", "gcRemove", "gcMain", "gcMark"},
             gc'[c].reclaim = gc[c].reclaim, rev'[c].active = rev[c].active
      PROVE  Apart(c)'
  BY <1>b DEF Apart
<1>1. CASE CollectorOthers(c)
  <2>1. pc'[c] = pc[c] /\ gc'[c] = gc[c] /\ rev'[c] = rev[c]
    BY <1>0, <1>1, CollectorAlone
  <2> QED BY <2>1 DEF Apart
<1>2. CASE Crash(c) \/ GcOpen(c) \/ GcReport(c) \/ GcDeleteOne(c) \/ GcRecordDeleting(c)
           \/ GcRecordDeleted(c)
  <2>1. pc'[c] \notin {"gcLock", "gcLedger", "gcRecover", "gcRemove", "gcMain", "gcMark"}
    BY <1>0, <1>2 DEF Crash, GcOpen, GcReport, GcDeleteOne, GcRecordDeleting, GcRecordDeleted,
                      GcRecord, Finish, Goto
  <2> QED BY <1>a, <2>1
<1>3. CASE GcScan(c)
  <2> DEFINE S == Retained(c) \ pins
  <2>1. /\ gc'[c].reclaim = {Gen(n) : n \in BeyondBudget(S)}
                              \cup {Tmp(n) : n \in {m \in GenIds : disk[Tmp(m)] # Absent}}
        /\ rev' = rev
    BY <1>0, <1>3 DEF GcScan, GcStates
  <2>2. BeyondBudget(S) \subseteq GenIds \ {rev[c].active}
    BY DEF BeyondBudget, Retained, GensOnDisk
  <2>3. \A n \in GenIds \ {rev[c].active} : Gen(n) # Gen(rev[c].active)
    BY PathNames
  <2>4. \A n : Tmp(n) # Gen(rev[c].active)
    BY DEF Tmp, Gen
  <2> QED BY <2>1, <2>2, <2>3, <2>4 DEF Apart
<1>4. CASE GcAcquire(c) \/ GcLedger(c) \/ GcRecoverCheck(c) \/ GcRecoverRemove(c)
  <2>1. rev' = rev /\ gc'[c].reclaim = gc[c].reclaim
    BY <1>0, <1>4, RecoverySteps DEF GcAcquire, GcLedger, GcStates
  <2>2. pc[c] \in {"gcLock", "gcLedger", "gcRecover", "gcRemove"}
    BY <1>4 DEF GcAcquire, GcLedger, GcRecoverCheck, GcRecoverRemove
  <2> QED BY <1>b, <2>1, <2>2
<1>c. ASSUME NEW paths \in SUBSET Paths, NEW count, NEW label,
             NEW state \in {"reclaimable", "deleting", "deleted"},
             GcRecord(c, paths, count, state, label), pc'[c] # "idle"
      PROVE  gc' = gc /\ rev'[c].active = rev[c].active
  <2>1. rev[c] = Revision(db) /\ rev'[c] = Revision(db') /\ db'.active = db.active
    BY <1>c, RetTypes, GcRecorded
  <2> QED BY <1>c, <2>1, RetTypes, GcRecorded DEF Revision
<1>5. CASE GcRecordRecovered(c)
  <2>0. gc[c].recovered \in SUBSET Paths /\ pc[c] = "gcRecover"
    BY <1>0, <1>5 DEF GcStates, GcRecordRecovered
  <2>1. CASE GcRecord(c, gc[c].recovered, Cardinality(gc[c].recovered), "deleted", "gcMain")
    BY <1>a, <1>b, <1>c, <2>0, <2>1
  <2> QED BY <1>5, <1>b, <2>0, <2>1 DEF GcRecordRecovered
<1>6. CASE GcRecordReclaimable(c)
  <2>0. gc[c].reclaim \in SUBSET Paths /\ pc[c] = "gcMain"
    BY <1>0, <1>6 DEF GcStates, GcRecordReclaimable
  <2>1. CASE GcRecord(c, gc[c].reclaim, Cardinality(gc[c].reclaim), "reclaimable", "gcMark")
    BY <1>a, <1>b, <1>c, <2>0, <2>1
  <2>2. CASE UNCHANGED <<db, disk, pins, rev, gc, gcUnchanged>>
    BY <1>b, <2>0, <2>2
  <2> QED BY <1>6, <2>1, <2>2 DEF GcRecordReclaimable
<1> QED BY <1>1, <1>2, <1>3, <1>4, <1>5, <1>6, CollectorOwnOrOthers DEF GcStep

LEMMA StandingStep ==
  ASSUME Republishers = {}, OpenInv, [Next]_vars
  PROVE  Standing'
<1>0. RetInv /\ CasInv /\ TypeOK /\ Standing /\ MaxGen \in Nat /\ db.active \in 0..MaxGen
      /\ newGen \in [Writers -> 0..MaxGen]
  BY RetTypes DEF OpenInv
<1>1. CASE db'.active = db.active /\ db.active # 0
  <2> DEFINE a == db.active
  <2>1. a \in GensOnDisk /\ a \in GenIds /\ Gen(a) \notin Deleting
    BY <1>0, <1>1 DEF Standing, GensOnDisk, GenIds
  <2>2. disk'[Gen(a)].dir = "present"
    BY <1>0, <2>1, UnannouncedStays DEF OnDisk
  <2>3. Gen(a) \notin Deleting'
    <3>1. CASE Deleting' \subseteq Deleting
      BY <2>1, <3>1
    <3>2. ASSUME NEW c \in Collectors, pc[c] = "gcMark", rev[c] = Revision(db),
                 Deleting' = Deleting \cup gc[c].reclaim
          PROVE  Gen(a) \notin Deleting'
      <4>1. rev[c].active = a
        BY <3>2 DEF Revision
      <4>2. Gen(a) \notin gc[c].reclaim
        BY <3>2, <4>1 DEF OpenInv, Apart
      <4> QED BY <2>1, <3>2, <4>2
    <3> QED BY <1>0, <3>1, <3>2, DeletingStep
  <2> QED BY <1>1, <2>2, <2>3 DEF Standing, OnDisk
<1>2. CASE db'.active = db.active /\ db.active = 0
  BY <1>2 DEF Standing
<1>3. ASSUME NEW w \in Writers, Snapshots(w)
      PROVE  Standing'
  <2>1. db'.active = newGen[w] /\ disk' = disk /\ pc[w] \in {"commit", "create"}
    BY <1>0, <1>3, SaveSnapshot DEF Snapshots
  <2>2. Gen(newGen[w]) \notin Deleting'
    <3>1. \A c \in Collectors : pc[c] # "gcMark"
      BY <1>0, <2>1, WriterHolds DEF WriterLabels, CollectorLabels
    <3>2. Deleting' \subseteq Deleting
      BY <1>0, <3>1, DeletingStep
    <3> QED BY <2>1, <3>2 DEF OpenInv, Unannounced
  <2>3. newGen[w] # 0 => OnDisk(newGen[w])
    <3>1. newGen[w] # 0 => disk[Gen(newGen[w])] = Bundle(handle[w].index)
      BY <1>0, <2>1 DEF RetInv, BundleInv, Scratch
    <3>2. Bundle(handle[w].index).dir = "present"
      BY DEF Bundle
    <3> QED BY <3>1, <3>2 DEF OnDisk
  <2> QED BY <2>1, <2>2, <2>3 DEF Standing, OnDisk
<1> QED BY <1>0, <1>1, <1>2, <1>3, RevisionStep

\* The checks of open_verified, from the invariant.
LEMMA StoreOpens == RetInv /\ AuditComplete /\ Standing => PublishedStoreOpens
<1> SUFFICES ASSUME RetInv, AuditComplete, Standing, db.file = "ok", db.active # 0
             PROVE  OpenVerifies(0)
  BY DEF PublishedStoreOpens
<1>1. CountInv /\ TablesConsistent
  BY RetTypes, CountsAgree
<1>2. OnDisk(db.active) /\ disk[Gen(db.active)].records = db.digest
  BY DEF Standing, RetInv, BundleInv, BundleKept
<1>3. Cardinality(Records(db.payload)) = Cardinality(db.digest)
  BY DEF RetInv, BundleInv, RecordedDigest
<1> QED BY <1>1, <1>2, <1>3 DEF TablesConsistent, OpenVerifies, GenerationVerifies

-----------------------------------------------------------------------------
(* gc runs that nothing interrupts                                         *)

Uninterrupted == Collectors \cap Crashable = {} /\ MaxContention = 0

LEMMA NoContention ==
  ASSUME Uninterrupted, TypeOK
  PROVE  ~Contended
BY DEF Uninterrupted, TypeOK, Contended

\* A deletion ends by recording everything it announced.
LEMMA DeletionEnds ==
  ASSUME Uninterrupted, RetInv, [Next]_vars, NEW c \in Collectors, pc[c] = "gcDelete",
         Unstopped(c)
  PROVE  pc'[c] = "gcDelete" \/ (pc'[c] = "gcDone" /\ Deleting' = {})
<1>0. /\ TypeOK /\ CasInv /\ c \in Procs /\ pc \in [Procs -> Labels] /\ ~Contended
      /\ gc \in [Collectors -> GcStates] /\ gc[c] \in GcStates
  BY RetTypes, NoContention DEF Procs
<1>1. CASE CollectorOthers(c)
  BY <1>0, <1>1, CollectorAlone
<1>2. CASE GcDeleteOne(c)
  <2> SUFFICES ASSUME NEW p \in Paths, p \in gc[c].reclaim \ gc[c].deleted,
                      p[1] = "gen", disk[p] = Absent
               PROVE  FALSE
    BY <1>0, <1>2 DEF GcDeleteOne, IsFirst
  <2>1. PICK n \in GenIds : p = Gen(n)
    BY DEF Paths, Gen
  <2> QED BY <2>1 DEF Unstopped, OnDisk, Absent
<1>3. CASE GcRecordDeleted(c)
  <2> DEFINE paths == gc[c].recovered \cup gc[c].deleted
             count == Cardinality(gc[c].recovered) + Cardinality(gc[c].deleted)
  <2>1. GcRecord(c, paths, count, "deleted", "gcDone") /\ gc[c].deleted = gc[c].reclaim
    BY <1>3 DEF GcRecordDeleted
  <2>2. paths \in SUBSET Paths
    BY <1>0 DEF GcStates
  <2> HIDE DEF count
  <2>3. pc'[c] = "gcDone"
    BY <1>0, <2>1 DEF GcRecord, Refused, Unstopped, Goto
  <2>a. TypeOK /\ pc'[c] # "idle"
    BY <1>0, <2>3
  <2>b. RecordedAs(c, Deleting \ paths, "gcDone")
    BY <2>1, <2>2, <2>a, DeletingSettled
  <2>4. Deleting' = Deleting \ paths
    BY <2>b DEF RecordedAs, Recorded
  <2> QED BY <2>1, <2>3, <2>4 DEF Unstopped
<1>4. ~Crash(c)
  BY DEF Crash, Uninterrupted
<1> QED BY <1>1, <1>2, <1>3, <1>4, CollectorOwnOrOthers
    DEF GcStep, GcOpen, GcScan, GcAcquire, GcLedger, GcRecoverCheck, GcRecoverRemove,
        GcRecordRecovered,
        GcRecordReclaimable, GcRecordDeleting, GcReport

LEMMA QuietStep ==
  ASSUME Republishers = {}, Uninterrupted, RetInv, Undisturbed, [Next]_vars
  PROVE  Quiet'
<1>0. TypeOK /\ pc \in [Procs -> Labels] /\ ~Contended
  BY RetTypes, NoContention
<1>1. CASE Deleting' \subseteq Deleting
  BY <1>1, DeletionEnds DEF Quiet, Undisturbed
<1>2. ASSUME NEW c \in Collectors, GcRecordDeleting(c)
      PROVE  db' = db \/ Quiet'
  <2>0. c \in Procs
    BY DEF Procs
  <2>1. db' = db \/ pc'[c] = "gcDelete"
    BY <1>0, <1>2, <2>0 DEF GcRecordDeleting, GcRecord, Goto
  <2> QED BY <2>1 DEF Quiet
<1>3. db' = db => Deleting' \subseteq Deleting
  BY DEF Deleting
<1> QED BY <1>1, <1>2, <1>3, DeletingStep

\* Nothing is announced while a collector that holds the lock is not deleting.
LEMMA NothingAnnounced ==
  ASSUME RetInv, Quiet, NEW c \in Collectors, pc[c] \in CollectorLabels, pc[c] # "gcDelete"
  PROVE  Deleting = {}
<1> SUFFICES ASSUME NEW d \in Collectors, pc[d] = "gcDelete" PROVE FALSE
  BY DEF Quiet
<1>1. pc[d] \in CollectorLabels
  BY DEF CollectorLabels
<1> QED BY <1>1, CollectorsExclude

LEMMA FoundStep ==
  ASSUME Republishers = {}, RetInv, Undisturbed, [Next]_vars, NEW c \in Collectors
  PROVE  Found(c)'
<1> DEFINE Busy == {"gcLock", "gcLedger", "gcRecover", "gcRemove", "gcMain", "gcMark"}
<1>0. /\ TypeOK /\ CasInv /\ c \in Procs /\ pc \in [Procs -> Labels] /\ Found(c)
      /\ gc \in [Collectors -> GcStates] /\ gc[c] \in GcStates /\ Quiet
  BY RetTypes DEF Procs, Undisturbed
<1>a. ASSUME pc'[c] \notin Busy
      PROVE  Found(c)'
  BY <1>a DEF Found
<1>b. ASSUME pc[c] \in Busy, gc'[c].reclaim = gc[c].reclaim, rev'[c] = rev[c]
      PROVE  Found(c)'
  <2> SUFFICES ASSUME rev[c] = Revision(db'), Deleting' = {},
                      NEW n \in GenIds, Gen(n) \in gc[c].reclaim
               PROVE  OnDisk(n)'
    BY <1>b DEF Found, OnDisk
  <2>1. db'.seq = db.seq
    <3>1. rev[c].seq = db'.seq /\ rev[c].seq <= db.seq /\ db.seq \in Nat
      BY RetTypes DEF Revision, RetInv, Behind
    <3> QED BY <3>1, RevisionStep
  <2>2. rev[c] = Revision(db) /\ Deleting = {}
    BY <2>1, RevisionStep
  <2>3. n \in GensOnDisk
    BY <1>0, <1>b, <2>2 DEF Found, GensOnDisk
  <2> QED BY <2>2, <2>3, UnannouncedStays
<1>c. ASSUME NEW paths \in SUBSET Paths, NEW count, NEW label,
             NEW state \in {"reclaimable", "deleting", "deleted"},
             GcRecord(c, paths, count, state, label), pc'[c] # "idle",
             pc[c] \in {"gcRecover", "gcMain"}
      PROVE  Found(c)'
  <2>1. rev[c] = Revision(db) /\ disk' = disk /\ gc' = gc
    BY <1>0, <1>c, GcRecorded
  <2>2. Deleting = {}
    BY <1>0, <1>c, NothingAnnounced DEF CollectorLabels
  <2>3. \A n \in GenIds : Gen(n) \in gc[c].reclaim => OnDisk(n)
    BY <1>0, <1>c, <2>1, <2>2 DEF Found
  <2> QED BY <2>1, <2>3 DEF Found, OnDisk
<1>1. CASE CollectorOthers(c)
  <2>1. pc'[c] = pc[c] /\ gc'[c] = gc[c] /\ rev'[c] = rev[c]
    BY <1>0, <1>1, CollectorAlone
  <2> QED BY <1>a, <1>b, <2>1
<1>2. CASE Crash(c) \/ GcOpen(c) \/ GcReport(c) \/ GcDeleteOne(c) \/ GcRecordDeleting(c)
           \/ GcRecordDeleted(c)
  <2>1. pc'[c] \notin Busy
    BY <1>0, <1>2 DEF Crash, GcOpen, GcReport, GcDeleteOne, GcRecordDeleting, GcRecordDeleted,
                      GcRecord, Finish, Goto
  <2> QED BY <1>a, <2>1
<1>3. CASE GcScan(c)
  <2> DEFINE S == Retained(c) \ pins
  <2>1. /\ gc'[c].reclaim = {Gen(n) : n \in BeyondBudget(S)}
                              \cup {Tmp(n) : n \in {m \in GenIds : disk[Tmp(m)] # Absent}}
        /\ disk' = disk
    BY <1>0, <1>3 DEF GcScan, GcStates
  <2>2. BeyondBudget(S) \subseteq GensOnDisk
    BY DEF BeyondBudget, Retained
  <2>3. \A n \in GenIds : Gen(n) \in gc'[c].reclaim => n \in GensOnDisk
    BY <2>1, <2>2, PathNames
  <2> QED BY <2>1, <2>3 DEF Found, GensOnDisk, OnDisk
<1>4. CASE GcAcquire(c) \/ GcLedger(c) \/ GcRecoverCheck(c) \/ GcRecoverRemove(c)
  <2>1. rev' = rev /\ gc'[c].reclaim = gc[c].reclaim
    BY <1>0, <1>4, RecoverySteps DEF GcAcquire, GcLedger, GcStates
  <2>2. pc[c] \in Busy
    BY <1>4 DEF GcAcquire, GcLedger, GcRecoverCheck, GcRecoverRemove
  <2> QED BY <1>b, <2>1, <2>2
<1>5. CASE GcRecordRecovered(c)
  <2>0. gc[c].recovered \in SUBSET Paths /\ pc[c] = "gcRecover"
    BY <1>0, <1>5 DEF GcStates, GcRecordRecovered
  <2>1. CASE GcRecord(c, gc[c].recovered, Cardinality(gc[c].recovered), "deleted", "gcMain")
    BY <1>a, <1>c, <2>0, <2>1
  <2> QED BY <1>5, <1>b, <2>0, <2>1 DEF GcRecordRecovered
<1>6. CASE GcRecordReclaimable(c)
  <2>0. gc[c].reclaim \in SUBSET Paths /\ pc[c] = "gcMain"
    BY <1>0, <1>6 DEF GcStates, GcRecordReclaimable
  <2>1. CASE GcRecord(c, gc[c].reclaim, Cardinality(gc[c].reclaim), "reclaimable", "gcMark")
    BY <1>a, <1>c, <2>0, <2>1
  <2>2. CASE UNCHANGED <<db, disk, pins, rev, gc, gcUnchanged>>
    BY <1>b, <2>0, <2>2
  <2> QED BY <1>6, <2>1, <2>2 DEF GcRecordReclaimable
<1> QED BY <1>1, <1>2, <1>3, <1>4, <1>5, <1>6, CollectorOwnOrOthers DEF GcStep

LEMMA UnstoppedStep ==
  ASSUME Republishers = {}, Uninterrupted, OpenInv, Undisturbed, [Next]_vars, NEW c \in Collectors
  PROVE  Unstopped(c)'
<1>0. /\ RetInv /\ TypeOK /\ CasInv /\ c \in Procs /\ pc \in [Procs -> Labels]
      /\ gc \in [Collectors -> GcStates] /\ gc[c] \in GcStates /\ ~Contended
      /\ Quiet /\ Found(c) /\ Unstopped(c)
      /\ disk \in [Paths -> [dir : {"absent", "present"}, records : Contents]]
  BY RetTypes, NoContention DEF Procs, Undisturbed, OpenInv, TypeOK
<1>a. ASSUME pc'[c] # "gcDelete"
      PROVE  Unstopped(c)'
  BY <1>a DEF Unstopped
<1>1. CASE CollectorOthers(c)
  <2>1. /\ pc'[c] = pc[c] /\ gc'[c] = gc[c] /\ rev'[c] = rev[c]
        /\ pc[c] \in CollectorLabels => db' = db /\ disk' = disk
    BY <1>0, <1>1, CollectorAlone
  <2>2. CASE pc[c] = "gcDelete"
    <3>1. db' = db /\ disk' = disk
      BY <2>1, <2>2 DEF CollectorLabels
    <3>2. OpenVerifies(0)' = OpenVerifies(0)
      BY <3>1 DEF OpenVerifies, GenerationVerifies, GensOnDisk, OnDisk
    <3> QED BY <1>0, <2>1, <2>2, <3>1, <3>2 DEF Unstopped, Deleting, OnDisk
  <2>3. CASE pc[c] # "gcDelete"
    BY <1>a, <2>1, <2>3
  <2> QED BY <2>2, <2>3
<1>2. CASE GcDeleteOne(c) /\ pc'[c] = "gcDelete"
  <2>0. pc[c] = "gcDelete" /\ db' = db /\ rev' = rev
    BY <1>2 DEF GcDeleteOne
  <2>1. PICK p \in Paths :
          /\ p \in gc[c].reclaim \ gc[c].deleted
          /\ DeletePath(p) /\ gc' = [gc EXCEPT ![c].deleted = @ \cup {p}]
    BY <1>0, <1>2 DEF GcDeleteOne, IsFirst, Finish, Goto
  <2>2. \A q \in Paths : disk'[q] = IF q = p THEN Absent ELSE disk[q]
    BY <1>0, <2>1 DEF DeletePath
  <2>3. gc'[c].reclaim = gc[c].reclaim /\ gc'[c].deleted = gc[c].deleted \cup {p}
    BY <1>0, <2>1 DEF GcStates
  <2>4. OpenVerifies(0)'
    <3>1. OpenVerifies(0)
      BY <1>0, <2>0 DEF Unstopped
    <3>2. CASE db.active = 0
      <4>1. GensOnDisk' \subseteq GensOnDisk
        <5>1. \A n \in GenIds : disk'[Gen(n)].dir = "present" => disk[Gen(n)].dir = "present"
          BY <2>2, PathNames DEF Absent
        <5> QED BY <5>1 DEF GensOnDisk, OnDisk
      <4> QED BY <2>0, <3>1, <3>2, <4>1 DEF OpenVerifies, GenerationVerifies
    <3>3. CASE db.active # 0
      <4>1. Gen(db.active) \notin Deleting /\ gc[c].reclaim \subseteq Deleting
        BY <2>0, <3>3 DEF OpenInv, Standing, RetInv, Announced
      <4>2. Gen(db.active) \in Paths /\ Gen(db.active) # p
        <5>1. db.active \in GenIds
          BY <3>3, RetTypes, <1>0 DEF GenIds
        <5> QED BY <2>1, <4>1, <5>1, PathNames
      <4>3. disk'[Gen(db.active)] = disk[Gen(db.active)]
        BY <2>2, <4>2
      <4> QED BY <2>0, <3>1, <3>3, <4>3 DEF OpenVerifies, GenerationVerifies, OnDisk
    <3> QED BY <3>2, <3>3
  <2>5. ASSUME NEW n \in GenIds, Gen(n) \in gc'[c].reclaim \ gc'[c].deleted
        PROVE  OnDisk(n)'
    <3>1. Gen(n) # p /\ OnDisk(n) /\ Gen(n) \in Paths
      BY <1>0, <2>0, <2>3, <2>5, PathNames DEF Unstopped
    <3> QED BY <2>2, <3>1 DEF OnDisk
  <2> QED BY <1>0, <2>0, <2>3, <2>4, <2>5 DEF Unstopped, Deleting
<1>3. CASE GcRecordDeleting(c) /\ pc'[c] = "gcDelete"
  <2>0. pc[c] = "gcMark" /\ gc[c].reclaim \in SUBSET Paths
        /\ GcRecord(c, gc[c].reclaim, Cardinality(gc[c].reclaim), "deleting", "gcDelete")
    BY <1>0, <1>3 DEF GcRecordDeleting, GcStates
  <2>a. TypeOK /\ pc'[c] # "idle"
    BY <1>0, <1>3
  <2>b. RecordedAs(c, Deleting \cup gc[c].reclaim, "gcDelete")
    BY <2>0, <2>a, DeletingAnnounced
  <2>1. /\ OpenVerifies(0) /\ rev[c] = Revision(db) /\ rev'[c] = Revision(db')
        /\ disk' = disk /\ gc' = gc
    BY <2>b DEF RecordedAs, Recorded
  <2>2. Deleting' = Deleting \cup gc[c].reclaim
    BY <2>b DEF RecordedAs, Recorded
  <2>3. Deleting = {}
    BY <1>0, <2>0, NothingAnnounced DEF CollectorLabels
  <2>4. \A n \in GenIds : Gen(n) \in gc[c].reclaim => OnDisk(n)
    BY <1>0, <2>0, <2>1, <2>3 DEF Found
  <2>5. OpenVerifies(0)'
    <3>1. /\ db'.file = db.file /\ db'.active = db.active /\ db'.digest = db.digest
          /\ db'.payload = db.payload
      <4>1. db' = GcTxn(db, gc[c].reclaim, Cardinality(gc[c].reclaim), "deleting")
        BY <1>0, <1>3, <2>0 DEF GcRecord, Finish, Goto
      <4> QED BY <4>1, RetTypes, <1>0, GcParts
    <3>2. TablesConsistent'
      <4>1. CountInv'
        BY CountInvStep, <1>0, RetTypes
      <4>2. AuditComplete'
        BY <1>0, AuditStep DEF OpenInv
      <4>3. (CountInv /\ AuditComplete => TablesConsistent)'
        BY CountsAgree, PTL
      <4> QED BY <4>1, <4>2, <4>3
    <3>3. GenerationVerifies(db, 0)'
      BY <2>1, <3>1 DEF OpenVerifies, GenerationVerifies, GensOnDisk, OnDisk
    <3> QED BY <2>1, <3>1, <3>2, <3>3 DEF OpenVerifies, TablesConsistent
  <2> QED BY <2>1, <2>2, <2>3, <2>4, <2>5 DEF Unstopped, OnDisk
<1>4. CASE \/ Crash(c) \/ GcOpen(c) \/ GcScan(c) \/ GcAcquire(c) \/ GcLedger(c)
           \/ GcRecoverCheck(c)
           \/ GcRecoverRemove(c) \/ GcRecordRecovered(c) \/ GcRecordReclaimable(c)
           \/ GcRecordDeleted(c) \/ GcReport(c)
  <2>1. pc'[c] # "gcDelete"
    BY <1>0, <1>4 DEF Crash, GcOpen, GcScan, GcAcquire, GcLedger, GcRecoverCheck, GcRecoverRemove,
      GcRecordRecovered, GcRecordReclaimable, GcRecordDeleted, GcReport, GcRecord, Finish, Goto
  <2> QED BY <1>a, <2>1
<1> QED BY <1>1, <1>2, <1>3, <1>4, <1>a, CollectorOwnOrOthers DEF GcStep

LEMMA OpenInvInit == Init => OpenInv
<1> SUFFICES ASSUME Init PROVE OpenInv
  OBVIOUS
<1>1. RetInv
  BY RetInvInit
<1>2. db = EmptyDb /\ Deleting = {}
  BY DEF Init, EmptyDb, Deleting
<1>3. AuditComplete /\ Standing
  BY <1>2 DEF EmptyDb, AuditComplete, Standing
<1>4. \A w \in Writers : Unannounced(w)
  BY <1>2 DEF Unannounced
<1>5. \A c \in Collectors : Apart(c) /\ Found(c) /\ Unstopped(c)
  BY DEF Init, Apart, Found, Unstopped, Procs
<1> QED BY <1>1, <1>2, <1>3, <1>4, <1>5 DEF OpenInv, Undisturbed, Quiet

LEMMA OpenInvStep ==
  ASSUME Republishers = {}, Retain >= 1 \/ Uninterrupted
  PROVE  OpenInv /\ [Next]_vars => OpenInv'
<1> SUFFICES ASSUME OpenInv, [Next]_vars PROVE OpenInv'
  OBVIOUS
<1>1. RetInv /\ RetInv'
  BY RetInvStep DEF OpenInv
<1>2. AuditComplete'
  BY <1>1, RetTypes, AuditStep DEF OpenInv
<1>3. \A c \in Collectors : Apart(c)'
  BY <1>1, ApartStep DEF OpenInv
<1>4. Retain >= 1 \/ Undisturbed'
  BY <1>1, QuietStep, FoundStep, UnstoppedStep DEF OpenInv, Undisturbed
<1> QED BY <1>1, <1>2, <1>3, <1>4, StandingStep, UnannouncedStep DEF OpenInv

\* A published store passes every check of open_verified for ever: at gc's
\* default of one retained generation whatever processes die and whatever opens
\* are refused, and at --retain 0 as long as nothing interrupts a gc run.  What
\* goes wrong there otherwise: an interrupted run leaves announced ids with no
\* newer directory, max+1 hands such an id to a save, and the recovery of a
\* later run removes what has become the active generation.
THEOREM PublishedStoresOpen ==
  ASSUME Republishers = {},
         Retain >= 1 \/ (Collectors \cap Crashable = {} /\ MaxContention = 0)
  PROVE  Spec => []PublishedStoreOpens
<1>1. Retain >= 1 \/ Uninterrupted
  BY DEF Uninterrupted
<1>2. OpenInv => PublishedStoreOpens
  BY StoreOpens DEF OpenInv
<1> QED BY <1>1, <1>2, OpenInvInit, OpenInvStep, PTL DEF Spec
=============================================================================
