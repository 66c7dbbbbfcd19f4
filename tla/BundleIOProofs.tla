--------------------------- MODULE BundleIOProofs ---------------------------
(***************************************************************************)
(* Proofs about BundleIO for any writers, readers and bounds.  The key     *)
(* notion is the bundle a directory serves: what the path holds or, when   *)
(* there is nothing, the newest backup.  Only a publication changes it,    *)
(* and no writer removes the files of what a directory serves.             *)
(***************************************************************************)
EXTENDS BundleIO, FiniteSetTheorems, WellFoundedInduction, TLAPS

-----------------------------------------------------------------------------
(* The inductive invariant                                                  *)

\* Writers that have neither taken a stamp for the old bundle nor found the
\* path free, and writers whose bundle still is under its scratch name.
BeforeBackup == {"contents", "sync", "replace", "backup"}
Unpublished == BeforeBackup \cup {"move", "backup_sync", "publish"}

\* Bundle b is what a load of directory ns would use: what the path holds or,
\* when there is nothing, the newest backup.
Serves(ns, b) ==
  \/ ns[Path] = b
  \/ /\ ns[Path] = None
     /\ \E n \in Bundles : /\ ns[Bak(n)] = b
                           /\ \A m \in Bundles : ns[Bak(m)] # None => m <= n

\* A parent directory that is there, or that a power loss may leave, when k
\* bundles have been begun and t is the newest stamp used.
DirOK(ns, k, t) ==
  /\ ns \in [Names -> Bundles \cup {None, Foreign}]
  /\ \A x \in Names : ns[x] = Foreign => x = Path
  /\ \A x, y \in Names : ns[x] \in Bundles /\ ns[x] = ns[y] => x = y
  /\ \A x \in Names : ns[x] \in Bundles => ns[x] <= k
  /\ \A n \in Bundles : ns[Bak(n)] # None => n <= t

\* What is at the path before the first write stays there when it is foreign.
DirsOK ==
  /\ names \in survivable
  /\ \A ns \in survivable : /\ DirOK(ns, begun, newest)
                            /\ ns[Path] = Foreign <=> names[Path] = Foreign

\* Every write uses a bundle number of its own and takes at most one backup.
Pending == {writer[p].bundle : p \in {w \in Writers : writer[w].pc \in BeforeBackup}}
Published == {b \in Bundles : pub[b] > 0}
Counted ==
  /\ IsFiniteSet(Pending) /\ clock + Cardinality(Pending) <= begun - 1
  /\ \A b \in Bundles : pub[b] <= Cardinality(Published)
  /\ \A b \in Bundles : b > begun => pub[b] = 0

\* A bundle that is not published is under its scratch name only, and synced
\* from sync_bundle_tree on.
WriterOK(p) ==
  /\ writer[p].pc # "idle" => writer[p].bundle \in 1..begun
  /\ writer[p].backup <= clock
  /\ writer[p].pc \in {"restore", "cleanup", "unlink"} => writer[p].backup # None
  /\ writer[p].pc \in Unpublished =>
       /\ names[Tmp(writer[p].bundle)] = writer[p].bundle
       /\ pub[writer[p].bundle] = 0
       /\ \A ns \in survivable, x \in Names :
            ns[x] = writer[p].bundle => x = Tmp(writer[p].bundle)
  /\ writer[p].pc \in Unpublished \ {"contents", "sync"} =>
       tree[writer[p].bundle] = "synced"
  /\ writer[p].pc \notin {"idle", "contents", "sync", "replace"} =>
       names[Path] # Foreign

\* A stamp that has not been used yet names no backup in any directory, and no
\* other writer has it.
StampFresh(p) ==
  writer[p].pc = "move" =>
    /\ writer[p].backup \in Bundles \ {newest}
    /\ \A ns \in survivable : ns[Bak(writer[p].backup)] = None
    /\ \A r \in Writers \ {p} : writer[r].backup # writer[p].backup
StampsOK == \A p \in Writers : StampFresh(p)

WritersOK ==
  /\ \A p \in Writers : WriterOK(p)
  /\ \A p, r \in Writers :
       p # r /\ writer[p].pc # "idle" /\ writer[r].pc # "idle" =>
         writer[p].bundle # writer[r].bundle

ReaderOK(q) ==
  /\ reader[q].seen <= newest
  /\ reader[q].pc \in {"try", "recover"} => reader[q].cands # {}
  /\ reader[q].floor <= acked
  /\ reader[q].pc \in {"read_index", "read_ids", "ok"} => reader[q].manifest \in Bundles
  /\ reader[q].pc \in {"read_ids", "ok"} => reader[q].index \in Bundles
  /\ reader[q].pc = "ok" => reader[q].ids \in Bundles

ReadersOK == \A q \in Readers : ReaderOK(q)

\* What any of the directories serves is whole on disk; a backup that is being
\* removed is served by none of them; a recovery knows every backup there is.
ServedSynced ==
  \A ns \in survivable, b \in Bundles : Serves(ns, b) => tree[b] = "synced"
SpareBackup(p) ==
  LET b == names[Bak(writer[p].backup)] IN
  writer[p].backup # None /\ b \in Bundles =>
    /\ writer[p].pc \in {"cleanup", "unlink"} => \A ns \in survivable : ~Serves(ns, b)
    /\ writer[p].pc = "publish_sync" => ~Serves(names, b)
RecoveryKnows(q) ==
  reader[q].pc \in {"try", "recover"} /\ reader[q].seen = newest /\ names[Path] = None
    => BackupsOnDisk \subseteq reader[q].cands

\* Every directory serves publication k or a later one.
ServesSince(ns, k) == \E b \in Bundles : Serves(ns, b) /\ pub[b] >= k
CommitServed == acked > 0 => \A ns \in survivable : ServesSince(ns, acked)
WriteServed(p) ==
  /\ writer[p].pc = "publish_sync" => ServesSince(names, pub[writer[p].bundle])
  /\ writer[p].pc \in {"cleanup", "unlink"} =>
       \A ns \in survivable : ServesSince(ns, pub[writer[p].bundle])
ReadSince(q) ==
  /\ reader[q].pc \in {"read_index", "read_ids", "ok"} =>
       pub[reader[q].manifest] >= reader[q].floor
  /\ reader[q].pc \in {"read_ids", "ok"} => pub[reader[q].index] >= reader[q].floor
  /\ reader[q].pc = "ok" => pub[reader[q].ids] >= reader[q].floor

SparesKept == \A p \in Writers : SpareBackup(p)
WritesServed == \A p \in Writers : WriteServed(p)
RecoveriesKnow == \A q \in Readers : RecoveryKnows(q)
ReadsSince == \A q \in Readers : ReadSince(q)

ServeInv ==
  ~raced => /\ ServedSynced /\ SparesKept /\ RecoveriesKnow
            /\ CommitServed /\ WritesServed /\ ReadsSince

\* TypeOK with the bounds that follow from Counted left out
WriterRecords == [pc : WriterPcs, bundle : Bundles \cup {None}, backup : Bundles \cup {None}]
ReaderRecords == [pc : ReaderPcs, cands : SUBSET Bundles, seen : 0..MaxBundles,
                  floor : 0..MaxBundles, manifest : Bundles \cup {None},
                  index : Bundles \cup {None}, ids : Bundles \cup {None}]
StateTyped ==
  /\ tree \in [Bundles -> TreeStates]
  /\ writer \in [Writers -> WriterRecords]
  /\ reader \in [Readers -> ReaderRecords]
  /\ begun \in Bundles /\ clock \in Nat /\ newest \in 0..clock
  /\ acked \in 0..MaxBundles
  /\ pub \in [Bundles -> Nat]
  /\ raced \in BOOLEAN
  /\ loads \in 0..MaxLoads /\ errors \in 0..MaxErrors /\ crashes \in 0..MaxCrashes

IInv == StateTyped /\ DirsOK /\ Counted /\ WritersOK /\ StampsOK /\ ReadersOK /\ ServeInv
-----------------------------------------------------------------------------
(* Bundles, names and the maximum of a set                                  *)

LEMMA BundleFacts ==
  /\ MaxBundles \in Nat \ {0}
  /\ \A b : b \in Bundles <=> b \in Nat /\ 1 <= b /\ b <= MaxBundles
  /\ None \notin Bundles /\ Foreign \notin Bundles /\ Foreign # None
  /\ IsFiniteSet(Bundles) /\ Cardinality(Bundles) = MaxBundles
<1>1. MaxBundles \in Nat \ {0}
  BY BundleBounds
<1>2. IsFiniteSet(1..MaxBundles) /\ Cardinality(1..MaxBundles) = MaxBundles
  BY <1>1, FS_Interval, SMT
<1> QED BY <1>1, <1>2 DEF Bundles, None, Foreign

LEMMA NameFacts ==
  /\ Path \in Names
  /\ \A b \in Bundles : Tmp(b) \in Names /\ Bak(b) \in Names
  /\ \A b \in Bundles : Path # Tmp(b) /\ Path # Bak(b)
  /\ \A a, b \in Bundles : Tmp(a) # Bak(b)
  /\ \A a, b \in Bundles : Tmp(a) = Tmp(b) => a = b
  /\ \A a, b \in Bundles : Bak(a) = Bak(b) => a = b
BY DEF Names, Path, Tmp, Bak

LEMMA MaxIs ==
  ASSUME NEW S \in SUBSET Nat, NEW n \in S, \A m \in S : m <= n
  PROVE  Max(S) = n
<1>1. \A x \in S : (\A y \in S : x >= y) => x = n
  OBVIOUS
<1>2. \A y \in S : n >= y
  OBVIOUS
<1> QED BY <1>1, <1>2 DEF Max

\* A set of numbers with a bound has a maximum: the element with the fewest
\* elements above it.
LEMMA MaxExists ==
  ASSUME NEW N \in Nat, NEW S \in SUBSET (0..N), S # {}
  PROVE  /\ Max(S) \in S
         /\ \A m \in S : m <= Max(S)
<1> DEFINE Above(x) == {y \in S : y > x}
           T == {Above(x) : x \in S}
<1>1. IsFiniteSet(S)
  <2>1. IsFiniteSet(0..N)
    BY FS_Interval
  <2> QED BY <2>1, FS_Subset
<1>2. T \subseteq FiniteSubsetsOf(S) /\ T # {}
  <2>1. \A x \in S : Above(x) \in SUBSET S /\ IsFiniteSet(Above(x))
    BY <1>1, FS_Subset
  <2> QED BY <2>1 DEF FiniteSubsetsOf
<1>3. PICK U \in T : \A V \in T : <<V, U>> \notin StrictSubsetOrdering(S)
  BY <1>2, FS_StrictSubsetOrderingWellFounded, WFMin
<1>4. PICK x \in S : U = Above(x)
  OBVIOUS
<1>5. \A y \in S : y <= x
  <2> SUFFICES ASSUME NEW y \in S, y > x PROVE FALSE
    BY SMT
  <2>1. (\A z \in S : z > y => z > x) /\ y > x /\ ~(y > y)
    BY SMT
  <2>2. Above(y) \subseteq Above(x) /\ y \in Above(x) /\ y \notin Above(y)
    BY <2>1
  <2>3. <<Above(y), Above(x)>> \in StrictSubsetOrdering(S)
    BY <2>2 DEF StrictSubsetOrdering
  <2> QED BY <1>3, <1>4, <2>3
<1>6. Max(S) = x
  BY <1>5, MaxIs
<1> QED BY <1>5, <1>6

-----------------------------------------------------------------------------
(* Directories                                                              *)

LEMMA DirOKGrows ==
  ASSUME NEW ns, NEW k \in Nat, NEW t \in Nat, NEW k2 \in Nat, NEW t2 \in Nat,
         k <= k2, t <= t2, DirOK(ns, k, t)
  PROVE  DirOK(ns, k2, t2)
BY BundleFacts, NameFacts DEF DirOK

\* A rename of what is at one name to a free one
LEMMA MoveIsDir ==
  ASSUME NEW k \in Nat, NEW t \in Nat, DirOK(names, k, t),
         NEW from \in Names, NEW to \in Names, from # to,
         names[from] \in Bundles, names[to] = None,
         \A n \in Bundles : to = Bak(n) => n <= t
  PROVE  /\ DirOK(Moved(from, to), k, t)
         /\ \A x \in Names : Moved(from, to)[x] = IF x = to THEN names[from]
                                                  ELSE IF x = from THEN None ELSE names[x]
<1>1. names \in [Names -> Bundles \cup {None, Foreign}]
  BY DEF DirOK
<1>2. \A x \in Names : Moved(from, to)[x] = IF x = to THEN names[from]
                                           ELSE IF x = from THEN None ELSE names[x]
  BY <1>1 DEF Moved
<1>3. Moved(from, to) \in [Names -> Bundles \cup {None, Foreign}]
  BY <1>1 DEF Moved
<1>4. \A n \in Bundles : Moved(from, to)[Bak(n)] # None => n <= t
  BY <1>2, NameFacts DEF DirOK
<1>5. \A x, y \in Names : Moved(from, to)[x] \in Bundles
                          /\ Moved(from, to)[x] = Moved(from, to)[y] => x = y
  BY <1>2, BundleFacts DEF DirOK
<1>6. \A x \in Names : Moved(from, to)[x] = Foreign => x = Path
  BY <1>2, BundleFacts DEF DirOK
<1>7. \A x \in Names : Moved(from, to)[x] \in Bundles => Moved(from, to)[x] <= k
  BY <1>2, BundleFacts DEF DirOK
<1> QED BY <1>2, <1>3, <1>4, <1>5, <1>6, <1>7 DEF DirOK

LEMMA UnlinkIsDir ==
  ASSUME NEW k \in Nat, NEW t \in Nat, DirOK(names, k, t), NEW y \in Names
  PROVE  /\ DirOK(Unlinked(y), k, t)
         /\ \A x \in Names : Unlinked(y)[x] = IF x = y THEN None ELSE names[x]
<1>1. names \in [Names -> Bundles \cup {None, Foreign}]
  BY DEF DirOK
<1>2. \A x \in Names : Unlinked(y)[x] = IF x = y THEN None ELSE names[x]
  BY <1>1 DEF Unlinked
<1>3. Unlinked(y) \in [Names -> Bundles \cup {None, Foreign}]
  BY <1>1 DEF Unlinked
<1> QED BY <1>2, <1>3, BundleFacts, NameFacts DEF DirOK

\* The directory serves the same bundle when the bundle at the path becomes
\* the newest backup, ...
LEMMA BackupServes ==
  ASSUME NEW k \in Nat, NEW t \in Nat, NEW ns, NEW ms, DirOK(ns, k, t),
         NEW n \in Bundles, t < n,
         ns[Path] \in Bundles, ms[Path] = None, ms[Bak(n)] = ns[Path],
         \A m \in Bundles : m # n => ms[Bak(m)] = ns[Bak(m)],
         NEW b \in Bundles
  PROVE  Serves(ms, b) <=> Serves(ns, b)
<1>1. \A m \in Bundles : ms[Bak(m)] # None => m <= n
  BY BundleFacts DEF DirOK
<1>2. Serves(ns, b) <=> b = ns[Path]
  BY BundleFacts DEF Serves
<1>3. \A i \in Bundles : (\A m \in Bundles : ms[Bak(m)] # None => m <= i) /\ ms[Bak(i)] = b
                          => i = n
  BY <1>1, BundleFacts
<1> QED BY <1>1, <1>2, <1>3, BundleFacts DEF Serves

\* ... when the newest backup goes back to the path, ...
LEMMA RecoveryServes ==
  ASSUME NEW ns, NEW ms, NEW n \in Bundles,
         \A m \in Bundles : ns[Bak(m)] # None => m <= n,
         ns[Path] = None, ns[Bak(n)] \in Bundles, ms[Path] = ns[Bak(n)],
         NEW b \in Bundles
  PROVE  Serves(ms, b) <=> Serves(ns, b)
<1>1. Serves(ms, b) <=> b = ns[Bak(n)]
  BY BundleFacts DEF Serves
<1>2. \A i \in Bundles : (\A m \in Bundles : ns[Bak(m)] # None => m <= i) /\ ns[Bak(i)] = b
                          => i = n
  BY BundleFacts
<1> QED BY <1>1, <1>2, BundleFacts DEF Serves

\* ... when a backup it does not serve is removed, ...
LEMMA UnlinkServes ==
  ASSUME NEW k \in Nat, NEW t \in Nat, NEW ns, NEW ms, DirOK(ns, k, t), NEW n \in Bundles,
         ns[Bak(n)] \in Bundles => ~Serves(ns, ns[Bak(n)]),
         ms[Path] = ns[Path], ms[Bak(n)] = None,
         \A m \in Bundles : m # n => ms[Bak(m)] = ns[Bak(m)],
         NEW b \in Bundles
  PROVE  Serves(ms, b) <=> Serves(ns, b)
<1>1. ns[Bak(n)] \in Bundles \cup {None}
  BY NameFacts, BundleFacts DEF DirOK
<1>2. CASE ns[Path] # None
  BY <1>2 DEF Serves
<1>3. CASE ns[Path] = None /\ ns[Bak(n)] = None
  <2>1. \A m \in Bundles : ms[Bak(m)] = ns[Bak(m)]
    BY <1>3
  <2> QED BY <1>3, <2>1, BundleFacts DEF Serves
<1>4. CASE ns[Path] = None /\ ns[Bak(n)] \in Bundles
  <2>1. PICK i \in Bundles : ns[Bak(i)] # None /\ ~(i <= n)
    BY <1>4 DEF Serves
  <2>2. i > n /\ i # n
    BY <2>1, BundleFacts
  <2>3. ASSUME NEW j \in Bundles
        PROVE  (\A m \in Bundles : ms[Bak(m)] # None => m <= j)
                 <=> (\A m \in Bundles : ns[Bak(m)] # None => m <= j)
    BY <2>1, <2>2, BundleFacts
  <2>4. \A j \in Bundles : (\A m \in Bundles : ns[Bak(m)] # None => m <= j) => j # n
    BY <2>1, <2>2, BundleFacts
  <2>5. ASSUME Serves(ns, b) PROVE Serves(ms, b)
    BY <1>4, <2>3, <2>4, <2>5, BundleFacts DEF Serves
  <2>6. ASSUME Serves(ms, b) PROVE Serves(ns, b)
    BY <1>4, <2>3, <2>6, BundleFacts DEF Serves
  <2> QED BY <2>5, <2>6
<1> QED BY <1>1, <1>2, <1>3, <1>4

\* ... and when neither the path nor a backup name changes.
LEMMA SameServes ==
  ASSUME NEW ns, NEW ms, ms[Path] = ns[Path],
         \A n \in Bundles : ms[Bak(n)] = ns[Bak(n)], NEW b \in Bundles
  PROVE  Serves(ms, b) <=> Serves(ns, b)
BY DEF Serves

LEMMA ServesPath ==
  ASSUME NEW ns, ns[Path] \in Bundles, NEW b \in Bundles
  PROVE  Serves(ns, b) <=> b = ns[Path]
BY BundleFacts DEF Serves

\* A name that holds no bundle serves none of its own, and a bundle is served
\* only where a name holds it.
LEMMA ServedIsNamed ==
  ASSUME NEW ns, NEW b \in Bundles, Serves(ns, b)
  PROVE  \E x \in Names : ns[x] = b /\ \A c \in Bundles : x # Tmp(c)
BY NameFacts DEF Serves

-----------------------------------------------------------------------------
(* What every step keeps                                                    *)

\* Every step adds at most one directory, the one that is there now.
NewDirs == names' \in survivable' /\ survivable' \subseteq survivable \cup {names'}
\* Only writer p moves.
OnlyWriter(p) == \A r \in Writers : r # p => writer'[r] = writer[r]
\* The directory serves what it served.
ServesSame == \A b \in Bundles : Serves(names', b) <=> Serves(names, b)
\* No name of a backup appears and the path is not vacated.
NoNewBackup ==
  /\ names'[Path] = None => names[Path] = None
  /\ \A n \in Bundles : names'[Bak(n)] = names[Bak(n)] \/ names'[Bak(n)] = None
\* No stamp is taken or used.
NoNewStamp ==
  /\ newest' = newest
  /\ \A n \in Bundles : names'[Bak(n)] = names[Bak(n)] \/ names'[Bak(n)] = None
  /\ \A r \in Writers : /\ writer'[r].backup \in {writer[r].backup, None}
                        /\ writer'[r].pc = "move" => writer'[r] = writer[r]

LEMMA Bounds ==
  ASSUME StateTyped, Counted
  PROVE  /\ clock \in 0..(begun - 1) /\ begun \in Nat
         /\ pub \in [Bundles -> 0..MaxBundles]
         /\ \A p \in Writers : writer[p].pc \in BeforeBackup => clock + 1 \in 1..(begun - 1)
<1>1. Cardinality(Pending) \in Nat
  BY FS_CardinalityType DEF Counted
<1>2. begun \in Nat /\ clock \in Nat /\ newest \in Nat
  BY BundleFacts DEF StateTyped
<1>3. clock \in 0..(begun - 1)
  BY <1>1, <1>2 DEF Counted
<1>4. Published \in SUBSET Bundles
  BY DEF Published
<1>5. Cardinality(Published) \in Nat /\ Cardinality(Published) <= MaxBundles
  BY <1>4, FS_Subset, FS_CardinalityType, BundleFacts
<1>6. \A b \in Bundles : pub[b] \in 0..MaxBundles
  <2> TAKE b \in Bundles
  <2>1. pub[b] \in Nat /\ pub[b] <= Cardinality(Published)
    BY DEF StateTyped, Counted
  <2> QED BY <2>1, <1>5, BundleFacts
<1>7. ASSUME NEW p \in Writers, writer[p].pc \in BeforeBackup
      PROVE  clock + 1 \in 1..(begun - 1)
  <2>1. Pending # {}
    BY <1>7 DEF Pending
  <2>2. Cardinality(Pending) # 0
    BY <2>1, FS_EmptySet DEF Counted
  <2> QED BY <1>1, <1>2, <2>2 DEF Counted
<1>8. pub \in [Bundles -> 0..MaxBundles]
  BY <1>6 DEF StateTyped
<1> QED BY <1>2, <1>3, <1>7, <1>8

LEMMA TypedIsTypeOK ==
  ASSUME StateTyped, DirsOK, Counted
  PROVE  TypeOK
<1>1. clock \in 0..begun /\ pub \in [Bundles -> 0..MaxBundles]
  BY Bounds
<1>2. \A ns \in survivable : ns \in [Names -> Bundles \cup {None, Foreign}]
  BY DEF DirsOK, DirOK
<1>3. /\ names \in [Names -> Bundles \cup {None, Foreign}]
      /\ \A x \in Names \ {Path} : names[x] # Foreign
  BY DEF DirsOK, DirOK
<1> QED BY <1>1, <1>2, <1>3 DEF StateTyped, WriterRecords, ReaderRecords, TypeOK

LEMMA DirsKept ==
  ASSUME DirsOK, NewDirs, DirOK(names', begun', newest'),
         begun \in Nat, clock \in Nat /\ newest \in Nat, begun' \in Nat, clock' \in Nat /\ newest' \in Nat,
         begun <= begun', clock <= clock' /\ newest <= newest',
         names'[Path] = Foreign <=> names[Path] = Foreign
  PROVE  DirsOK'
<1>1. \A ns \in survivable : DirOK(ns, begun', newest')
  BY DirOKGrows DEF DirsOK
<1>2. \A ns \in survivable' : ns \in survivable \/ ns = names'
  BY DEF NewDirs
<1> QED BY <1>1, <1>2 DEF DirsOK, NewDirs

LEMMA PendingKept ==
  ASSUME NEW p \in Writers, OnlyWriter(p),
         writer'[p].pc \in BeforeBackup =>
           writer[p].pc \in BeforeBackup /\ writer'[p].bundle = writer[p].bundle
  PROVE  Pending' \subseteq Pending
<1> SUFFICES ASSUME NEW b \in Pending' PROVE b \in Pending
  OBVIOUS
<1>1. PICK r \in Writers : writer'[r].pc \in BeforeBackup /\ writer'[r].bundle = b
  BY DEF Pending
<1>2. writer[r].pc \in BeforeBackup /\ writer[r].bundle = b
  BY <1>1 DEF OnlyWriter
<1> QED BY <1>2 DEF Pending

LEMMA CountedKept ==
  ASSUME StateTyped, Counted, Pending' \subseteq Pending,
         begun' = begun, clock' = clock, pub' = pub
  PROVE  Counted'
<1>1. IsFiniteSet(Pending') /\ Cardinality(Pending') <= Cardinality(Pending)
  BY FS_Subset DEF Counted
<1>2. Cardinality(Pending') \in Nat /\ Cardinality(Pending) \in Nat
  BY <1>1, FS_CardinalityType DEF Counted
<1>3. Published' = Published
  BY DEF Published
<1>4. begun \in Nat /\ clock \in Nat /\ newest \in Nat
  BY BundleFacts DEF StateTyped
<1>5. clock' + Cardinality(Pending') <= begun' - 1
  BY <1>1, <1>2, <1>4 DEF Counted
<1> QED BY <1>1, <1>3, <1>5 DEF Counted

LEMMA OtherWriterKept ==
  ASSUME StateTyped, DirsOK, NewDirs, NEW r \in Writers, WriterOK(r),
         writer'[r] = writer[r],
         begun \in Nat, begun' \in Nat, clock' \in Nat, begun <= begun', clock <= clock',
         names'[Path] = Foreign => names[Path] = Foreign,
         writer[r].pc \in Unpublished =>
           /\ names'[Tmp(writer[r].bundle)] = names[Tmp(writer[r].bundle)]
           /\ pub'[writer[r].bundle] = pub[writer[r].bundle]
           /\ \A x \in Names : names'[x] = writer[r].bundle => x = Tmp(writer[r].bundle)
           /\ tree'[writer[r].bundle] = tree[writer[r].bundle]
  PROVE  WriterOK(r)'
<1>1. writer[r].bundle \in Nat /\ writer[r].backup \in Nat /\ clock \in Nat
  BY BundleFacts DEF StateTyped, WriterRecords, None
<1>2. writer'[r].pc # "idle" => writer'[r].bundle \in 1..begun'
  BY <1>1 DEF WriterOK
<1>3. writer'[r].backup <= clock'
  BY <1>1 DEF WriterOK
<1>4. ASSUME writer[r].pc \in Unpublished
      PROVE  \A ns \in survivable', x \in Names :
               ns[x] = writer[r].bundle => x = Tmp(writer[r].bundle)
  BY <1>4 DEF WriterOK, NewDirs
<1> QED BY <1>2, <1>3, <1>4 DEF WriterOK

LEMMA StampsKept ==
  ASSUME DirsOK, NewDirs, StampsOK, NoNewStamp
  PROVE  StampsOK'
<1> SUFFICES ASSUME NEW p \in Writers, writer'[p].pc = "move" PROVE StampFresh(p)'
  BY DEF StampsOK, StampFresh
<1> DEFINE n == writer[p].backup
<1>1. writer'[p] = writer[p] /\ StampFresh(p) /\ writer[p].pc = "move"
  BY DEF NoNewStamp, StampsOK
<1>2. n \in Bundles \ {newest'} /\ n # None
  BY <1>1, BundleFacts DEF StampFresh, NoNewStamp
<1>3. \A ns \in survivable : ns[Bak(n)] = None
  BY <1>1 DEF StampFresh
<1>4. names'[Bak(n)] = None
  BY <1>2, <1>3 DEF NoNewStamp, DirsOK
<1>5. \A ns \in survivable' : ns[Bak(n)] = None
  BY <1>3, <1>4 DEF NewDirs
<1>6. \A r \in Writers \ {p} : writer'[r].backup # n
  BY <1>1, <1>2 DEF StampFresh, NoNewStamp
<1> QED BY <1>1, <1>2, <1>5, <1>6 DEF StampFresh

\* A step of writer p that neither takes a stamp nor makes a backup
LEMMA WriterStamps ==
  ASSUME IInv, NEW p \in Writers, OnlyWriter(p), NewDirs, newest' = newest,
         \A n \in Bundles : names'[Bak(n)] = names[Bak(n)] \/ names'[Bak(n)] = None,
         writer'[p].pc # "move", writer'[p].backup \in {writer[p].backup, None}
  PROVE  StampsOK'
<1>1. NoNewStamp
  BY DEF NoNewStamp, OnlyWriter
<1> QED BY <1>1, StampsKept DEF IInv

LEMMA ReadersKept ==
  ASSUME StateTyped, ReadersOK, reader' = reader, clock \in Nat /\ newest \in Nat, clock' \in Nat /\ newest' \in Nat,
         clock <= clock' /\ newest <= newest', acked' \in Nat, acked <= acked'
  PROVE  ReadersOK'
<1>1. \A q \in Readers : reader[q].seen \in Nat /\ reader[q].floor \in Nat
  BY BundleFacts DEF StateTyped, ReaderRecords
<1>2. acked \in Nat
  BY BundleFacts DEF StateTyped
<1>3. \A q \in Readers : reader[q].seen <= newest' /\ reader[q].floor <= acked'
  BY <1>1, <1>2 DEF ReadersOK, ReaderOK
<1> QED BY <1>3 DEF ReadersOK, ReaderOK

\* Every directory of the next state serves what one of this state does.
LEMMA OldServes ==
  ASSUME DirsOK, NewDirs, ServesSame, NEW ns \in survivable'
  PROVE  \E ms \in survivable : \A b \in Bundles : Serves(ns, b) <=> Serves(ms, b)
<1>1. CASE ns \in survivable
  BY <1>1
<1>2. CASE ns = names'
  BY <1>2 DEF ServesSame, DirsOK
<1> QED BY <1>1, <1>2 DEF NewDirs

LEMMA SyncedKept ==
  ASSUME DirsOK, NewDirs, ServesSame, ServedSynced,
         \A b \in Bundles : \/ tree'[b] = "synced" \/ tree[b] # "synced"
                            \/ \A ms \in survivable : ~Serves(ms, b)
  PROVE  ServedSynced'
<1> SUFFICES ASSUME NEW ns \in survivable', NEW b \in Bundles, Serves(ns, b)
             PROVE  tree'[b] = "synced"
  BY DEF ServedSynced
<1>1. PICK ms \in survivable : Serves(ms, b)
  BY OldServes
<1> QED BY <1>1 DEF ServedSynced

LEMMA SinceKept ==
  ASSUME DirsOK, NewDirs, ServesSame, pub' = pub, NEW k,
         \A ms \in survivable : ServesSince(ms, k)
  PROVE  \A ns \in survivable' : \E b \in Bundles : Serves(ns, b) /\ pub'[b] >= k
<1> SUFFICES ASSUME NEW ns \in survivable' PROVE \E b \in Bundles : Serves(ns, b) /\ pub[b] >= k
  OBVIOUS
<1>1. PICK ms \in survivable : \A b \in Bundles : Serves(ns, b) <=> Serves(ms, b)
  BY OldServes
<1> QED BY <1>1 DEF ServesSince

LEMMA OtherSpareKept ==
  ASSUME DirsOK, NewDirs, ServesSame, NEW r \in Writers, SpareBackup(r),
         writer'[r] = writer[r],
         \/ writer[r].backup = None
         \/ names'[Bak(writer[r].backup)] = names[Bak(writer[r].backup)]
         \/ names'[Bak(writer[r].backup)] \notin Bundles
  PROVE  SpareBackup(r)'
<1> DEFINE b == names[Bak(writer[r].backup)]
<1>1. CASE writer[r].backup = None \/ names'[Bak(writer[r].backup)] \notin Bundles
  BY <1>1 DEF SpareBackup
<1>2. CASE /\ names'[Bak(writer[r].backup)] = b /\ b \in Bundles
           /\ writer[r].backup # None
  <2>1. ASSUME writer[r].pc \in {"cleanup", "unlink"}, NEW ns \in survivable'
        PROVE  ~Serves(ns, b)
    <3>1. PICK ms \in survivable : Serves(ns, b) <=> Serves(ms, b)
      BY <1>2, OldServes
    <3> QED BY <1>2, <2>1, <3>1 DEF SpareBackup
  <2>2. ASSUME writer[r].pc = "publish_sync", writer[r].backup # None
        PROVE  ~Serves(names', b)
    BY <1>2, <2>2 DEF SpareBackup, ServesSame
  <2> QED BY <1>2, <2>1, <2>2 DEF SpareBackup
<1>3. CASE names'[Bak(writer[r].backup)] = b /\ b \notin Bundles
  BY <1>3 DEF SpareBackup
<1> QED BY <1>1, <1>2, <1>3

LEMMA OtherServedKept ==
  ASSUME DirsOK, NewDirs, ServesSame, NEW r \in Writers, WriteServed(r),
         writer'[r] = writer[r], pub' = pub
  PROVE  WriteServed(r)'
<1>1. ASSUME writer[r].pc = "publish_sync"
      PROVE  \E b \in Bundles : Serves(names', b) /\ pub'[b] >= pub'[writer'[r].bundle]
  BY <1>1 DEF WriteServed, ServesSince, ServesSame
<1>2. ASSUME writer[r].pc \in {"cleanup", "unlink"}
      PROVE  \A ns \in survivable' :
               \E b \in Bundles : Serves(ns, b) /\ pub'[b] >= pub'[writer'[r].bundle]
  BY <1>2, SinceKept DEF WriteServed
<1> QED BY <1>1, <1>2 DEF WriteServed, ServesSince

LEMMA RecoveriesKept ==
  ASSUME RecoveriesKnow, reader' = reader, newest' = newest, NoNewBackup
  PROVE  RecoveriesKnow'
BY DEF RecoveriesKnow, RecoveryKnows, NoNewBackup, BackupsOnDisk

LEMMA ReadsKept ==
  ASSUME ReadsSince, reader' = reader, pub' = pub
  PROVE  ReadsSince'
BY DEF ReadsSince, ReadSince

\* A step of writer p that leaves what the directory serves alone
LEMMA WriterServes ==
  ASSUME IInv, NEW p \in Writers, NewDirs, OnlyWriter(p), reader' = reader, pub' = pub,
         raced => raced',
         ~raced' => ServesSame /\ CommitServed' /\ SpareBackup(p)' /\ WriteServed(p)'
                    /\ RecoveriesKnow',
         \A r \in Writers : r # p =>
            \/ writer[r].backup = None
            \/ names'[Bak(writer[r].backup)] = names[Bak(writer[r].backup)]
            \/ names'[Bak(writer[r].backup)] \notin Bundles,
         \A b \in Bundles : \/ tree'[b] = "synced" \/ tree[b] # "synced"
                            \/ raced \/ \A ms \in survivable : ~Serves(ms, b)
  PROVE  ServeInv'
<1> SUFFICES ASSUME ~raced'
             PROVE  ServedSynced' /\ SparesKept' /\ RecoveriesKnow'
                    /\ CommitServed' /\ WritesServed' /\ ReadsSince'
  BY DEF ServeInv
<1>1. /\ DirsOK /\ ServedSynced /\ ReadsSince
      /\ SparesKept /\ WritesServed
  BY DEF IInv, ServeInv
<1>2. ServedSynced'
  BY <1>1, SyncedKept DEF IInv, ServeInv
<1>3. \A r \in Writers : SpareBackup(r)'
  BY <1>1, OtherSpareKept DEF SparesKept, OnlyWriter
<1>4. \A r \in Writers : WriteServed(r)'
  BY <1>1, OtherServedKept DEF WritesServed, OnlyWriter
<1>5. ReadsSince'
  BY <1>1, ReadsKept
<1> QED BY <1>2, <1>3, <1>4, <1>5 DEF SparesKept, WritesServed

LEMMA CommitKept ==
  ASSUME DirsOK, NewDirs, ServesSame, pub' = pub, acked' = acked, CommitServed
  PROVE  CommitServed'
<1> SUFFICES ASSUME acked > 0
             PROVE  \A ns \in survivable' : \E b \in Bundles : Serves(ns, b) /\ pub'[b] >= acked
  BY DEF CommitServed, ServesSince
<1> QED BY SinceKept DEF CommitServed

\* What a step of writer p that publishes nothing has to keep for the rest of
\* the invariant to hold
LEMMA WriterStepKeeps ==
  ASSUME IInv, NEW p \in Writers, OnlyWriter(p), NewDirs,
         reader' = reader, pub' = pub, StateTyped', Counted', StampsOK',
         acked <= acked', begun <= begun', clock <= clock' /\ newest <= newest',
         DirOK(names', begun', newest'), names'[Path] = Foreign <=> names[Path] = Foreign,
         WriterOK(p)',
         \A r \in Writers : r # p /\ writer[r].pc # "idle" =>
            \/ writer'[p].pc = "idle"
            \/ writer'[p].bundle # writer[r].bundle,
         \A r \in Writers : r # p /\ writer[r].pc \in Unpublished =>
            /\ names'[Tmp(writer[r].bundle)] = names[Tmp(writer[r].bundle)]
            /\ \A x \in Names : names'[x] = writer[r].bundle => x = Tmp(writer[r].bundle)
            /\ tree'[writer[r].bundle] = tree[writer[r].bundle],
         raced => raced',
         ~raced' => /\ ServesSame /\ SpareBackup(p)' /\ WriteServed(p)'
                    /\ RecoveriesKnow' /\ (acked' = acked \/ CommitServed'),
         \A r \in Writers : r # p =>
            \/ writer[r].backup = None
            \/ names'[Bak(writer[r].backup)] = names[Bak(writer[r].backup)]
            \/ names'[Bak(writer[r].backup)] \notin Bundles,
         \A b \in Bundles : \/ tree'[b] = "synced" \/ tree[b] # "synced"
                            \/ raced \/ \A ms \in survivable : ~Serves(ms, b)
  PROVE  IInv'
<1>1. StateTyped /\ DirsOK /\ WritersOK /\ ReadersOK
  BY DEF IInv
<1>2. /\ begun \in Nat /\ begun' \in Nat /\ clock \in Nat /\ newest \in Nat /\ clock' \in Nat /\ newest' \in Nat
      /\ acked' \in Nat
  BY <1>1, BundleFacts DEF StateTyped
<1>3. DirsOK'
  BY <1>1, <1>2, DirsKept
<1>4. \A r \in Writers : WriterOK(r)'
  <2> SUFFICES ASSUME NEW r \in Writers, r # p PROVE WriterOK(r)'
    OBVIOUS
  <2>1. WriterOK(r) /\ writer'[r] = writer[r]
    BY <1>1 DEF WritersOK, OnlyWriter
  <2> QED BY <1>1, <1>2, <2>1, OtherWriterKept
<1>5. WritersOK'
  BY <1>1, <1>4 DEF WritersOK, OnlyWriter
<1>6. ReadersOK'
  BY <1>1, <1>2, ReadersKept
<1>7. ASSUME ~raced' PROVE CommitServed'
  <2>1. ~raced /\ CommitServed
    BY <1>7 DEF IInv, ServeInv
  <2> QED BY <1>1, <1>7, <2>1, CommitKept
<1>8. ServeInv'
  BY <1>7, WriterServes
<1> QED BY <1>3, <1>5, <1>6, <1>8 DEF IInv

-----------------------------------------------------------------------------
(* The steps of a writer                                                    *)

LEMMA GotoFacts ==
  ASSUME StateTyped, NEW p \in Writers, NEW pc \in WriterPcs, Goto(p, pc)
  PROVE  /\ OnlyWriter(p) /\ writer' \in [Writers -> WriterRecords]
         /\ writer'[p].pc = pc /\ writer'[p].bundle = writer[p].bundle
         /\ writer'[p].backup = writer[p].backup
BY DEF StateTyped, WriterRecords, Goto, OnlyWriter

\* A writer that has returned or died has nothing to keep.
LEMMA IdleFacts ==
  ASSUME StateTyped, NEW p \in Writers, clock' \in Nat,
         writer' = [writer EXCEPT ![p] = IdleWriter]
  PROVE  /\ OnlyWriter(p) /\ writer' \in [Writers -> WriterRecords]
         /\ writer'[p].pc = "idle" /\ writer'[p].backup = None /\ WriterOK(p)'
         /\ SpareBackup(p)' /\ WriteServed(p)'
<1>1. writer'[p] = IdleWriter /\ OnlyWriter(p) /\ writer' \in [Writers -> WriterRecords]
  BY BundleFacts DEF StateTyped, WriterRecords, IdleWriter, OnlyWriter, WriterPcs
<1>2. writer'[p].pc = "idle" /\ writer'[p].backup = 0 /\ None = 0
  BY <1>1 DEF IdleWriter, None
<1> QED BY <1>1, <1>2 DEF WriterOK, SpareBackup, WriteServed, Unpublished, BeforeBackup

\* A step of writer p that renames nothing
LEMMA QuietWriterStep ==
  ASSUME IInv, NEW p \in Writers, OnlyWriter(p), NewDirs, names' = names,
         UNCHANGED <<reader, pub, raced, begun, clock, newest>>, StateTyped', acked <= acked',
         writer[p].pc # "idle",
         writer'[p].pc # "idle" => writer'[p].bundle = writer[p].bundle,
         writer'[p].pc # "move", writer'[p].backup \in {writer[p].backup, None},
         writer'[p].pc \in BeforeBackup => writer[p].pc \in BeforeBackup,
         WriterOK(p)',
         \A b \in Bundles : \/ tree'[b] = tree[b]
                            \/ b = writer[p].bundle /\ tree'[b] = "synced"
                            \/ b = writer[p].bundle /\ writer[p].pc \in Unpublished,
         ~raced => SpareBackup(p)' /\ WriteServed(p)' /\ (acked' = acked \/ CommitServed')
  PROVE  IInv'
<1>1. StateTyped /\ DirsOK /\ WritersOK /\ Counted
  BY DEF IInv
<1>2. begun \in Nat /\ clock \in Nat /\ newest \in Nat
  BY <1>1, BundleFacts DEF StateTyped
<1>3. Counted'
  <2>1. writer'[p].pc \in BeforeBackup => writer'[p].pc # "idle"
    BY DEF BeforeBackup
  <2>2. Pending' \subseteq Pending
    BY <2>1, PendingKept
  <2> QED BY <1>1, <2>2, CountedKept
<1>4. DirOK(names', begun', newest')
  BY <1>1 DEF DirsOK
<1>5. ASSUME NEW r \in Writers, r # p, writer[r].pc # "idle"
      PROVE  writer'[p].pc = "idle" \/ writer'[p].bundle # writer[r].bundle
  BY <1>1, <1>5 DEF WritersOK
<1>6. ASSUME NEW r \in Writers, r # p, writer[r].pc \in Unpublished
      PROVE  /\ \A x \in Names : names[x] = writer[r].bundle => x = Tmp(writer[r].bundle)
             /\ tree'[writer[r].bundle] = tree[writer[r].bundle]
  <2>1. writer[r].pc # "idle"
    BY <1>6 DEF Unpublished, BeforeBackup
  <2>2. writer[r].bundle # writer[p].bundle /\ WriterOK(r)
    BY <1>1, <1>6, <2>1 DEF WritersOK
  <2>3. writer[r].bundle \in Bundles
    BY <1>1, <2>1, <2>2, BundleFacts DEF WriterOK, StateTyped, WriterRecords
  <2> QED BY <1>1, <1>6, <2>2, <2>3 DEF WriterOK, DirsOK
<1>7. ServesSame
  BY DEF ServesSame
<1>8. ~raced => RecoveriesKnow'
  BY RecoveriesKept DEF IInv, ServeInv, NoNewBackup
<1>9. ASSUME NEW b \in Bundles
      PROVE  tree'[b] = "synced" \/ tree[b] # "synced" \/ \A ms \in survivable : ~Serves(ms, b)
  <2> SUFFICES ASSUME b = writer[p].bundle, writer[p].pc \in Unpublished,
                      NEW ms \in survivable, Serves(ms, b)
               PROVE  FALSE
    BY <1>9
  <2>1. \A x \in Names : ms[x] = b => x = Tmp(b)
    BY <1>1 DEF WritersOK, WriterOK
  <2> QED BY <2>1, ServedIsNamed
<1>10. StampsOK'
  BY WriterStamps
<1> QED BY <1>1, <1>2, <1>3, <1>4, <1>5, <1>6, <1>7, <1>8, <1>9, <1>10, WriterStepKeeps

LEMMA BusyFacts ==
  ASSUME IInv, NEW p \in Writers, writer[p].pc # "idle"
  PROVE  /\ writer[p].bundle \in Bundles /\ writer[p].bundle \in 1..begun
         /\ WriterOK(p) /\ pub[writer[p].bundle] \in 0..MaxBundles
BY BundleFacts, Bounds DEF IInv, WritersOK, WriterOK, StateTyped, WriterRecords

LEMMA FailFacts ==
  ASSUME errors \in 0..MaxErrors, Fail \/ errors' = errors
  PROVE  errors' \in 0..MaxErrors
BY BundleBounds DEF Fail

\* The writer returns an error or dies, and leaves the directory as it is.
LEMMA QuietReturnErr ==
  ASSUME IInv, NEW p \in Writers, writer[p].pc # "idle", ReturnErr(p),
         UNCHANGED <<fsVars, reader, pub, acked, raced, begun, clock, newest, loads>>,
         errors' \in 0..MaxErrors, crashes' \in 0..MaxCrashes
  PROVE  IInv'
<1>1. StateTyped /\ DirsOK /\ clock \in Nat /\ newest \in Nat /\ acked <= acked'
  BY BundleFacts DEF IInv, StateTyped
<1>2. /\ OnlyWriter(p) /\ writer' \in [Writers -> WriterRecords]
      /\ writer'[p].pc = "idle" /\ writer'[p].backup = None /\ WriterOK(p)'
      /\ SpareBackup(p)' /\ WriteServed(p)'
  BY <1>1, IdleFacts DEF ReturnErr
<1>3. StateTyped'
  BY <1>1, <1>2 DEF StateTyped, fsVars
<1>4. NewDirs
  BY <1>1 DEF NewDirs, DirsOK, fsVars
<1>5. writer'[p].pc \notin BeforeBackup
  BY <1>2 DEF BeforeBackup
<1> QED BY <1>1, <1>2, <1>3, <1>4, <1>5, QuietWriterStep DEF fsVars

\* What an acknowledged write needs for CommittedSurvives
LEMMA CommitAfterOk ==
  ASSUME IInv, NEW p \in Writers, writer[p].pc # "idle", ReturnOk(p), pub' = pub,
         NewDirs, ServesSame, ~raced,
         \A ns \in survivable' : ServesSince(ns, pub[writer[p].bundle])
  PROVE  CommitServed'
<1>1. CASE acked' = acked
  BY <1>1, CommitKept DEF IInv, ServeInv
<1>2. CASE acked' = pub[writer[p].bundle]
  BY <1>2 DEF CommitServed, ServesSince
<1> QED BY <1>1, <1>2 DEF ReturnOk

LEMMA ReturnOkFacts ==
  ASSUME IInv, NEW p \in Writers, writer[p].pc # "idle", ReturnOk(p), clock' = clock
  PROVE  /\ OnlyWriter(p) /\ writer' \in [Writers -> WriterRecords]
         /\ writer'[p].pc = "idle" /\ writer'[p].backup = None /\ WriterOK(p)'
         /\ SpareBackup(p)' /\ WriteServed(p)'
         /\ acked' \in 0..MaxBundles /\ acked <= acked'
<1>1. StateTyped /\ clock \in Nat /\ newest \in Nat /\ acked \in 0..MaxBundles
  BY DEF IInv, StateTyped
<1>2. pub[writer[p].bundle] \in 0..MaxBundles
  BY BusyFacts
<1>3. acked' \in 0..MaxBundles /\ acked <= acked'
  BY <1>1, <1>2, BundleFacts DEF ReturnOk
<1> QED BY <1>1, <1>3, IdleFacts DEF ReturnOk

\* The writer returns Ok without a rename.
LEMMA QuietReturnOk ==
  ASSUME IInv, NEW p \in Writers, writer[p].pc # "idle", ReturnOk(p),
         UNCHANGED <<names, tree, reader, pub, raced, begun, clock, newest, loads, crashes>>,
         NewDirs, errors' \in 0..MaxErrors,
         ~raced => \A ns \in survivable' : ServesSince(ns, pub[writer[p].bundle])
  PROVE  IInv'
<1>1. StateTyped /\ ServesSame
  BY DEF IInv, ServesSame
<1>2. /\ OnlyWriter(p) /\ writer' \in [Writers -> WriterRecords]
      /\ writer'[p].pc = "idle" /\ writer'[p].backup = None /\ WriterOK(p)'
      /\ SpareBackup(p)' /\ WriteServed(p)'
      /\ acked' \in 0..MaxBundles /\ acked <= acked'
  BY ReturnOkFacts
<1>3. StateTyped'
  BY <1>1, <1>2 DEF StateTyped
<1>4. ~raced => CommitServed'
  BY <1>1, CommitAfterOk
<1>5. writer'[p].pc \notin BeforeBackup
  BY <1>2 DEF BeforeBackup
<1> QED BY <1>1, <1>2, <1>3, <1>4, <1>5, QuietWriterStep

LEMMA WriteContentsInv ==
  ASSUME IInv, NEW p \in Writers, WriteContents(p)
  PROVE  IInv'
<1>1. StateTyped /\ DirsOK /\ acked <= acked'
  BY BundleFacts DEF IInv, StateTyped, WriteContents
<1>2. writer[p].pc = "contents" /\ writer[p].bundle \in Bundles /\ WriterOK(p)
  BY BusyFacts DEF WriteContents
<1>3. /\ OnlyWriter(p) /\ writer' \in [Writers -> WriterRecords]
      /\ writer'[p].pc = "sync" /\ writer'[p].bundle = writer[p].bundle
      /\ writer'[p].backup = writer[p].backup
  BY <1>1, GotoFacts DEF WriteContents, WriterPcs
<1>4. StateTyped'
  BY <1>1, <1>2, <1>3 DEF StateTyped, WriteContents, counters, TreeStates
<1>5. NewDirs
  BY <1>1 DEF NewDirs, DirsOK, WriteContents
<1>6. WriterOK(p)'
  BY <1>2, <1>3 DEF WriterOK, WriteContents, counters, Unpublished, BeforeBackup
<1>7. SpareBackup(p)' /\ WriteServed(p)'
  BY <1>3 DEF SpareBackup, WriteServed
<1>8. \A b \in Bundles : tree'[b] = tree[b] \/ b = writer[p].bundle
  BY <1>1 DEF WriteContents, StateTyped
<1> QED BY <1>1, <1>2, <1>3, <1>4, <1>5, <1>6, <1>7, <1>8, QuietWriterStep
        DEF WriteContents, counters, Unpublished, BeforeBackup

LEMMA SyncTreeInv ==
  ASSUME IInv, NEW p \in Writers, SyncTree(p)
  PROVE  IInv'
<1>1. StateTyped /\ DirsOK /\ acked <= acked'
  BY BundleFacts DEF IInv, StateTyped, SyncTree
<1>2. writer[p].pc = "sync" /\ writer[p].bundle \in Bundles /\ WriterOK(p)
  BY BusyFacts DEF SyncTree
<1>3. /\ OnlyWriter(p) /\ writer' \in [Writers -> WriterRecords]
      /\ writer'[p].pc = "replace" /\ writer'[p].bundle = writer[p].bundle
      /\ writer'[p].backup = writer[p].backup
  BY <1>1, GotoFacts DEF SyncTree, WriterPcs
<1>4. StateTyped'
  BY <1>1, <1>2, <1>3 DEF StateTyped, SyncTree, counters, TreeStates
<1>5. NewDirs
  BY <1>1 DEF NewDirs, DirsOK, SyncTree
<1>6. tree'[writer[p].bundle] = "synced"
  BY <1>1, <1>2 DEF SyncTree, StateTyped
<1>7. WriterOK(p)'
  BY <1>2, <1>3, <1>6 DEF WriterOK, SyncTree, counters, Unpublished, BeforeBackup
<1>8. SpareBackup(p)' /\ WriteServed(p)'
  BY <1>3 DEF SpareBackup, WriteServed
<1>9. \A b \in Bundles : tree'[b] = tree[b] \/ b = writer[p].bundle
  BY <1>1 DEF SyncTree, StateTyped
<1> QED BY <1>1, <1>2, <1>3, <1>5, <1>4, <1>7, <1>8, <1>9, QuietWriterStep
        DEF SyncTree, counters, Unpublished, BeforeBackup

\* A step that only moves the writer on
LEMMA QuietGoto ==
  ASSUME IInv, NEW p \in Writers, writer[p].pc # "idle", NEW pc \in WriterPcs \ {"move"}, Goto(p, pc),
         UNCHANGED <<names, tree, reader, pub, acked, raced, begun, clock, newest, loads, crashes>>,
         NewDirs, errors' \in 0..MaxErrors,
         pc \in BeforeBackup => writer[p].pc \in BeforeBackup,
         pc \in Unpublished =>
           writer[p].pc \in Unpublished \ {"contents", "sync"} /\ names[Path] # Foreign,
         pc \in Unpublished \cup {"restore", "cleanup"},
         pc \in {"restore", "cleanup"} =>
           writer[p].backup # None /\ writer[p].pc \notin {"contents", "sync", "replace"},
         ~raced => SpareBackup(p)' /\ WriteServed(p)'
  PROVE  IInv'
<1>1. StateTyped /\ DirsOK /\ acked <= acked'
  BY BundleFacts DEF IInv, StateTyped
<1>2. writer[p].bundle \in Bundles /\ WriterOK(p)
  BY BusyFacts
<1>3. /\ OnlyWriter(p) /\ writer' \in [Writers -> WriterRecords]
      /\ writer'[p].pc = pc /\ writer'[p].bundle = writer[p].bundle
      /\ writer'[p].backup = writer[p].backup
  BY <1>1, GotoFacts
<1>4. StateTyped'
  BY <1>1, <1>3 DEF StateTyped
<1>5. \A ns \in survivable' : ns \in survivable
  BY <1>1 DEF NewDirs, DirsOK
<1>6. WriterOK(p)'
  BY <1>2, <1>3, <1>5 DEF WriterOK, Unpublished, BeforeBackup
<1> QED BY <1>1, <1>2, <1>3, <1>4, <1>6, QuietWriterStep

\* The scratch directory is removed and the writer returns an error.
LEMMA DropTempInv ==
  ASSUME IInv, NEW p \in Writers, writer[p].pc \in Unpublished, DropTemp(p), ReturnErr(p),
         UNCHANGED <<reader, pub, acked, raced, begun, clock, newest, loads, crashes>>,
         errors' \in 0..MaxErrors
  PROVE  IInv'
<1> DEFINE b == writer[p].bundle
<1>1. StateTyped /\ DirsOK /\ WritersOK /\ Counted /\ acked <= acked'
  BY BundleFacts DEF IInv, StateTyped
<1>2. begun \in Nat /\ clock \in Nat /\ newest \in Nat /\ writer[p].pc # "idle"
  BY <1>1, BundleFacts DEF StateTyped, Unpublished, BeforeBackup
<1>3. b \in Bundles /\ WriterOK(p)
  BY <1>2, BusyFacts
<1>4. /\ OnlyWriter(p) /\ writer' \in [Writers -> WriterRecords]
      /\ writer'[p].pc = "idle" /\ writer'[p].backup = None /\ WriterOK(p)'
      /\ SpareBackup(p)' /\ WriteServed(p)'
  BY <1>1, <1>2, IdleFacts DEF ReturnErr
<1>5. Tmp(b) \in Names /\ DirOK(names, begun, newest)
  BY <1>1, <1>3, NameFacts DEF DirsOK
<1>6. /\ names' = Unlinked(Tmp(b)) /\ DirOK(names', begun, newest)
      /\ \A x \in Names : names'[x] = IF x = Tmp(b) THEN None ELSE names[x]
  BY <1>2, <1>5, UnlinkIsDir DEF DropTemp, Change
<1>7. NewDirs
  BY <1>1 DEF NewDirs, DropTemp, Change
<1>8. /\ names'[Path] = names[Path]
      /\ \A n \in Bundles : names'[Bak(n)] = names[Bak(n)]
  BY <1>3, <1>6, NameFacts
<1>9. ServesSame /\ NoNewBackup
  BY <1>8, SameServes DEF ServesSame, NoNewBackup
<1>10. tree' \in [Bundles -> TreeStates] /\ \A c \in Bundles : c # b => tree'[c] = tree[c]
  BY <1>1, <1>3 DEF DropTemp, StateTyped, TreeStates
<1>11. StateTyped'
  BY <1>1, <1>4, <1>10 DEF StateTyped
<1>12. Counted'
  <2>1. Pending' \subseteq Pending
    BY <1>4, PendingKept DEF BeforeBackup
  <2> QED BY <1>1, <2>1, CountedKept
<1>13. ASSUME NEW r \in Writers, r # p, writer[r].pc \in Unpublished
       PROVE  /\ names'[Tmp(writer[r].bundle)] = names[Tmp(writer[r].bundle)]
              /\ \A x \in Names : names'[x] = writer[r].bundle => x = Tmp(writer[r].bundle)
              /\ tree'[writer[r].bundle] = tree[writer[r].bundle]
  <2>1. writer[r].pc # "idle"
    BY <1>13 DEF Unpublished, BeforeBackup
  <2>2. writer[r].bundle # b /\ writer[r].bundle \in Bundles /\ WriterOK(r)
    BY <1>1, <1>2, <1>13, <2>1, BusyFacts DEF WritersOK
  <2>3. \A x \in Names : names[x] = writer[r].bundle => x = Tmp(writer[r].bundle)
    BY <1>1, <1>13, <2>2 DEF WriterOK, DirsOK
  <2> QED BY <1>3, <1>6, <1>10, <2>2, <2>3, NameFacts, BundleFacts
<1>14. ASSUME NEW ms \in survivable PROVE ~Serves(ms, b)
  BY <1>3, <1>14, ServedIsNamed DEF WriterOK
<1>15. ~raced => RecoveriesKnow'
  BY <1>9, RecoveriesKept DEF IInv, ServeInv
<1>16. \A r \in Writers : writer[r].backup = None \/ names'[Bak(writer[r].backup)] = names[Bak(writer[r].backup)]
  BY <1>1, <1>8 DEF StateTyped, WriterRecords
<1>17. StampsOK'
  BY <1>4, <1>7, <1>8, WriterStamps
<1> QED BY <1>1, <1>2, <1>4, <1>6, <1>7, <1>8, <1>9, <1>10, <1>11, <1>12, <1>13, <1>14,
           <1>15, <1>16, <1>17, WriterStepKeeps

LEMMA WriteFailsInv ==
  ASSUME IInv, NEW p \in Writers, WriteFails(p)
  PROVE  IInv'
<1>1. errors' \in 0..MaxErrors
  BY FailFacts DEF IInv, StateTyped, WriteFails
<1>2. writer[p].pc \in Unpublished
  BY DEF WriteFails, Unpublished, BeforeBackup
<1> QED BY <1>1, <1>2, DropTempInv DEF WriteFails

LEMMA ReplaceCheckInv ==
  ASSUME IInv, NEW p \in Writers, ReplaceCheck(p)
  PROVE  IInv'
<1>1. /\ errors' \in 0..MaxErrors /\ crashes' \in 0..MaxCrashes
      /\ writer[p].pc = "replace" /\ StateTyped /\ DirsOK
  BY FailFacts DEF IInv, StateTyped, ReplaceCheck
<1>2. CASE names[Path] = Foreign /\ DropTemp(p) /\ ReturnErr(p)
  BY <1>1, <1>2, DropTempInv DEF ReplaceCheck, Unpublished, BeforeBackup
<1>3. CASE names[Path] # Foreign /\ UNCHANGED <<fsVars, errors>>
           /\ Goto(p, IF names[Path] = None THEN "publish" ELSE "backup")
  <2> DEFINE pc == IF names[Path] = None THEN "publish" ELSE "backup"
  <2>1. /\ pc \in WriterPcs /\ pc \in Unpublished
        /\ pc \notin {"restore", "cleanup", "unlink", "publish_sync"}
        /\ writer[p].pc \in BeforeBackup
    BY <1>1 DEF WriterPcs, Unpublished, BeforeBackup
  <2>2. NewDirs
    BY <1>1, <1>3 DEF NewDirs, DirsOK, fsVars
  <2>3. writer'[p].pc = pc
    BY <1>1, <1>3, <2>1, GotoFacts
  <2>4. SpareBackup(p)' /\ WriteServed(p)'
    BY <2>1, <2>3 DEF SpareBackup, WriteServed
  <2> QED BY <1>1, <1>3, <2>1, <2>2, <2>4, QuietGoto
          DEF ReplaceCheck, fsVars, Unpublished, BeforeBackup
<1>4. CASE ReturnErr(p) /\ UNCHANGED fsVars
  BY <1>1, <1>4, QuietReturnErr DEF ReplaceCheck
<1> QED BY <1>2, <1>3, <1>4 DEF ReplaceCheck

LEMMA WriterCrashInv ==
  ASSUME IInv, NEW p \in Writers, WriterCrash(p)
  PROVE  IInv'
<1>1. errors' \in 0..MaxErrors /\ crashes' \in 0..MaxCrashes
  BY BundleBounds DEF IInv, StateTyped, WriterCrash
<1> QED BY <1>1, QuietReturnErr DEF WriterCrash, ReturnErr

LEMMA BackupSyncInv ==
  ASSUME IInv, NEW p \in Writers, BackupSync(p)
  PROVE  IInv'
<1>1. /\ errors' \in 0..MaxErrors /\ crashes' \in 0..MaxCrashes
      /\ writer[p].pc = "backup_sync" /\ StateTyped /\ DirsOK /\ WriterOK(p)
  BY FailFacts, BusyFacts DEF IInv, StateTyped, BackupSync
<1>2. CASE SyncParent /\ Goto(p, "publish")
  <2>1. NewDirs /\ names[Path] # Foreign
    BY <1>1, <1>2 DEF NewDirs, DirsOK, SyncParent, WriterOK
  <2>2. writer'[p].pc = "publish"
    BY <1>1, <1>2, GotoFacts DEF WriterPcs
  <2>3. SpareBackup(p)' /\ WriteServed(p)'
    BY <2>2 DEF SpareBackup, WriteServed
  <2> QED BY <1>1, <1>2, <2>1, <2>3, QuietGoto
          DEF BackupSync, SyncParent, Unpublished, BeforeBackup, WriterPcs
<1>3. CASE ReturnErr(p) /\ UNCHANGED <<names, survivable>>
  BY <1>1, <1>3, QuietReturnErr DEF BackupSync, fsVars
<1> QED BY <1>2, <1>3 DEF BackupSync

LEMMA StampBackupInv ==
  ASSUME IInv, NEW p \in Writers, StampBackup(p)
  PROVE  IInv'
<1> DEFINE b == writer[p].bundle
           n == clock + 1
<1>1. /\ writer[p].pc = "backup" /\ StateTyped /\ DirsOK /\ WriterOK(p) /\ WritersOK
      /\ Counted /\ StampsOK /\ b \in Bundles /\ writer[p].pc # "idle"
  BY BusyFacts DEF IInv, StampBackup
<1>2. /\ clock' = n /\ writer' = [writer EXCEPT ![p].pc = "move", ![p].backup = n]
      /\ UNCHANGED <<names, tree, survivable, reader, pub, acked, raced, begun, newest,
                     loads, errors, crashes>>
  BY DEF StampBackup, fsVars
<1>3. /\ begun \in Nat /\ clock \in Nat /\ newest \in Nat /\ newest <= clock
      /\ n \in Bundles /\ clock' \in Nat /\ newest' \in Nat /\ acked \in Nat
  <2>1. n \in 1..(begun - 1) /\ begun \in Bundles /\ clock \in Nat /\ newest \in 0..clock
    BY <1>1, Bounds DEF BeforeBackup, StateTyped
  <2> QED BY <1>1, <1>2, <2>1, BundleFacts DEF StateTyped
<1>4. /\ OnlyWriter(p) /\ writer' \in [Writers -> WriterRecords]
      /\ writer'[p].pc = "move" /\ writer'[p].bundle = b /\ writer'[p].backup = n
  BY <1>1, <1>2, <1>3 DEF StateTyped, WriterRecords, WriterPcs, OnlyWriter
<1>5. StateTyped'
  BY <1>1, <1>2, <1>3, <1>4 DEF StateTyped
<1>6. NewDirs /\ ServesSame /\ NoNewBackup /\ DirOK(names', begun', newest')
  BY <1>1, <1>2 DEF NewDirs, DirsOK, ServesSame, NoNewBackup
<1>7. Counted'
  <2>1. b \in Pending
    BY <1>1 DEF Pending, BeforeBackup
  <2>2. Pending' \subseteq Pending \ {b}
    <3> SUFFICES ASSUME NEW c \in Pending' PROVE c \in Pending /\ c # b
      OBVIOUS
    <3>1. PICK r \in Writers : writer'[r].pc \in BeforeBackup /\ writer'[r].bundle = c
      BY DEF Pending
    <3>2. r # p /\ writer[r].pc \in BeforeBackup /\ writer[r].bundle = c
      BY <1>4, <3>1 DEF OnlyWriter, BeforeBackup
    <3>3. c # b
      BY <1>1, <3>2 DEF WritersOK, BeforeBackup
    <3> QED BY <3>2, <3>3 DEF Pending
  <2>3. /\ IsFiniteSet(Pending \ {b}) /\ Cardinality(Pending \ {b}) = Cardinality(Pending) - 1
    BY <1>1, <2>1, FS_RemoveElement DEF Counted
  <2>4. IsFiniteSet(Pending') /\ Cardinality(Pending') <= Cardinality(Pending) - 1
    BY <2>2, <2>3, FS_Subset
  <2>5. Cardinality(Pending') \in Nat /\ Cardinality(Pending) \in Nat
    BY <1>1, <2>4, FS_CardinalityType DEF Counted
  <2>6. clock' + Cardinality(Pending') <= begun' - 1
    BY <1>1, <1>2, <1>3, <2>4, <2>5 DEF Counted
  <2>7. Published' = Published
    BY <1>2 DEF Published
  <2> QED BY <1>1, <1>2, <2>4, <2>6, <2>7 DEF Counted
<1>8. WriterOK(p)'
  BY <1>1, <1>2, <1>3, <1>4 DEF WriterOK, Unpublished, BeforeBackup
<1>9. \A r \in Writers : writer[r].backup < n
  <2>1. \A r \in Writers : writer[r].backup <= clock /\ writer[r].backup \in Nat
    BY <1>1, BundleFacts DEF WritersOK, WriterOK, StateTyped, WriterRecords, None
  <2> QED BY <1>3, <2>1
<1>10. StampsOK'
  <2> SUFFICES ASSUME NEW r \in Writers, writer'[r].pc = "move" PROVE StampFresh(r)'
    BY DEF StampsOK, StampFresh
  <2>1. CASE r = p
    <3>1. n # newest /\ \A o \in Writers \ {p} : writer[o].backup # n
      BY <1>3, <1>9, BundleFacts
    <3>2. \A ns \in survivable : ns[Bak(n)] = None
      BY <1>1, <1>3 DEF DirsOK, DirOK
    <3> HIDE DEF n
    <3> QED BY <1>2, <1>3, <1>4, <2>1, <3>1, <3>2 DEF StampFresh, OnlyWriter
  <2>2. CASE r # p
    <3>1. writer'[r] = writer[r] /\ writer[r].pc = "move" /\ StampFresh(r)
      BY <1>1, <1>4, <2>2 DEF OnlyWriter, StampsOK
    <3>2. writer[r].backup < n /\ writer[r].backup \in Bundles
      BY <1>9, <3>1 DEF StampFresh
    <3>3. \A o \in Writers \ {r} : writer'[o].backup # writer[r].backup
      BY <1>3, <1>4, <3>1, <3>2, BundleFacts DEF StampFresh, OnlyWriter
    <3> QED BY <1>2, <3>1, <3>3 DEF StampFresh
  <2> QED BY <2>1, <2>2
<1>11. SpareBackup(p)' /\ WriteServed(p)'
  BY <1>4 DEF SpareBackup, WriteServed
<1>12. ~raced => RecoveriesKnow'
  BY <1>2, <1>6, RecoveriesKept DEF IInv, ServeInv
<1>13. \A r \in Writers : r # p /\ writer[r].pc # "idle" => writer'[p].bundle # writer[r].bundle
  BY <1>1, <1>4 DEF WritersOK
<1>14. ASSUME NEW r \in Writers, writer[r].pc \in Unpublished
       PROVE  \A x \in Names : names[x] = writer[r].bundle => x = Tmp(writer[r].bundle)
  BY <1>1, <1>14 DEF WritersOK, WriterOK, DirsOK
<1>15. begun <= begun' /\ clock <= clock' /\ newest <= newest' /\ acked <= acked'
  BY <1>2, <1>3
<1> HIDE DEF n
<1> QED BY <1>2, <1>4, <1>5, <1>6, <1>7, <1>8, <1>10, <1>11, <1>12, <1>13, <1>14, <1>15,
           WriterStepKeeps

\* The newest stamp after a backup under stamp n
LEMMA NewestAfter ==
  ASSUME NEW k \in Nat, NEW n \in Nat
  PROVE  Max({k, n}) = IF n < k THEN k ELSE n
<1>1. {k, n} \in SUBSET Nat
  OBVIOUS
<1>2. CASE n < k
  <2>1. \A m \in {k, n} : m <= k
    BY <1>2
  <2> QED BY <1>1, <1>2, <2>1, MaxIs
<1>3. CASE ~(n < k)
  <2>1. \A m \in {k, n} : m <= n
    BY <1>3
  <2> QED BY <1>1, <1>3, <2>1, MaxIs
<1> QED BY <1>2, <1>3

LEMMA TakeBackupInv ==
  ASSUME IInv, NEW p \in Writers, TakeBackup(p)
  PROVE  IInv'
<1> DEFINE b == writer[p].bundle
           n == writer[p].backup
<1>1. /\ errors' \in 0..MaxErrors /\ crashes' \in 0..MaxCrashes
      /\ writer[p].pc = "move" /\ StateTyped /\ DirsOK /\ WriterOK(p) /\ WritersOK
      /\ Counted /\ StampsOK /\ b \in Bundles
  BY FailFacts, BusyFacts DEF IInv, StateTyped, TakeBackup
<1>2. CASE ReturnErr(p) /\ UNCHANGED <<names, survivable, newest, raced>>
  BY <1>1, <1>2, QuietReturnErr DEF TakeBackup, fsVars
<1>3. CASE /\ names[Path] # None
           /\ Change(Moved(Path, Bak(n)))
           /\ newest' = Max({newest, n})
           /\ raced' = (raced \/ n < newest)
           /\ Goto(p, "backup_sync")
           /\ UNCHANGED errors
  <2>1. /\ begun \in Nat /\ clock \in Nat /\ newest \in Nat /\ newest <= clock
        /\ n \in Bundles /\ n \in Nat /\ n # newest /\ n <= clock /\ n # None
        /\ \A ns \in survivable : ns[Bak(n)] = None
        /\ \A r \in Writers \ {p} : writer[r].backup # n
    <3>1. /\ begun \in Bundles /\ clock \in Nat /\ newest \in 0..clock
          /\ n <= clock /\ StampFresh(p)
      BY <1>1 DEF StateTyped, WriterOK, StampsOK
    <3> QED BY <1>1, <3>1, BundleFacts DEF StampFresh
  <2>2. UNCHANGED <<tree, reader, pub, acked, begun, clock, loads, crashes>> /\ acked <= acked'
    BY <1>1, BundleFacts DEF TakeBackup, StateTyped
  <2>3. /\ newest' \in Nat /\ newest <= newest' /\ n <= newest' /\ newest' <= clock
        /\ newest' \in {newest, n}
        /\ (~raced' => ~raced /\ newest < n /\ newest' = n)
    <3>1. newest' = IF n < newest THEN newest ELSE n
      <4> HIDE DEF n
      <4> QED BY <1>3, <2>1, NewestAfter
    <3>2. ~raced' => ~raced /\ ~(n < newest)
      BY <1>3
    <3> HIDE DEF n
    <3> QED BY <2>1, <3>1, <3>2
  <2>4. DirOK(names, begun, newest) /\ DirOK(names, begun, newest')
    BY <1>1, <2>1, <2>3, DirOKGrows DEF DirsOK
  <2>5. names[Path] \in Bundles /\ names[Bak(n)] = None
    BY <1>1, <1>3, <2>1, <2>4, NameFacts DEF WriterOK, DirsOK, DirOK
  <2>6. /\ DirOK(names', begun, newest')
        /\ \A x \in Names : names'[x] = IF x = Bak(n) THEN names[Path]
                                        ELSE IF x = Path THEN None ELSE names[x]
    <3>1. \A m \in Bundles : Bak(n) = Bak(m) => m <= newest'
      BY <2>1, <2>3, NameFacts, BundleFacts
    <3>2. Bak(n) \in Names /\ Path \in Names /\ Path # Bak(n)
      BY <2>1, NameFacts
    <3>3. names' = Moved(Path, Bak(n))
      BY <1>3 DEF Change
    <3> HIDE DEF n
    <3> QED BY <2>1, <2>3, <2>4, <2>5, <3>1, <3>2, <3>3, MoveIsDir
  <2>7. NewDirs
    BY <1>1, <1>3 DEF NewDirs, Change
  <2>8. /\ names'[Path] = None /\ names'[Bak(n)] = names[Path]
        /\ \A m \in Bundles : m # n => names'[Bak(m)] = names[Bak(m)]
        /\ \A m \in Bundles : names'[Tmp(m)] = names[Tmp(m)]
    BY <2>1, <2>6, NameFacts
  <2>9. ~raced' => ServesSame
    <3> SUFFICES ASSUME newest < n PROVE ServesSame
      BY <2>3
    <3> QED BY <2>1, <2>4, <2>5, <2>8, BackupServes DEF ServesSame
  <2>10. /\ OnlyWriter(p) /\ writer' \in [Writers -> WriterRecords]
         /\ writer'[p].pc = "backup_sync" /\ writer'[p].bundle = b /\ writer'[p].backup = n
    BY <1>1, <1>3, GotoFacts DEF WriterPcs
  <2>11. StateTyped' /\ (raced => raced')
    <3>1. raced \in BOOLEAN /\ raced' \in BOOLEAN /\ (raced => raced')
      BY <1>1, <1>3, <2>1 DEF StateTyped
    <3>2. newest' \in 0..clock'
      BY <2>1, <2>2, <2>3
    <3> QED BY <1>1, <2>2, <2>10, <3>1, <3>2 DEF StateTyped
  <2>12. Counted'
    <3>1. Pending' \subseteq Pending
      BY <2>10, PendingKept DEF BeforeBackup
    <3> QED BY <1>1, <2>2, <3>1, CountedKept
  <2>13. ASSUME NEW r \in Writers, writer[r].pc \in Unpublished
         PROVE  /\ names'[Tmp(writer[r].bundle)] = names[Tmp(writer[r].bundle)]
                /\ \A x \in Names : names'[x] = writer[r].bundle => x = Tmp(writer[r].bundle)
    <3>1. WriterOK(r) /\ writer[r].bundle \in Bundles
      BY <2>13, BusyFacts DEF IInv, Unpublished, BeforeBackup
    <3>2. \A x \in Names : names[x] = writer[r].bundle => x = Tmp(writer[r].bundle)
      BY <1>1, <2>13, <3>1 DEF WriterOK, DirsOK
    <3> QED BY <2>6, <2>8, <3>1, <3>2, NameFacts, BundleFacts
  <2>14. WriterOK(p)'
    <3>1. writer[p].pc \in Unpublished
      BY <1>1 DEF Unpublished, BeforeBackup
    <3>2. names'[Path] # Foreign
      BY <2>8, BundleFacts
    <3>3. \A ns \in survivable' : \A x \in Names : ns[x] = b => x = Tmp(b)
      BY <1>1, <2>7, <2>13, <3>1 DEF NewDirs, WriterOK
    <3>4. names'[Tmp(b)] = b
      BY <1>1, <2>13, <3>1 DEF WriterOK
    <3> QED BY <1>1, <2>1, <2>2, <2>10, <3>1, <3>2, <3>3, <3>4
            DEF WriterOK, Unpublished, BeforeBackup
  <2>15. SpareBackup(p)' /\ WriteServed(p)'
    BY <2>10 DEF SpareBackup, WriteServed
  <2>16. ~raced' => RecoveriesKnow'
    <3> SUFFICES ASSUME newest < newest' PROVE RecoveriesKnow'
      BY <2>3
    <3>1. \A q \in Readers : reader[q].seen <= newest /\ reader[q].seen \in Nat
      BY <1>1, BundleFacts DEF IInv, ReadersOK, ReaderOK, StateTyped, ReaderRecords
    <3>2. \A q \in Readers : reader'[q].seen # newest'
      BY <2>1, <2>2, <2>3, <3>1
    <3> QED BY <3>2 DEF RecoveriesKnow, RecoveryKnows
  <2>17. ASSUME NEW r \in Writers, r # p
         PROVE  writer[r].backup = None \/ names'[Bak(writer[r].backup)] = names[Bak(writer[r].backup)]
    BY <1>1, <2>1, <2>8, <2>17 DEF StateTyped, WriterRecords
  <2>18. StampsOK'
    <3> SUFFICES ASSUME NEW r \in Writers, writer'[r].pc = "move" PROVE StampFresh(r)'
      BY DEF StampsOK, StampFresh
    <3>1. r # p /\ writer'[r] = writer[r] /\ StampFresh(r) /\ writer[r].pc = "move"
      BY <1>1, <2>10 DEF OnlyWriter, StampsOK
    <3>2. writer[r].backup # n /\ writer[r].backup \in Bundles \ {newest}
      BY <2>1, <3>1 DEF StampFresh
    <3>3. \A ns \in survivable : ns[Bak(writer[r].backup)] = None
      BY <3>1 DEF StampFresh
    <3>4. names'[Bak(writer[r].backup)] = None
      BY <1>1, <2>8, <3>2, <3>3 DEF DirsOK
    <3>5. \A ns \in survivable' : ns[Bak(writer[r].backup)] = None
      BY <2>7, <3>3, <3>4 DEF NewDirs
    <3>6. writer[r].backup \in Bundles \ {newest'}
      BY <2>3, <3>2
    <3>7. \A o \in Writers \ {r} : writer'[o].backup # writer[r].backup
      BY <2>10, <3>1 DEF StampFresh, OnlyWriter
    <3> QED BY <3>1, <3>5, <3>6, <3>7 DEF StampFresh
  <2>19. names'[Path] # Foreign /\ names[Path] # Foreign
    BY <2>5, <2>8, BundleFacts
  <2>20. DirOK(names', begun', newest') /\ begun <= begun' /\ clock <= clock'
    BY <2>1, <2>2, <2>6
  <2>21. \A r \in Writers : r # p /\ writer[r].pc # "idle" => writer'[p].bundle # writer[r].bundle
    BY <1>1, <2>10 DEF WritersOK
  <2> QED BY <2>2, <2>3, <2>7, <2>9, <2>10, <2>11, <2>12, <2>13, <2>14, <2>15, <2>16,
             <2>17, <2>18, <2>19, <2>20, <2>21, WriterStepKeeps
<1> QED BY <1>2, <1>3 DEF TakeBackup

LEMMA RestoreInv ==
  ASSUME IInv, NEW p \in Writers, Restore(p)
  PROVE  IInv'
<1> DEFINE n == writer[p].backup
<1>1. /\ errors' \in 0..MaxErrors /\ crashes' \in 0..MaxCrashes
      /\ writer[p].pc = "restore" /\ StateTyped /\ DirsOK /\ WriterOK(p) /\ WritersOK
      /\ Counted /\ n \in Bundles
  <2>1. /\ errors' \in 0..MaxErrors /\ crashes' \in 0..MaxCrashes
        /\ writer[p].pc = "restore" /\ StateTyped /\ DirsOK /\ WriterOK(p) /\ WritersOK
        /\ Counted
    BY FailFacts, BusyFacts DEF IInv, StateTyped, Restore
  <2> QED BY <2>1 DEF WriterOK, StateTyped, WriterRecords
<1>2. CASE UNCHANGED <<names, survivable, raced>>
  BY <1>1, <1>2, QuietReturnErr DEF Restore, fsVars
<1>3. CASE /\ names[Path] = None /\ names[Bak(n)] # None
           /\ ChangeSynced(Moved(Bak(n), Path))
           /\ raced' = (raced \/ Overtaken(n))
           /\ UNCHANGED errors
  <2>1. begun \in Nat /\ clock \in Nat /\ newest \in Nat
    BY <1>1, BundleFacts DEF StateTyped
  <2>2. UNCHANGED <<tree, reader, pub, acked, begun, clock, newest, loads, crashes>> /\ acked <= acked'
    BY <1>1, BundleFacts DEF Restore, StateTyped
  <2>3. DirOK(names, begun, newest)
    BY <1>1 DEF DirsOK
  <2>4. names[Bak(n)] \in Bundles
    BY <1>1, <1>3, <2>3, NameFacts DEF DirOK
  <2>5. /\ names' = Moved(Bak(n), Path) /\ DirOK(names', begun, newest)
        /\ \A x \in Names : names'[x] = IF x = Path THEN names[Bak(n)]
                                        ELSE IF x = Bak(n) THEN None ELSE names[x]
    BY <1>1, <1>3, <2>1, <2>3, <2>4, MoveIsDir, NameFacts DEF ChangeSynced
  <2>6. NewDirs
    BY <1>3 DEF NewDirs, ChangeSynced
  <2>7. /\ names'[Path] = names[Bak(n)] /\ names'[Bak(n)] = None
        /\ \A m \in Bundles : m # n => names'[Bak(m)] = names[Bak(m)]
        /\ \A m \in Bundles : names'[Tmp(m)] = names[Tmp(m)]
    BY <1>1, <2>5, NameFacts
  <2>8. ~raced' => ServesSame
    <3> SUFFICES ASSUME newest = n PROVE ServesSame
      BY <1>3 DEF Overtaken
    <3>1. \A m \in Bundles : names[Bak(m)] # None => m <= n
      BY <2>3 DEF DirOK
    <3> QED BY <1>1, <1>3, <2>4, <2>7, <3>1, RecoveryServes DEF ServesSame
  <2>9. /\ OnlyWriter(p) /\ writer' \in [Writers -> WriterRecords]
        /\ writer'[p].pc = "idle" /\ writer'[p].backup = None /\ WriterOK(p)'
        /\ SpareBackup(p)' /\ WriteServed(p)'
    BY <1>1, <2>1, <2>2, IdleFacts DEF Restore, ReturnErr
  <2>10. StateTyped' /\ (raced => raced')
    BY <1>1, <1>3, <2>1, <2>2, <2>9 DEF StateTyped, Overtaken
  <2>11. Counted'
    <3>1. Pending' \subseteq Pending
      BY <2>9, PendingKept DEF BeforeBackup
    <3> QED BY <1>1, <2>2, <3>1, CountedKept
  <2>12. ASSUME NEW r \in Writers, writer[r].pc \in Unpublished
         PROVE  /\ names'[Tmp(writer[r].bundle)] = names[Tmp(writer[r].bundle)]
                /\ \A x \in Names : names'[x] = writer[r].bundle => x = Tmp(writer[r].bundle)
    <3>1. WriterOK(r) /\ writer[r].bundle \in Bundles
      BY <2>12, BusyFacts DEF IInv, Unpublished, BeforeBackup
    <3>2. \A x \in Names : names[x] = writer[r].bundle => x = Tmp(writer[r].bundle)
      BY <1>1, <2>12, <3>1 DEF WriterOK, DirsOK
    <3> QED BY <1>1, <2>5, <2>7, <3>1, <3>2, NameFacts, BundleFacts
  <2>13. NoNewBackup
    BY <1>3, <2>7 DEF NoNewBackup
  <2>14. ~raced' => RecoveriesKnow'
    BY <2>2, <2>10, <2>13, RecoveriesKept DEF IInv, ServeInv
  <2>15. ASSUME NEW r \in Writers
         PROVE  \/ writer[r].backup = None
                \/ names'[Bak(writer[r].backup)] = names[Bak(writer[r].backup)]
                \/ names'[Bak(writer[r].backup)] \notin Bundles
    BY <1>1, <2>13, BundleFacts DEF NoNewBackup, StateTyped, WriterRecords
  <2>16. names'[Path] # Foreign /\ names[Path] # Foreign
    BY <1>3, <2>4, <2>7, BundleFacts
  <2>17. DirOK(names', begun', newest') /\ begun <= begun' /\ clock <= clock' /\ newest <= newest'
    BY <2>1, <2>2, <2>5
  <2>18. StampsOK'
    BY <2>2, <2>6, <2>9, <2>13, WriterStamps DEF NoNewBackup
  <2> QED BY <2>2, <2>6, <2>8, <2>9, <2>10, <2>11, <2>12, <2>14, <2>15,
             <2>16, <2>17, <2>18, WriterStepKeeps
<1> QED BY <1>2, <1>3 DEF Restore

LEMMA PublishSyncInv ==
  ASSUME IInv, NEW p \in Writers, PublishSync(p)
  PROVE  IInv'
<1>1. /\ errors' \in 0..MaxErrors /\ crashes' \in 0..MaxCrashes
      /\ writer[p].pc = "publish_sync" /\ StateTyped /\ DirsOK /\ WriterOK(p)
  BY FailFacts, BusyFacts DEF IInv, StateTyped, PublishSync
<1>2. ~raced => SpareBackup(p) /\ WriteServed(p)
  BY DEF IInv, ServeInv, SparesKept, WritesServed
<1>3. CASE SyncParent /\ writer[p].backup = None /\ ReturnOk(p) /\ UNCHANGED errors
  <2>1. NewDirs
    BY <1>3 DEF NewDirs, SyncParent
  <2>2. ~raced => \A ns \in survivable' : ServesSince(ns, pub[writer[p].bundle])
    BY <1>1, <1>2, <1>3 DEF SyncParent, WriteServed
  <2> QED BY <1>1, <1>3, <2>1, <2>2, QuietReturnOk DEF PublishSync, SyncParent
<1>4. CASE SyncParent /\ writer[p].backup # None /\ Goto(p, "cleanup") /\ UNCHANGED <<acked, errors>>
  <2>1. NewDirs
    BY <1>4 DEF NewDirs, SyncParent
  <2>2. /\ writer'[p].pc = "cleanup" /\ writer'[p].bundle = writer[p].bundle
        /\ writer'[p].backup = writer[p].backup
    BY <1>1, <1>4, GotoFacts DEF WriterPcs
  <2>3. ~raced => SpareBackup(p)'
    BY <1>1, <1>2, <1>4, <2>2 DEF SpareBackup, SyncParent
  <2>4. ~raced => WriteServed(p)'
    BY <1>1, <1>2, <1>4, <2>2 DEF WriteServed, SyncParent, ServesSince, PublishSync
  <2> QED BY <1>1, <1>4, <2>1, <2>3, <2>4, QuietGoto
          DEF PublishSync, SyncParent, Unpublished, BeforeBackup, WriterPcs
<1>5. CASE ReturnErr(p) /\ UNCHANGED <<names, survivable, acked>>
  BY <1>1, <1>5, QuietReturnErr DEF PublishSync, fsVars
<1> QED BY <1>3, <1>4, <1>5 DEF PublishSync

LEMMA CleanupInv ==
  ASSUME IInv, NEW p \in Writers, Cleanup(p)
  PROVE  IInv'
<1> DEFINE n == writer[p].backup
           c == names[Bak(n)]
<1>1. /\ errors' \in 0..MaxErrors /\ crashes' \in 0..MaxCrashes
      /\ writer[p].pc = "cleanup" /\ StateTyped /\ DirsOK /\ WriterOK(p) /\ WritersOK
      /\ Counted
  BY FailFacts, BusyFacts DEF IInv, StateTyped, Cleanup
<1>2. n \in Bundles /\ DirOK(names, begun, newest) /\ begun \in Nat /\ clock \in Nat /\ newest \in Nat
  BY <1>1, BundleFacts DEF WriterOK, StateTyped, WriterRecords, DirsOK
<1>3. ~raced => SpareBackup(p) /\ WriteServed(p)
  BY DEF IInv, ServeInv, SparesKept, WritesServed
<1>4. NewDirs /\ ServesSame /\ NoNewBackup
  BY <1>1 DEF NewDirs, DirsOK, ServesSame, NoNewBackup, Cleanup
<1>5. CASE ReturnOk(p) /\ UNCHANGED tree
  <2>1. ~raced => \A ns \in survivable' : ServesSince(ns, pub[writer[p].bundle])
    BY <1>1, <1>3 DEF Cleanup, WriteServed
  <2> QED BY <1>1, <1>4, <1>5, <2>1, QuietReturnOk DEF Cleanup
<1>6. CASE /\ c # None /\ tree' = [tree EXCEPT ![c] = "removing"]
           /\ Goto(p, "unlink") /\ UNCHANGED <<acked, errors>>
  <2>1. UNCHANGED <<names, survivable, reader, pub, raced, begun, clock, newest, loads, crashes>>
    BY DEF Cleanup
  <2>2. c \in Bundles
    BY <1>2, <1>6, NameFacts DEF DirOK
  <2>3. /\ OnlyWriter(p) /\ writer' \in [Writers -> WriterRecords]
        /\ writer'[p].pc = "unlink" /\ writer'[p].bundle = writer[p].bundle
        /\ writer'[p].backup = n
    BY <1>1, <1>6, GotoFacts DEF WriterPcs
  <2>4. tree' \in [Bundles -> TreeStates] /\ \A b \in Bundles : b # c => tree'[b] = tree[b]
    BY <1>1, <1>6, <2>2 DEF StateTyped, TreeStates
  <2>5. StateTyped' /\ acked <= acked'
    BY <1>1, <1>6, <2>1, <2>3, <2>4, BundleFacts DEF StateTyped
  <2>6. Counted'
    <3>1. Pending' \subseteq Pending
      BY <2>3, PendingKept DEF BeforeBackup
    <3> QED BY <1>1, <2>1, <3>1, CountedKept
  <2>7. ASSUME NEW r \in Writers, r # p, writer[r].pc \in Unpublished
        PROVE  /\ names'[Tmp(writer[r].bundle)] = names[Tmp(writer[r].bundle)]
               /\ \A x \in Names : names'[x] = writer[r].bundle => x = Tmp(writer[r].bundle)
               /\ tree'[writer[r].bundle] = tree[writer[r].bundle]
    <3>1. WriterOK(r) /\ writer[r].bundle \in Bundles
      BY <2>7, BusyFacts DEF IInv, Unpublished, BeforeBackup
    <3>2. \A x \in Names : names[x] = writer[r].bundle => x = Tmp(writer[r].bundle)
      BY <1>1, <2>7, <3>1 DEF WriterOK, DirsOK
    <3>3. writer[r].bundle # c
      BY <1>2, <3>1, <3>2, NameFacts
    <3> QED BY <2>1, <2>4, <3>1, <3>2, <3>3
  <2>8. WriterOK(p)'
    BY <1>1, <2>1, <2>3 DEF WriterOK, Unpublished, BeforeBackup
  <2>9. ~raced => SpareBackup(p)'
    BY <1>1, <1>3, <2>1, <2>3 DEF SpareBackup
  <2>10. ~raced => WriteServed(p)'
    BY <1>1, <1>3, <2>1, <2>3 DEF WriteServed, ServesSince
  <2>11. ~raced => RecoveriesKnow'
    BY <1>4, <2>1, RecoveriesKept DEF IInv, ServeInv
  <2>12. ASSUME NEW b \in Bundles
         PROVE  tree'[b] = tree[b] \/ raced \/ \A ms \in survivable : ~Serves(ms, b)
    <3>1. CASE b # c
      BY <2>4, <3>1
    <3>2. CASE b = c
      BY <1>1, <1>2, <1>3, <2>2, <3>2, BundleFacts DEF SpareBackup
    <3> QED BY <3>1, <3>2
  <2>13. \A r \in Writers : r # p /\ writer[r].pc # "idle" => writer'[p].bundle # writer[r].bundle
    BY <1>1, <2>3 DEF WritersOK
  <2>14. DirOK(names', begun', newest') /\ begun <= begun' /\ clock <= clock' /\ newest <= newest'
    BY <1>2, <2>1
  <2>15. StampsOK'
    BY <1>4, <2>1, <2>3, WriterStamps DEF NoNewBackup
  <2> QED BY <1>4, <1>6, <2>1, <2>3, <2>5, <2>6, <2>7, <2>8, <2>9, <2>10, <2>11, <2>12,
             <2>13, <2>14, <2>15, WriterStepKeeps
<1> QED BY <1>5, <1>6 DEF Cleanup

LEMMA UnlinkInv ==
  ASSUME IInv, NEW p \in Writers, Unlink(p)
  PROVE  IInv'
<1> DEFINE n == writer[p].backup
<1>1. /\ errors' \in 0..MaxErrors /\ crashes' \in 0..MaxCrashes
      /\ writer[p].pc = "unlink" /\ StateTyped /\ DirsOK /\ WriterOK(p) /\ WritersOK
      /\ Counted /\ ReturnOk(p)
  BY FailFacts, BusyFacts DEF IInv, StateTyped, Unlink
<1>2. /\ n \in Bundles /\ DirOK(names, begun, newest) /\ begun \in Nat /\ clock \in Nat /\ newest \in Nat
      /\ names \in survivable
  BY <1>1, BundleFacts DEF WriterOK, StateTyped, WriterRecords, DirsOK
<1>3. ~raced => SpareBackup(p) /\ WriteServed(p)
  BY DEF IInv, ServeInv, SparesKept, WritesServed
<1>4. UNCHANGED <<tree, reader, pub, raced, begun, clock, newest, loads, crashes>>
  BY DEF Unlink
<1>5. CASE UNCHANGED <<names, survivable>>
  <2>1. ~raced => \A ns \in survivable' : ServesSince(ns, pub[writer[p].bundle])
    BY <1>1, <1>3, <1>5 DEF WriteServed
  <2>2. NewDirs
    BY <1>2, <1>5 DEF NewDirs
  <2> QED BY <1>1, <1>4, <1>5, <2>1, <2>2, QuietReturnOk
<1>6. CASE ChangeSynced(Unlinked(Bak(n)))
  <2>1. Bak(n) \in Names
    BY <1>2, NameFacts
  <2>2. /\ names' = Unlinked(Bak(n)) /\ DirOK(names', begun, newest)
        /\ \A x \in Names : names'[x] = IF x = Bak(n) THEN None ELSE names[x]
    BY <1>2, <1>6, <2>1, UnlinkIsDir DEF ChangeSynced
  <2>3. /\ names'[Path] = names[Path] /\ names'[Bak(n)] = None
        /\ \A m \in Bundles : m # n => names'[Bak(m)] = names[Bak(m)]
        /\ \A m \in Bundles : names'[Tmp(m)] = names[Tmp(m)]
    BY <1>2, <2>2, NameFacts
  <2>4. NewDirs /\ NoNewBackup
    BY <1>6, <2>3 DEF NewDirs, ChangeSynced, NoNewBackup
  <2>5. ~raced => ServesSame
    <3> SUFFICES ASSUME ~raced PROVE ServesSame
      OBVIOUS
    <3>1. names[Bak(n)] \in Bundles => ~Serves(names, names[Bak(n)])
      BY <1>1, <1>2, <1>3, BundleFacts DEF SpareBackup
    <3> QED BY <1>2, <2>3, <3>1, UnlinkServes DEF ServesSame
  <2>6. /\ OnlyWriter(p) /\ writer' \in [Writers -> WriterRecords]
        /\ writer'[p].pc = "idle" /\ writer'[p].backup = None /\ WriterOK(p)'
        /\ SpareBackup(p)' /\ WriteServed(p)'
        /\ acked' \in 0..MaxBundles /\ acked <= acked'
    BY <1>1, <1>4, ReturnOkFacts
  <2>7. StateTyped'
    BY <1>1, <1>4, <2>6 DEF StateTyped
  <2>8. Counted'
    <3>1. Pending' \subseteq Pending
      BY <2>6, PendingKept DEF BeforeBackup
    <3> QED BY <1>1, <1>4, <3>1, CountedKept
  <2>9. ASSUME NEW r \in Writers, writer[r].pc \in Unpublished
        PROVE  /\ names'[Tmp(writer[r].bundle)] = names[Tmp(writer[r].bundle)]
               /\ \A x \in Names : names'[x] = writer[r].bundle => x = Tmp(writer[r].bundle)
    <3>1. WriterOK(r) /\ writer[r].bundle \in Bundles
      BY <2>9, BusyFacts DEF IInv, Unpublished, BeforeBackup
    <3>2. \A x \in Names : names[x] = writer[r].bundle => x = Tmp(writer[r].bundle)
      BY <1>1, <2>9, <3>1 DEF WriterOK, DirsOK
    <3> QED BY <2>2, <2>3, <3>1, <3>2, BundleFacts
  <2>10. ~raced => RecoveriesKnow'
    BY <1>4, <2>4, RecoveriesKept DEF IInv, ServeInv
  <2>11. ~raced => CommitServed'
    <3> SUFFICES ASSUME ~raced PROVE CommitServed'
      OBVIOUS
    <3>1. \A ns \in survivable : ServesSince(ns, pub[writer[p].bundle])
      BY <1>1, <1>3 DEF WriteServed
    <3>2. \A ns \in survivable' : \E b \in Bundles : Serves(ns, b) /\ pub'[b] >= pub[writer[p].bundle]
      BY <1>1, <1>4, <2>4, <2>5, <3>1, SinceKept
    <3>3. \A ns \in survivable' : ServesSince(ns, pub[writer[p].bundle])
      BY <1>4, <3>2 DEF ServesSince
    <3> QED BY <1>1, <1>4, <2>4, <2>5, <3>3, CommitAfterOk
  <2>12. ASSUME NEW r \in Writers
         PROVE  \/ writer[r].backup = None
                \/ names'[Bak(writer[r].backup)] = names[Bak(writer[r].backup)]
                \/ names'[Bak(writer[r].backup)] \notin Bundles
    BY <1>1, <2>4, BundleFacts DEF NoNewBackup, StateTyped, WriterRecords
  <2>13. DirOK(names', begun', newest') /\ begun <= begun' /\ clock <= clock' /\ newest <= newest'
    BY <1>2, <1>4, <2>2
  <2>14. StampsOK'
    BY <1>4, <2>4, <2>6, WriterStamps DEF NoNewBackup
  <2> QED BY <1>4, <2>3, <2>4, <2>5, <2>6, <2>7, <2>8, <2>9, <2>10, <2>11, <2>12, <2>13,
             <2>14, WriterStepKeeps
<1> QED BY <1>5, <1>6 DEF Unlink

LEMMA WriteBeginInv ==
  ASSUME IInv, NEW p \in Writers, WriteBegin(p)
  PROVE  IInv'
<1> DEFINE b == begun + 1
<1>1. StateTyped /\ DirsOK /\ WritersOK /\ Counted /\ acked <= acked'
  BY BundleFacts DEF IInv, StateTyped, WriteBegin
<1>2. /\ begun \in Nat /\ clock \in Nat /\ newest \in Nat /\ clock <= clock /\ b \in Bundles /\ begun <= b
      /\ DirOK(names, begun, newest) /\ begun \in Bundles
  BY <1>1, BundleFacts DEF StateTyped, WriteBegin, DirsOK
<1>3. /\ writer[p].pc = "idle" /\ begun' = b
      /\ writer' = [writer EXCEPT ![p] = [pc |-> "contents", bundle |-> b, backup |-> None]]
      /\ ChangeSynced([names EXCEPT ![Tmp(b)] = b])
      /\ tree' = [tree EXCEPT ![b] = "partial"]
      /\ UNCHANGED <<reader, pub, acked, raced, clock, newest, loads, errors, crashes>>
  BY DEF WriteBegin
<1>4. \A ns \in survivable, x \in Names : ns[x] # b
  BY <1>1, <1>2, BundleFacts DEF DirsOK, DirOK
<1>5. /\ names' \in [Names -> Bundles \cup {None, Foreign}]
      /\ \A x \in Names : names'[x] = IF x = Tmp(b) THEN b ELSE names[x]
  BY <1>2, <1>3, NameFacts DEF ChangeSynced, DirOK
<1>6. /\ names'[Path] = names[Path] /\ names'[Tmp(b)] = b
      /\ \A m \in Bundles : names'[Bak(m)] = names[Bak(m)]
      /\ \A m \in Bundles : m # b => names'[Tmp(m)] = names[Tmp(m)]
  BY <1>2, <1>5, NameFacts
<1>7. DirOK(names', b, newest)
  <2>1. \A x \in Names : names'[x] = Foreign => x = Path
    BY <1>2, <1>5, BundleFacts DEF DirOK
  <2>2. \A x, y \in Names : names'[x] \in Bundles /\ names'[x] = names'[y] => x = y
    BY <1>1, <1>2, <1>4, <1>5 DEF DirOK, DirsOK
  <2>3. \A x \in Names : names'[x] \in Bundles => names'[x] <= b
    BY <1>2, <1>5, BundleFacts DEF DirOK
  <2>4. \A n \in Bundles : names'[Bak(n)] # None => n <= newest
    BY <1>2, <1>6 DEF DirOK
  <2> QED BY <1>5, <2>1, <2>2, <2>3, <2>4 DEF DirOK
<1>8. NewDirs /\ ServesSame /\ NoNewBackup
  BY <1>3, <1>6, SameServes DEF NewDirs, ChangeSynced, ServesSame, NoNewBackup
<1>9. /\ OnlyWriter(p) /\ writer' \in [Writers -> WriterRecords]
      /\ writer'[p].pc = "contents" /\ writer'[p].bundle = b /\ writer'[p].backup = None
  BY <1>1, <1>2, <1>3 DEF StateTyped, WriterRecords, WriterPcs, OnlyWriter
<1>10. tree' \in [Bundles -> TreeStates] /\ \A c \in Bundles : c # b => tree'[c] = tree[c]
  BY <1>1, <1>2, <1>3 DEF StateTyped, TreeStates
<1>11. StateTyped'
  BY <1>1, <1>2, <1>3, <1>9, <1>10 DEF StateTyped
<1>12. Counted'
  <2>1. Pending' \subseteq Pending \cup {b}
    <3> SUFFICES ASSUME NEW c \in Pending', c # b PROVE c \in Pending
      OBVIOUS
    <3>1. PICK r \in Writers : writer'[r].pc \in BeforeBackup /\ writer'[r].bundle = c
      BY DEF Pending
    <3>2. r # p /\ writer[r].pc \in BeforeBackup /\ writer[r].bundle = c
      BY <1>9, <3>1 DEF OnlyWriter
    <3> QED BY <3>2 DEF Pending
  <2>2. /\ IsFiniteSet(Pending \cup {b})
        /\ Cardinality(Pending \cup {b}) \in {Cardinality(Pending), Cardinality(Pending) + 1}
    BY <1>1, FS_AddElement DEF Counted
  <2>3. IsFiniteSet(Pending') /\ Cardinality(Pending') <= Cardinality(Pending \cup {b})
    BY <2>1, <2>2, FS_Subset
  <2>4. Cardinality(Pending') \in Nat /\ Cardinality(Pending) \in Nat
    BY <1>1, <2>3, FS_CardinalityType DEF Counted
  <2>5. clock' + Cardinality(Pending') <= begun' - 1
    BY <1>1, <1>2, <1>3, <2>2, <2>3, <2>4 DEF Counted
  <2>6. Published' = Published
    BY <1>3 DEF Published
  <2>7. \A c \in Bundles : c > begun' => pub'[c] = 0
    BY <1>1, <1>2, <1>3, BundleFacts DEF Counted
  <2> QED BY <1>1, <1>3, <2>3, <2>5, <2>6, <2>7 DEF Counted
<1>13. ASSUME NEW r \in Writers, r # p, writer[r].pc # "idle"
       PROVE  writer[r].bundle # b /\ writer[r].bundle \in Bundles /\ WriterOK(r)
  <2>1. writer[r].bundle \in 1..begun /\ writer[r].bundle \in Bundles /\ WriterOK(r)
    BY <1>13, BusyFacts
  <2> QED BY <1>2, <2>1
<1>14. ASSUME NEW r \in Writers, r # p, writer[r].pc \in Unpublished
       PROVE  /\ names'[Tmp(writer[r].bundle)] = names[Tmp(writer[r].bundle)]
              /\ \A x \in Names : names'[x] = writer[r].bundle => x = Tmp(writer[r].bundle)
              /\ tree'[writer[r].bundle] = tree[writer[r].bundle]
  <2>1. writer[r].bundle # b /\ writer[r].bundle \in Bundles /\ WriterOK(r)
    BY <1>13, <1>14 DEF Unpublished, BeforeBackup
  <2>2. \A x \in Names : names[x] = writer[r].bundle => x = Tmp(writer[r].bundle)
    BY <1>1, <1>14, <2>1 DEF WriterOK, DirsOK
  <2> QED BY <1>5, <1>6, <1>10, <2>1, <2>2
<1>15. WriterOK(p)'
  <2>1. pub[b] = 0 /\ b \in 1..begun'
    BY <1>1, <1>2, <1>3 DEF Counted
  <2>2. \A ns \in survivable', x \in Names : ns[x] = b => x = Tmp(b)
    BY <1>1, <1>3, <1>4, <1>5 DEF ChangeSynced, DirsOK
  <2>3. writer'[p].backup <= clock'
    BY <1>2, <1>3, <1>9 DEF None
  <2> QED BY <1>3, <1>6, <1>9, <2>1, <2>2, <2>3 DEF WriterOK, Unpublished, BeforeBackup
<1>16. SpareBackup(p)' /\ WriteServed(p)'
  BY <1>9 DEF SpareBackup, WriteServed
<1>17. ~raced => RecoveriesKnow'
  BY <1>3, <1>8, RecoveriesKept DEF IInv, ServeInv
<1>18. \A ms \in survivable : ~Serves(ms, b)
  BY <1>2, <1>4, ServedIsNamed
<1>19. \A r \in Writers : writer[r].backup = None \/ names'[Bak(writer[r].backup)] = names[Bak(writer[r].backup)]
  BY <1>1, <1>6 DEF StateTyped, WriterRecords
<1>20. \A c \in Bundles : tree'[c] = tree[c] \/ \A ms \in survivable : ~Serves(ms, c)
  BY <1>10, <1>18
<1>21. StampsOK'
  BY <1>3, <1>6, <1>8, <1>9, WriterStamps
<1> QED BY <1>1, <1>2, <1>3, <1>6, <1>7, <1>8, <1>9, <1>11, <1>12, <1>13, <1>14, <1>15, <1>16,
           <1>17, <1>19, <1>20, <1>21, WriterStepKeeps

\* The new publication number is above every other.
LEMMA PublicationIsNewest ==
  ASSUME StateTyped, Counted
  PROVE  LET m == Max({pub[b] : b \in Bundles})
         IN  m \in Nat /\ m <= Cardinality(Published) /\ \A b \in Bundles : pub[b] <= m
<1> DEFINE S == {pub[b] : b \in Bundles}
<1>1. S \in SUBSET (0..MaxBundles)
  BY Bounds
<1>2. S # {} /\ MaxBundles \in Nat
  BY BundleFacts DEF StateTyped
<1>3. Max(S) \in S /\ \A k \in S : k <= Max(S)
  BY <1>1, <1>2, MaxExists
<1>4. PICK b \in Bundles : Max(S) = pub[b]
  BY <1>3
<1>5. Max(S) \in Nat /\ Max(S) <= Cardinality(Published)
  BY <1>4 DEF StateTyped, Counted
<1> QED BY <1>3, <1>5

LEMMA PublishInv ==
  ASSUME IInv, NEW p \in Writers, Publish(p)
  PROVE  IInv'
<1> DEFINE b == writer[p].bundle
           m == Max({pub[c] : c \in Bundles})
<1>1. /\ errors' \in 0..MaxErrors /\ crashes' \in 0..MaxCrashes
      /\ writer[p].pc = "publish" /\ StateTyped /\ DirsOK /\ WriterOK(p) /\ WritersOK
      /\ Counted /\ ReadersOK /\ b \in Bundles
  BY FailFacts, BusyFacts DEF IInv, StateTyped, Publish
<1>2. UNCHANGED <<tree, reader, acked, raced, begun, clock, newest, loads, crashes>>
  BY DEF Publish
<1>3. begun \in Nat /\ clock \in Nat /\ newest \in Nat /\ acked \in Nat /\ DirOK(names, begun, newest)
  BY <1>1, BundleFacts DEF StateTyped, DirsOK
<1>4. CASE /\ names[Path] # None \/ Fail
           /\ IF writer[p].backup = None THEN ReturnErr(p) ELSE Goto(p, "restore")
           /\ UNCHANGED <<names, survivable, pub>>
  <2>1. CASE ReturnErr(p)
    BY <1>1, <1>2, <1>4, <2>1, QuietReturnErr DEF fsVars
  <2>2. CASE Goto(p, "restore") /\ writer[p].backup # None
    <3>1. NewDirs
      BY <1>1, <1>4 DEF NewDirs, DirsOK
    <3>2. writer'[p].pc = "restore"
      BY <1>1, <2>2, GotoFacts DEF WriterPcs
    <3>3. SpareBackup(p)' /\ WriteServed(p)'
      BY <3>2 DEF SpareBackup, WriteServed
    <3> QED BY <1>1, <1>2, <1>4, <2>2, <3>1, <3>3, QuietGoto
            DEF Unpublished, BeforeBackup, WriterPcs
  <2> QED BY <1>4, <2>1, <2>2
<1>5. CASE /\ names[Path] = None
           /\ Change(Moved(Tmp(b), Path))
           /\ pub' = [pub EXCEPT ![b] = 1 + m]
           /\ Goto(p, "publish_sync")
           /\ UNCHANGED errors
  <2>1. /\ names[Tmp(b)] = b /\ pub[b] = 0 /\ tree[b] = "synced"
        /\ \A ns \in survivable, x \in Names : ns[x] = b => x = Tmp(b)
    BY <1>1 DEF WriterOK, Unpublished, BeforeBackup
  <2>2. /\ names' = Moved(Tmp(b), Path) /\ DirOK(names', begun, newest)
        /\ \A x \in Names : names'[x] = IF x = Path THEN b
                                        ELSE IF x = Tmp(b) THEN None ELSE names[x]
    BY <1>1, <1>3, <1>5, <2>1, MoveIsDir, NameFacts DEF Change
  <2>3. /\ names'[Path] = b
        /\ \A n \in Bundles : names'[Bak(n)] = names[Bak(n)]
        /\ \A c \in Bundles : c # b => names'[Tmp(c)] = names[Tmp(c)]
    BY <1>1, <2>2, NameFacts
  <2>4. NewDirs
    BY <1>1, <1>5 DEF NewDirs, Change
  <2>5. \A c \in Bundles : Serves(names', c) <=> c = b
    BY <1>1, <2>3, ServesPath
  <2>6. m \in Nat /\ m <= Cardinality(Published) /\ \A c \in Bundles : pub[c] <= m
    BY <1>1, PublicationIsNewest
  <2> HIDE DEF m
  <2>7. /\ pub' \in [Bundles -> Nat] /\ pub'[b] = 1 + m
        /\ \A c \in Bundles : c # b => pub'[c] = pub[c]
        /\ \A c \in Bundles : pub[c] \in Nat /\ pub'[c] \in Nat /\ pub[c] <= pub'[c] /\ pub'[c] <= pub'[b]
    BY <1>1, <1>5, <2>6 DEF StateTyped
  <2>8. /\ OnlyWriter(p) /\ writer' \in [Writers -> WriterRecords]
        /\ writer'[p].pc = "publish_sync" /\ writer'[p].bundle = b
        /\ writer'[p].backup = writer[p].backup
    BY <1>1, <1>5, GotoFacts DEF WriterPcs
  <2>9. StateTyped'
    BY <1>1, <1>2, <2>7, <2>8 DEF StateTyped
  <2>10. Counted'
    <3>1. Pending' \subseteq Pending
      BY <2>8, PendingKept DEF BeforeBackup
    <3>2. IsFiniteSet(Pending') /\ Cardinality(Pending') <= Cardinality(Pending)
      BY <1>1, <3>1, FS_Subset DEF Counted
    <3>3. Cardinality(Pending') \in Nat /\ Cardinality(Pending) \in Nat
      BY <1>1, <3>2, FS_CardinalityType DEF Counted
    <3>4. clock' + Cardinality(Pending') <= begun' - 1
      BY <1>1, <1>2, <1>3, <3>2, <3>3 DEF Counted
    <3>5. Published' = Published \cup {b} /\ b \notin Published
      BY <1>1, <2>1, <2>6, <2>7 DEF Published
    <3>6. IsFiniteSet(Published) /\ Cardinality(Published) \in Nat
      BY BundleFacts, FS_Subset, FS_CardinalityType DEF Published
    <3>7. Cardinality(Published') = Cardinality(Published) + 1
      BY <3>5, <3>6, FS_AddElement
    <3>8. \A c \in Bundles : pub'[c] <= Cardinality(Published')
      BY <2>6, <2>7, <3>6, <3>7
    <3>9. \A c \in Bundles : c > begun' => pub'[c] = 0
      <4>1. b <= begun
        BY <1>1, BundleFacts DEF WriterOK
      <4> QED BY <1>1, <1>2, <1>3, <2>7, <4>1, BundleFacts DEF Counted
    <3> QED BY <3>2, <3>4, <3>8, <3>9 DEF Counted
  <2>11. names'[Path] # Foreign /\ names[Path] # Foreign
    BY <1>1, <1>5, <2>3, BundleFacts
  <2>12. DirsOK'
    BY <1>1, <1>2, <1>3, <2>2, <2>4, <2>11, DirsKept
  <2>13. ASSUME NEW r \in Writers, r # p PROVE WriterOK(r)'
    <3>1. WriterOK(r) /\ writer'[r] = writer[r]
      BY <1>1, <2>8, <2>13 DEF WritersOK, OnlyWriter
    <3>2. ASSUME writer[r].pc \in Unpublished
          PROVE  /\ names'[Tmp(writer[r].bundle)] = names[Tmp(writer[r].bundle)]
                 /\ pub'[writer[r].bundle] = pub[writer[r].bundle]
                 /\ \A x \in Names : names'[x] = writer[r].bundle => x = Tmp(writer[r].bundle)
                 /\ tree'[writer[r].bundle] = tree[writer[r].bundle]
      <4>1. writer[r].bundle # b /\ writer[r].bundle \in Bundles
        BY <1>1, <2>13, <3>2, BusyFacts DEF WritersOK, Unpublished, BeforeBackup
      <4>2. \A x \in Names : names[x] = writer[r].bundle => x = Tmp(writer[r].bundle)
        BY <1>1, <3>1, <3>2 DEF WriterOK, DirsOK
      <4> QED BY <1>2, <2>2, <2>3, <2>7, <4>1, <4>2, BundleFacts
    <3>3. clock <= clock' /\ newest <= newest' /\ begun <= begun' /\ clock' \in Nat /\ newest' \in Nat /\ begun' \in Nat
      BY <1>2, <1>3
    <3> QED BY <1>1, <1>3, <2>4, <2>11, <3>1, <3>2, <3>3, OtherWriterKept
  <2>14. WriterOK(p)'
    BY <1>1, <1>2, <2>8, <2>11 DEF WriterOK, Unpublished, BeforeBackup
  <2>15. WritersOK'
    BY <1>1, <2>8, <2>13, <2>14 DEF WritersOK, OnlyWriter
  <2>16. ReadersOK'
    BY <1>1, <1>2, <1>3, ReadersKept
  <2>17. ASSUME ~raced' PROVE ServedSynced' /\ SparesKept' /\ RecoveriesKnow'
                              /\ CommitServed' /\ WritesServed' /\ ReadsSince'
    <3>1. /\ ServedSynced /\ SparesKept /\ RecoveriesKnow /\ CommitServed
          /\ WritesServed /\ ReadsSince
      BY <1>2, <2>17 DEF IInv, ServeInv
    <3>2. \A ns \in survivable' : ns \in survivable \/ ns = names'
      BY <2>4 DEF NewDirs
    <3>3. ServedSynced'
      BY <1>2, <2>1, <2>5, <3>1, <3>2 DEF ServedSynced
    <3>4. SparesKept'
      <4> SUFFICES ASSUME NEW r \in Writers, writer'[r].backup # None,
                          names'[Bak(writer'[r].backup)] \in Bundles
                   PROVE  LET c == names'[Bak(writer'[r].backup)] IN
                          /\ writer'[r].pc \in {"cleanup", "unlink"} =>
                               \A ns \in survivable' : ~Serves(ns, c)
                          /\ writer'[r].pc = "publish_sync" => ~Serves(names', c)
        BY DEF SparesKept, SpareBackup
      <4> DEFINE c == names[Bak(writer[r].backup)]
      <4>1. writer'[r].backup = writer[r].backup /\ writer[r].backup \in Bundles
        BY <1>1, <2>8 DEF OnlyWriter, StateTyped, WriterRecords
      <4>2. names'[Bak(writer'[r].backup)] = c /\ c \in Bundles /\ c # b
        BY <1>1, <2>1, <2>3, <4>1, NameFacts DEF DirsOK
      <4>3. ASSUME writer'[r].pc \in {"cleanup", "unlink"}, NEW ns \in survivable
            PROVE  ~Serves(ns, c)
        BY <2>8, <3>1, <4>1, <4>2, <4>3 DEF OnlyWriter, SparesKept, SpareBackup
      <4> QED BY <2>5, <3>2, <4>2, <4>3
    <3>5. RecoveriesKnow'
      BY <1>1, <2>3, BundleFacts DEF RecoveriesKnow, RecoveryKnows
    <3>6. ASSUME NEW ns, NEW k \in Nat, ServesSince(ns, k)
          PROVE  \E c \in Bundles : Serves(ns, c) /\ pub'[c] >= k
      BY <2>7, <3>6 DEF ServesSince
    <3>7. CommitServed'
      <4> SUFFICES ASSUME acked > 0, NEW ns \in survivable'
                   PROVE  \E c \in Bundles : Serves(ns, c) /\ pub'[c] >= acked
        BY <1>2 DEF CommitServed, ServesSince
      <4>1. \A ms \in survivable : ServesSince(ms, acked)
        BY <3>1 DEF CommitServed
      <4>2. pub'[b] >= acked
        BY <1>1, <1>3, <2>7, <3>6, <4>1 DEF DirsOK
      <4> QED BY <1>1, <1>3, <2>5, <3>2, <3>6, <4>1, <4>2
    <3>8. WritesServed'
      <4> SUFFICES ASSUME NEW r \in Writers PROVE WriteServed(r)'
        BY DEF WritesServed
      <4>1. CASE r = p
        BY <1>1, <2>5, <2>7, <2>8, <4>1 DEF WriteServed, ServesSince
      <4>2. CASE r # p
        <5>1. writer'[r] = writer[r]
          BY <2>8, <4>2 DEF OnlyWriter
        <5>2. CASE writer[r].pc \notin {"publish_sync", "cleanup", "unlink"}
          BY <5>1, <5>2 DEF WriteServed
        <5>3. CASE writer[r].pc \in {"publish_sync", "cleanup", "unlink"}
          <6> DEFINE d == writer[r].bundle
          <6>1. d \in Bundles /\ d # b
            BY <1>1, <4>2, <5>3, BusyFacts DEF WritersOK
          <6>2. pub'[d] = pub[d] /\ pub[d] \in Nat /\ pub'[b] >= pub'[d]
            BY <2>7, <6>1
          <6>3. \E c \in Bundles : Serves(names', c) /\ pub'[c] >= pub'[d]
            BY <1>1, <2>5, <6>2
          <6>4. ASSUME writer[r].pc \in {"cleanup", "unlink"}, NEW ns \in survivable
                PROVE  \E c \in Bundles : Serves(ns, c) /\ pub'[c] >= pub'[d]
            <7>1. ServesSince(ns, pub[d])
              BY <3>1, <6>4 DEF WritesServed, WriteServed
            <7> QED BY <3>6, <6>2, <7>1
          <6> QED BY <3>2, <5>1, <6>3, <6>4 DEF WriteServed, ServesSince
        <5> QED BY <5>2, <5>3
      <4> QED BY <4>1, <4>2
    <3>9. ReadsSince'
      <4> SUFFICES ASSUME NEW q \in Readers PROVE ReadSince(q)'
        BY DEF ReadsSince
      <4>1. ReadSince(q) /\ ReaderOK(q) /\ reader[q].floor \in Nat
        BY <1>1, <3>1, BundleFacts DEF ReadsSince, ReadersOK, StateTyped, ReaderRecords
      <4> QED BY <1>2, <2>7, <4>1 DEF ReadSince, ReaderOK
    <3> QED BY <3>3, <3>4, <3>5, <3>7, <3>8, <3>9
  <2>18. ServeInv'
    BY <2>17 DEF ServeInv
  <2>19. StampsOK'
    BY <1>2, <2>3, <2>4, <2>8, WriterStamps
  <2> QED BY <2>9, <2>10, <2>12, <2>15, <2>16, <2>18, <2>19 DEF IInv
<1> QED BY <1>4, <1>5 DEF Publish

-----------------------------------------------------------------------------
(* The steps of a reader, and failures                                      *)

OnlyReader(q) == \A o \in Readers : o # q => reader'[o] = reader[o]

LEMMA ReaderRecordSet ==
  ASSUME reader \in [Readers -> ReaderRecords], NEW q \in Readers, NEW rec,
         rec \in ReaderRecords, reader' = [reader EXCEPT ![q] = rec]
  PROVE  OnlyReader(q) /\ reader' \in [Readers -> ReaderRecords] /\ reader'[q] = rec
  BY DEF OnlyReader

\* What a step of reader q has to keep
LEMMA ReaderStepKeeps ==
  ASSUME IInv, NEW q \in Readers, OnlyReader(q), NewDirs,
         UNCHANGED <<tree, writer, pub, acked, begun, clock, newest>>, StateTyped',
         DirOK(names', begun, newest), names'[Path] = Foreign <=> names[Path] = Foreign,
         \A c \in Bundles : names'[Tmp(c)] = names[Tmp(c)],
         \A c \in Bundles, x \in Names : names'[x] = c =>
            \E y \in Names : names[y] = c /\ \A d \in Bundles : y = Tmp(d) => x = y,
         NoNewBackup, ReaderOK(q)', raced => raced',
         ~raced' => ServesSame /\ RecoveryKnows(q)' /\ ReadSince(q)'
  PROVE  IInv'
<1>1. StateTyped /\ DirsOK /\ WritersOK /\ Counted /\ ReadersOK
  BY DEF IInv
<1>2. begun \in Nat /\ clock \in Nat /\ newest \in Nat /\ begun <= begun' /\ clock <= clock' /\ newest <= newest'
  BY <1>1, BundleFacts DEF StateTyped
<1>3. DirsOK'
  BY <1>1, <1>2, DirsKept
<1>4. Counted'
  <2>1. Pending' = Pending
    BY DEF Pending
  <2> QED BY <1>1, <2>1, CountedKept
<1>5. WritersOK'
  <2>1. ASSUME NEW r \in Writers PROVE WriterOK(r)'
    <3>1. WriterOK(r) /\ writer'[r] = writer[r]
      BY <1>1 DEF WritersOK
    <3>2. ASSUME writer[r].pc \in Unpublished
          PROVE  /\ names'[Tmp(writer[r].bundle)] = names[Tmp(writer[r].bundle)]
                 /\ \A x \in Names : names'[x] = writer[r].bundle => x = Tmp(writer[r].bundle)
      <4>1. writer[r].bundle \in Bundles
        BY <3>2, BusyFacts DEF Unpublished, BeforeBackup
      <4>2. \A x \in Names : names[x] = writer[r].bundle => x = Tmp(writer[r].bundle)
        BY <1>1, <3>1, <3>2 DEF WriterOK, DirsOK
      <4> QED BY <4>1, <4>2
    <3> QED BY <1>1, <1>2, <3>1, <3>2, OtherWriterKept
  <2> QED BY <1>1, <2>1 DEF WritersOK
<1>6. ReadersOK'
  BY <1>1 DEF ReadersOK, ReaderOK, OnlyReader
<1>7. ASSUME ~raced' PROVE ServedSynced' /\ SparesKept' /\ RecoveriesKnow'
                           /\ CommitServed' /\ WritesServed' /\ ReadsSince'
  <2>1. /\ ServedSynced /\ SparesKept /\ RecoveriesKnow /\ CommitServed
        /\ WritesServed /\ ReadsSince
    BY <1>7 DEF IInv, ServeInv
  <2>2. ServesSame /\ RecoveryKnows(q)' /\ ReadSince(q)'
    BY <1>7
  <2>3. ServedSynced'
    BY <1>1, <2>1, <2>2, SyncedKept
  <2>4. CommitServed'
    BY <1>1, <2>1, <2>2, CommitKept
  <2>5. ASSUME NEW r \in Writers PROVE SpareBackup(r)' /\ WriteServed(r)'
    <3>1. \/ writer[r].backup = None
          \/ names'[Bak(writer[r].backup)] = names[Bak(writer[r].backup)]
          \/ names'[Bak(writer[r].backup)] \notin Bundles
      BY <1>1, BundleFacts DEF NoNewBackup, StateTyped, WriterRecords
    <3> QED BY <1>1, <2>1, <2>2, <3>1, OtherSpareKept, OtherServedKept DEF SparesKept, WritesServed
  <2>6. \A o \in Readers : RecoveryKnows(o)'
    BY <2>1, <2>2 DEF RecoveriesKnow, RecoveryKnows, OnlyReader, NoNewBackup, BackupsOnDisk
  <2>7. \A o \in Readers : ReadSince(o)'
    BY <2>1, <2>2 DEF ReadsSince, ReadSince, OnlyReader
  <2> QED BY <2>3, <2>4, <2>5, <2>6, <2>7 DEF SparesKept, WritesServed, RecoveriesKnow, ReadsSince
<1>8. ServeInv'
  BY <1>7 DEF ServeInv
<1>9. StampsOK'
  BY <1>1, StampsKept DEF IInv, NoNewStamp, NoNewBackup
<1> QED BY <1>3, <1>4, <1>5, <1>6, <1>8, <1>9 DEF IInv

\* A reader that only looks
LEMMA QuietReaderStep ==
  ASSUME IInv, NEW q \in Readers, OnlyReader(q), NewDirs, names' = names,
         UNCHANGED <<tree, writer, pub, acked, raced, begun, clock, newest>>, StateTyped',
         ReaderOK(q)', ~raced => RecoveryKnows(q)' /\ ReadSince(q)'
  PROVE  IInv'
<1>1. DirOK(names', begun, newest)
  BY DEF IInv, DirsOK
<1>2. ServesSame /\ NoNewBackup
  BY DEF ServesSame, NoNewBackup
<1>3. ASSUME NEW c \in Bundles, NEW x \in Names, names'[x] = c
      PROVE  \E y \in Names : names[y] = c /\ \A d \in Bundles : y = Tmp(d) => x = y
  BY <1>3
<1> QED BY <1>1, <1>2, ReaderStepKeeps

\* A bundle at the path is as new as the acknowledgements before the load.
LEMMA PathSince ==
  ASSUME IInv, ~raced, names[Path] \in Bundles, NEW q \in Readers
  PROVE  pub[names[Path]] >= reader[q].floor
<1>1. /\ DirsOK /\ CommitServed /\ reader[q].floor \in Nat /\ acked \in Nat
      /\ reader[q].floor <= acked /\ pub[names[Path]] \in Nat
  BY BundleFacts DEF IInv, ServeInv, StateTyped, ReaderRecords, ReadersOK, ReaderOK
<1>2. CASE acked = 0
  BY <1>1, <1>2
<1>3. CASE acked > 0
  <2>1. PICK b \in Bundles : Serves(names, b) /\ pub[b] >= acked
    BY <1>1, <1>3 DEF DirsOK, CommitServed, ServesSince
  <2>2. b = names[Path]
    BY <2>1, ServesPath
  <2> QED BY <1>1, <2>1, <2>2
<1> QED BY <1>1, <1>2, <1>3

LEMMA LoadBeginInv ==
  ASSUME IInv, NEW q \in Readers, LoadBegin(q)
  PROVE  IInv'
<1> DEFINE pc == CASE names[Path] = Foreign -> "err"
                   [] names[Path] = None -> "scan"
                   [] OTHER -> "verify"
<1>1. /\ StateTyped /\ DirsOK /\ clock \in Nat /\ newest \in Nat /\ acked \in 0..MaxBundles
      /\ MaxBundles \in Nat /\ loads' \in 0..MaxLoads
  BY BundleFacts, BundleBounds DEF IInv, StateTyped, LoadBegin
<1>2. pc \in {"err", "scan", "verify"}
  BY BundleFacts
<1>3. reader' = [reader EXCEPT ![q] = [IdleReader EXCEPT !.pc = pc, !.floor = acked]]
  BY DEF LoadBegin
<1> HIDE DEF pc
<1>4. /\ OnlyReader(q) /\ reader' \in [Readers -> ReaderRecords]
      /\ reader'[q].pc = pc /\ reader'[q].seen = 0 /\ reader'[q].floor = acked
  <2> DEFINE rec == [IdleReader EXCEPT !.pc = pc, !.floor = acked]
  <2>1. pc \in ReaderPcs /\ "idle" \in ReaderPcs /\ 0 \in 0..MaxBundles
    BY <1>1, <1>2 DEF ReaderPcs
  <2>2. IdleReader \in ReaderRecords /\ IdleReader.seen = 0
    BY <2>1 DEF IdleReader, ReaderRecords
  <2>3. /\ rec \in ReaderRecords /\ rec.pc = pc /\ rec.seen = 0 /\ rec.floor = acked
    BY <1>1, <2>1, <2>2 DEF ReaderRecords
  <2> HIDE DEF rec
  <2>4. reader' = [reader EXCEPT ![q] = rec]
    BY <1>3 DEF rec
  <2>5. reader'[q] = rec
    BY <1>1, <2>4 DEF StateTyped
  <2>6. OnlyReader(q) /\ reader' \in [Readers -> ReaderRecords]
    BY <1>1, <2>3, <2>4 DEF StateTyped, OnlyReader
  <2> QED BY <2>3, <2>5, <2>6
<1>5. /\ UNCHANGED <<tree, names, survivable, writer, pub, acked, raced, begun, clock, newest>>
      /\ StateTyped'
  BY <1>1, <1>4 DEF LoadBegin, fsVars, StateTyped
<1>6. ReaderOK(q)'
  BY <1>1, <1>2, <1>4, <1>5 DEF ReaderOK
<1>7. RecoveryKnows(q)' /\ ReadSince(q)'
  BY <1>2, <1>4 DEF RecoveryKnows, ReadSince
<1>8. NewDirs
  BY <1>1, <1>5 DEF NewDirs, DirsOK
<1> QED BY <1>4, <1>5, <1>6, <1>7, <1>8, QuietReaderStep

LEMMA LoadScanInv ==
  ASSUME IInv, NEW q \in Readers, LoadScan(q)
  PROVE  IInv'
<1> DEFINE pc == IF BackupsOnDisk = {} THEN "verify" ELSE "try"
<1>1. /\ StateTyped /\ DirsOK /\ newest \in 0..MaxBundles /\ ReaderOK(q)
  <2>1. begun \in Bundles /\ clock \in 0..(begun - 1) /\ newest \in 0..clock
    BY Bounds DEF IInv, StateTyped
  <2>2. newest \in 0..MaxBundles
    BY <2>1, BundleFacts
  <2> QED BY <2>2 DEF IInv, ReadersOK
<1>2. BackupsOnDisk \in SUBSET Bundles
  BY DEF BackupsOnDisk
<1>3. reader' = [reader EXCEPT ![q].cands = BackupsOnDisk, ![q].seen = newest, ![q].pc = pc]
  BY DEF LoadScan
<1>4. pc \in {"verify", "try"} /\ (pc = "try" => BackupsOnDisk # {})
  OBVIOUS
<1> HIDE DEF pc
<1>5. /\ OnlyReader(q) /\ reader' \in [Readers -> ReaderRecords]
      /\ reader'[q].pc = pc /\ reader'[q].seen = newest /\ reader'[q].cands = BackupsOnDisk
      /\ reader'[q].floor = reader[q].floor
  <2> DEFINE rec == [reader[q] EXCEPT !.cands = BackupsOnDisk, !.seen = newest, !.pc = pc]
  <2>1. pc \in ReaderPcs /\ reader[q] \in ReaderRecords
    BY <1>1, <1>4 DEF ReaderPcs, StateTyped
  <2>2. /\ rec \in ReaderRecords /\ rec.pc = pc /\ rec.seen = newest
        /\ rec.cands = BackupsOnDisk /\ rec.floor = reader[q].floor
    BY <1>1, <1>2, <2>1 DEF ReaderRecords
  <2>3. reader' = [reader EXCEPT ![q] = rec]
    BY <1>1, <1>3 DEF StateTyped, ReaderRecords
  <2> HIDE DEF rec
  <2>4. reader'[q] = rec
    BY <1>1, <2>3 DEF StateTyped
  <2>5. OnlyReader(q) /\ reader' \in [Readers -> ReaderRecords]
    BY <1>1, <2>2, <2>3 DEF StateTyped, OnlyReader
  <2> QED BY <2>2, <2>4, <2>5
<1>6. /\ UNCHANGED <<tree, names, survivable, writer, pub, acked, raced, begun, clock, newest>>
      /\ StateTyped'
  BY <1>1, <1>5 DEF LoadScan, fsVars, counters, StateTyped
<1>7. ReaderOK(q)'
  BY <1>1, <1>4, <1>5, <1>6 DEF ReaderOK
<1>8. RecoveryKnows(q)' /\ ReadSince(q)'
  BY <1>4, <1>5, <1>6 DEF RecoveryKnows, ReadSince, BackupsOnDisk
<1>9. NewDirs
  BY <1>1, <1>6 DEF NewDirs, DirsOK
<1> QED BY <1>5, <1>6, <1>7, <1>8, <1>9, QuietReaderStep

LEMMA CandidateFacts ==
  ASSUME IInv, NEW q \in Readers, reader[q].pc \in {"try", "recover"}
  PROVE  /\ NextCandidate(q) \in reader[q].cands /\ NextCandidate(q) \in Bundles
         /\ \A m \in reader[q].cands : m <= NextCandidate(q)
<1>1. reader[q].cands # {} /\ reader[q].cands \in SUBSET Bundles
  BY DEF IInv, ReadersOK, ReaderOK, StateTyped, ReaderRecords
<1>2. reader[q].cands \in SUBSET (0..MaxBundles) /\ MaxBundles \in Nat
  BY <1>1, BundleFacts
<1>3. /\ Max(reader[q].cands) \in reader[q].cands
      /\ \A m \in reader[q].cands : m <= Max(reader[q].cands)
  BY <1>1, <1>2, MaxExists
<1> QED BY <1>1, <1>3 DEF NextCandidate

\* While no newer backup has been taken, the next candidate of a recovery is
\* the newest backup, if it still has its name.
LEMMA CandidateIsNewest ==
  ASSUME IInv, ~raced, NEW q \in Readers, reader[q].pc \in {"try", "recover"},
         reader[q].seen = newest, names[Path] = None,
         names[Bak(NextCandidate(q))] # None
  PROVE  /\ names[Bak(NextCandidate(q))] \in Bundles
         /\ \A m \in Bundles : names[Bak(m)] # None => m <= NextCandidate(q)
         /\ Intact(names[Bak(NextCandidate(q))])
<1> DEFINE n == NextCandidate(q)
<1>1. n \in Bundles /\ \A m \in reader[q].cands : m <= n
  BY CandidateFacts
<1>2. BackupsOnDisk \subseteq reader[q].cands
  BY DEF IInv, ServeInv, RecoveriesKnow, RecoveryKnows
<1>3. \A m \in Bundles : names[Bak(m)] # None => m <= n
  BY <1>1, <1>2 DEF BackupsOnDisk
<1>4. names[Bak(n)] \in Bundles
  BY <1>1, NameFacts DEF IInv, DirsOK, DirOK
<1>5. Serves(names, names[Bak(n)])
  BY <1>1, <1>3 DEF Serves
<1>6. tree[names[Bak(n)]] = "synced"
  BY <1>4, <1>5 DEF IInv, ServeInv, ServedSynced, DirsOK
<1> QED BY <1>3, <1>4, <1>6 DEF Intact

\* Moving a reader on, and what a reader that stops has to keep
LEMMA ReaderGotoFacts ==
  ASSUME StateTyped, NEW q \in Readers, NEW pc \in ReaderPcs,
         reader' = [reader EXCEPT ![q].pc = pc]
  PROVE  /\ OnlyReader(q) /\ reader' \in [Readers -> ReaderRecords]
         /\ reader'[q] = [reader[q] EXCEPT !.pc = pc]
         /\ reader'[q].pc = pc /\ reader'[q].seen = reader[q].seen
         /\ reader'[q].cands = reader[q].cands /\ reader'[q].floor = reader[q].floor
<1>1. reader[q] \in ReaderRecords
  BY DEF StateTyped
<1>2. reader'[q] = [reader[q] EXCEPT !.pc = pc] /\ OnlyReader(q)
  BY DEF StateTyped, OnlyReader
<1>3. [reader[q] EXCEPT !.pc = pc] \in ReaderRecords
  BY <1>1 DEF ReaderRecords
<1>4. reader' \in [Readers -> ReaderRecords]
  BY <1>3 DEF StateTyped
<1> QED BY <1>1, <1>2, <1>4 DEF ReaderRecords

\* A reader that goes on without a rename or a new reading
LEMMA QuietReaderGoto ==
  ASSUME IInv, NEW q \in Readers, NEW pc \in {"recover", "verify", "err"},
         reader' = [reader EXCEPT ![q].pc = pc],
         pc = "recover" => reader[q].pc \in {"try", "recover"},
         UNCHANGED <<names, tree, writer, pub, acked, raced, begun, clock, newest, loads, crashes>>,
         NewDirs, errors' \in 0..MaxErrors
  PROVE  IInv'
<1>1. StateTyped /\ pc \in ReaderPcs /\ ReaderOK(q) /\ (~raced => RecoveryKnows(q))
  BY DEF IInv, ReaderPcs, ReadersOK, ServeInv, RecoveriesKnow
<1>2. /\ OnlyReader(q) /\ reader' \in [Readers -> ReaderRecords]
      /\ reader'[q].pc = pc /\ reader'[q].seen = reader[q].seen
      /\ reader'[q].cands = reader[q].cands /\ reader'[q].floor = reader[q].floor
  BY <1>1, ReaderGotoFacts
<1>3. StateTyped'
  BY <1>1, <1>2 DEF StateTyped
<1>4. ReaderOK(q)'
  BY <1>1, <1>2 DEF ReaderOK
<1>5. ~raced => RecoveryKnows(q)' /\ ReadSince(q)'
  BY <1>1, <1>2 DEF RecoveryKnows, ReadSince, BackupsOnDisk
<1> QED BY <1>2, <1>3, <1>4, <1>5, QuietReaderStep

LEMMA LoadTryInv ==
  ASSUME IInv, NEW q \in Readers, LoadTry(q)
  PROVE  IInv'
<1> DEFINE n == NextCandidate(q)
           pc == IF reader[q].cands = {n} THEN "verify" ELSE "try"
<1>1. /\ StateTyped /\ DirsOK /\ reader[q].pc = "try" /\ ReaderOK(q)
      /\ errors \in 0..MaxErrors
  BY DEF IInv, LoadTry, ReadersOK, StateTyped
<1>2. n \in reader[q].cands
  BY <1>1, CandidateFacts
<1>3. /\ UNCHANGED <<names, survivable, tree, writer, pub, acked, raced, begun, clock, newest, loads,
                     errors, crashes>>
      /\ NewDirs
  BY <1>1 DEF LoadTry, fsVars, counters, NewDirs, DirsOK
<1>4. CASE Intact(names[Bak(n)])
  <2>1. reader' = [reader EXCEPT ![q].pc = "recover"]
    BY <1>4 DEF LoadTry
  <2> QED BY <1>1, <1>3, <2>1, QuietReaderGoto
<1>5. CASE ~Intact(names[Bak(n)])
  <2>1. reader' = [reader EXCEPT ![q].cands = reader[q].cands \ {n}, ![q].pc = pc]
    BY <1>1, <1>5 DEF LoadTry, StateTyped, ReaderRecords
  <2>2. pc \in {"verify", "try"} /\ (pc = "try" => reader[q].cands \ {n} # {})
    BY <1>2
  <2> HIDE DEF pc
  <2>3. /\ OnlyReader(q) /\ reader' \in [Readers -> ReaderRecords]
        /\ reader'[q].pc = pc /\ reader'[q].seen = reader[q].seen
        /\ reader'[q].cands = reader[q].cands \ {n} /\ reader'[q].floor = reader[q].floor
    <3> DEFINE rec == [reader[q] EXCEPT !.cands = reader[q].cands \ {n}, !.pc = pc]
    <3>1. pc \in ReaderPcs /\ reader[q] \in ReaderRecords
      BY <1>1, <2>2 DEF ReaderPcs, StateTyped
    <3>2. /\ rec \in ReaderRecords /\ rec.pc = pc /\ rec.seen = reader[q].seen
          /\ rec.cands = reader[q].cands \ {n} /\ rec.floor = reader[q].floor
      BY <3>1 DEF ReaderRecords
    <3>3. reader' = [reader EXCEPT ![q] = rec]
      BY <1>1, <2>1 DEF StateTyped, ReaderRecords
    <3> HIDE DEF rec
    <3>4. reader'[q] = rec
      BY <1>1, <3>3 DEF StateTyped
    <3>5. OnlyReader(q) /\ reader' \in [Readers -> ReaderRecords]
      BY <1>1, <3>2, <3>3 DEF StateTyped, OnlyReader
    <3> QED BY <3>2, <3>4, <3>5
  <2>4. StateTyped'
    BY <1>1, <1>3, <2>3 DEF StateTyped
  <2>5. ReaderOK(q)'
    BY <1>1, <1>3, <2>2, <2>3 DEF ReaderOK
  <2>6. ~raced => RecoveryKnows(q)'
    <3> SUFFICES ASSUME ~raced, reader[q].seen = newest, names[Path] = None
                 PROVE  BackupsOnDisk \subseteq reader[q].cands \ {n}
      BY <1>3, <2>3 DEF RecoveryKnows, BackupsOnDisk
    <3>1. BackupsOnDisk \subseteq reader[q].cands
      BY <1>1 DEF IInv, ServeInv, RecoveriesKnow, RecoveryKnows
    <3>2. names[Bak(n)] = None
      BY <1>1, <1>5, CandidateIsNewest
    <3> QED BY <3>1, <3>2 DEF BackupsOnDisk
  <2>7. ReadSince(q)'
    BY <2>2, <2>3 DEF ReadSince
  <2> QED BY <1>3, <2>3, <2>4, <2>5, <2>6, <2>7, QuietReaderStep
<1> QED BY <1>4, <1>5

LEMMA LoadRecoverInv ==
  ASSUME IInv, NEW q \in Readers, LoadRecover(q)
  PROVE  IInv'
<1> DEFINE n == NextCandidate(q)
<1>1. /\ StateTyped /\ DirsOK /\ reader[q].pc = "recover" /\ ReaderOK(q)
      /\ errors' \in 0..MaxErrors /\ n \in Bundles /\ begun \in Nat /\ clock \in Nat /\ newest \in Nat
  BY FailFacts, CandidateFacts, BundleFacts DEF IInv, LoadRecover, ReadersOK, StateTyped
<1>2. UNCHANGED <<tree, writer, pub, acked, begun, clock, newest, loads, crashes>>
  BY DEF LoadRecover
<1>3. CASE ReaderGoto(q, "err") /\ UNCHANGED <<names, survivable, raced>>
  <2>1. NewDirs
    BY <1>1, <1>3 DEF NewDirs, DirsOK
  <2> QED BY <1>1, <1>2, <1>3, <2>1, QuietReaderGoto DEF ReaderGoto
<1>4. CASE /\ names[Path] = None /\ names[Bak(n)] # None
           /\ Change(Moved(Bak(n), Path))
           /\ raced' = (raced \/ Overtaken(reader[q].seen))
           /\ ReaderGoto(q, "recover_sync")
  <2>1. DirOK(names, begun, newest)
    BY <1>1 DEF DirsOK
  <2>2. names[Bak(n)] \in Bundles
    BY <1>1, <1>4, <2>1, NameFacts DEF DirOK
  <2>3. /\ names' = Moved(Bak(n), Path) /\ DirOK(names', begun, newest)
        /\ \A x \in Names : names'[x] = IF x = Path THEN names[Bak(n)]
                                        ELSE IF x = Bak(n) THEN None ELSE names[x]
    BY <1>1, <1>4, <2>1, <2>2, MoveIsDir, NameFacts DEF Change
  <2>4. NewDirs
    BY <1>1, <1>4 DEF NewDirs, Change
  <2>5. /\ names'[Path] = names[Bak(n)] /\ names'[Bak(n)] = None
        /\ \A m \in Bundles : m # n => names'[Bak(m)] = names[Bak(m)]
        /\ \A m \in Bundles : names'[Tmp(m)] = names[Tmp(m)]
    BY <1>1, <2>3, NameFacts
  <2>6. raced \in BOOLEAN /\ raced' \in BOOLEAN /\ (raced => raced')
    BY <1>1, <1>4 DEF StateTyped, Overtaken
  <2>7. ~raced' => ServesSame
    <3> SUFFICES ASSUME ~raced, newest = reader[q].seen PROVE ServesSame
      BY <1>4 DEF Overtaken
    <3>1. \A m \in Bundles : names[Bak(m)] # None => m <= n
      BY <1>1, <1>4, CandidateIsNewest
    <3> QED BY <1>1, <1>4, <2>2, <2>5, <3>1, RecoveryServes DEF ServesSame
  <2>8. /\ OnlyReader(q) /\ reader' \in [Readers -> ReaderRecords]
        /\ reader'[q].pc = "recover_sync" /\ reader'[q].seen = reader[q].seen
        /\ reader'[q].cands = reader[q].cands /\ reader'[q].floor = reader[q].floor
    BY <1>1, <1>4, ReaderGotoFacts DEF ReaderGoto, ReaderPcs
  <2>9. StateTyped'
    BY <1>1, <1>2, <2>6, <2>8 DEF StateTyped
  <2>10. ReaderOK(q)' /\ RecoveryKnows(q)' /\ ReadSince(q)'
    BY <1>1, <1>2, <2>8 DEF ReaderOK, RecoveryKnows, ReadSince
  <2>11. NoNewBackup
    BY <1>4, <2>5 DEF NoNewBackup
  <2>12. ASSUME NEW c \in Bundles, NEW x \in Names, names'[x] = c
         PROVE  \E y \in Names : names[y] = c /\ \A d \in Bundles : y = Tmp(d) => x = y
    <3>1. CASE x = Path
      BY <1>1, <2>5, <2>12, <3>1, NameFacts
    <3>2. CASE x # Path
      BY <2>3, <2>12, <3>2, BundleFacts
    <3> QED BY <3>1, <3>2
  <2>13. names'[Path] # Foreign /\ names[Path] # Foreign
    BY <1>4, <2>2, <2>5, BundleFacts
  <2> QED BY <1>2, <2>3, <2>4, <2>5, <2>6, <2>7, <2>8, <2>9, <2>10, <2>11, <2>12, <2>13,
             ReaderStepKeeps
<1> QED BY <1>3, <1>4 DEF LoadRecover

LEMMA LoadRecoverSyncInv ==
  ASSUME IInv, NEW q \in Readers, LoadRecoverSync(q)
  PROVE  IInv'
<1>1. DirsOK /\ errors' \in 0..MaxErrors
  BY FailFacts DEF IInv, StateTyped, LoadRecoverSync
<1>2. UNCHANGED <<names, tree, writer, pub, acked, raced, begun, clock, newest, loads, crashes>>
  BY DEF LoadRecoverSync, SyncParent
<1>3. NewDirs
  BY <1>1 DEF NewDirs, DirsOK, LoadRecoverSync, SyncParent
<1>4. CASE ReaderGoto(q, "verify")
  BY <1>1, <1>2, <1>3, <1>4, QuietReaderGoto DEF ReaderGoto
<1>5. CASE ReaderGoto(q, "err")
  BY <1>1, <1>2, <1>3, <1>5, QuietReaderGoto DEF ReaderGoto
<1> QED BY <1>4, <1>5 DEF LoadRecoverSync

LEMMA LoadVerifyInv ==
  ASSUME IInv, NEW q \in Readers, LoadVerify(q)
  PROVE  IInv'
<1>1. StateTyped /\ DirsOK /\ ReaderOK(q) /\ errors \in 0..MaxErrors
  BY DEF IInv, ReadersOK, StateTyped
<1>2. /\ UNCHANGED <<names, survivable, tree, writer, pub, acked, raced, begun, clock, newest, loads,
                     errors, crashes>>
      /\ NewDirs
  BY <1>1 DEF LoadVerify, fsVars, counters, NewDirs, DirsOK
<1>3. CASE reader' = [reader EXCEPT ![q].pc = "err"]
  BY <1>1, <1>2, <1>3, QuietReaderGoto
<1>4. CASE /\ Intact(names[Path])
           /\ reader' = [reader EXCEPT ![q].pc = "read_index", ![q].manifest = names[Path]]
  <2>1. names[Path] \in Bundles
    BY <1>4 DEF Intact
  <2>2. /\ OnlyReader(q) /\ reader' \in [Readers -> ReaderRecords]
        /\ reader'[q].pc = "read_index" /\ reader'[q].manifest = names[Path]
        /\ reader'[q].seen = reader[q].seen /\ reader'[q].floor = reader[q].floor
    <3> DEFINE rec == [reader[q] EXCEPT !.pc = "read_index", !.manifest = names[Path]]
    <3>1. reader[q] \in ReaderRecords
      BY <1>1 DEF StateTyped
    <3>2. /\ rec \in ReaderRecords
          /\ rec.pc = "read_index" /\ rec.manifest = names[Path]
          /\ rec.seen = reader[q].seen /\ rec.floor = reader[q].floor
      BY <2>1, <3>1 DEF ReaderRecords, ReaderPcs
    <3>3. reader \in [Readers -> ReaderRecords] /\ reader' = [reader EXCEPT ![q] = rec]
      BY <1>1, <1>4 DEF StateTyped
    <3> HIDE DEF rec
    <3> QED BY <3>2, <3>3, ReaderRecordSet
  <2>3. StateTyped'
    BY <1>1, <1>2, <2>2 DEF StateTyped
  <2>4. ReaderOK(q)'
    BY <1>1, <1>2, <2>1, <2>2 DEF ReaderOK
  <2>5. ~raced => RecoveryKnows(q)' /\ ReadSince(q)'
    BY <1>2, <2>1, <2>2, PathSince DEF RecoveryKnows, ReadSince
  <2> QED BY <1>2, <2>2, <2>3, <2>4, <2>5, QuietReaderStep
<1> QED BY <1>3, <1>4 DEF LoadVerify

LEMMA LoadIndexInv ==
  ASSUME IInv, NEW q \in Readers, LoadIndex(q)
  PROVE  IInv'
<1>1. StateTyped /\ DirsOK /\ ReaderOK(q) /\ errors \in 0..MaxErrors
  BY DEF IInv, ReadersOK, StateTyped
<1>2. /\ UNCHANGED <<names, survivable, tree, writer, pub, acked, raced, begun, clock, newest, loads,
                     errors, crashes>>
      /\ NewDirs /\ reader[q].pc = "read_index"
  BY <1>1 DEF LoadIndex, fsVars, counters, NewDirs, DirsOK
<1>3. CASE reader' = [reader EXCEPT ![q].pc = "err"]
  BY <1>1, <1>2, <1>3, QuietReaderGoto
<1>4. CASE /\ Intact(names[Path])
           /\ reader' = [reader EXCEPT ![q].pc = "read_ids", ![q].index = names[Path]]
  <2>1. names[Path] \in Bundles
    BY <1>4 DEF Intact
  <2>2. /\ OnlyReader(q) /\ reader' \in [Readers -> ReaderRecords]
        /\ reader'[q].pc = "read_ids" /\ reader'[q].index = names[Path]
        /\ reader'[q].manifest = reader[q].manifest
        /\ reader'[q].seen = reader[q].seen /\ reader'[q].floor = reader[q].floor
    <3> DEFINE rec == [reader[q] EXCEPT !.pc = "read_ids", !.index = names[Path]]
    <3>1. reader[q] \in ReaderRecords
      BY <1>1 DEF StateTyped
    <3>2. /\ rec \in ReaderRecords
          /\ rec.pc = "read_ids" /\ rec.index = names[Path]
          /\ rec.manifest = reader[q].manifest
          /\ rec.seen = reader[q].seen /\ rec.floor = reader[q].floor
      BY <2>1, <3>1 DEF ReaderRecords, ReaderPcs
    <3>3. reader \in [Readers -> ReaderRecords] /\ reader' = [reader EXCEPT ![q] = rec]
      BY <1>1, <1>4 DEF StateTyped
    <3> HIDE DEF rec
    <3> QED BY <3>2, <3>3, ReaderRecordSet
  <2>3. StateTyped'
    BY <1>1, <1>2, <2>2 DEF StateTyped
  <2>4. ReaderOK(q)'
    BY <1>1, <1>2, <2>1, <2>2 DEF ReaderOK
  <2>5. ~raced => RecoveryKnows(q)' /\ ReadSince(q)'
    BY <1>2, <2>1, <2>2, PathSince DEF RecoveryKnows, ReadSince, IInv, ServeInv, ReadsSince
  <2> QED BY <1>2, <2>2, <2>3, <2>4, <2>5, QuietReaderStep
<1> QED BY <1>3, <1>4 DEF LoadIndex

LEMMA LoadIdsInv ==
  ASSUME IInv, NEW q \in Readers, LoadIds(q)
  PROVE  IInv'
<1>1. StateTyped /\ DirsOK /\ ReaderOK(q) /\ errors \in 0..MaxErrors
  BY DEF IInv, ReadersOK, StateTyped
<1>2. /\ UNCHANGED <<names, survivable, tree, writer, pub, acked, raced, begun, clock, newest, loads,
                     errors, crashes>>
      /\ NewDirs /\ reader[q].pc = "read_ids"
  BY <1>1 DEF LoadIds, fsVars, counters, NewDirs, DirsOK
<1>3. CASE reader' = [reader EXCEPT ![q].pc = "err"]
  BY <1>1, <1>2, <1>3, QuietReaderGoto
<1>4. CASE /\ Intact(names[Path])
           /\ reader' = [reader EXCEPT ![q].pc = "ok", ![q].ids = names[Path]]
  <2>1. names[Path] \in Bundles
    BY <1>4 DEF Intact
  <2>2. /\ OnlyReader(q) /\ reader' \in [Readers -> ReaderRecords]
        /\ reader'[q].pc = "ok" /\ reader'[q].ids = names[Path]
        /\ reader'[q].manifest = reader[q].manifest /\ reader'[q].index = reader[q].index
        /\ reader'[q].seen = reader[q].seen /\ reader'[q].floor = reader[q].floor
    <3> DEFINE rec == [reader[q] EXCEPT !.pc = "ok", !.ids = names[Path]]
    <3>1. reader[q] \in ReaderRecords
      BY <1>1 DEF StateTyped
    <3>2. /\ rec \in ReaderRecords
          /\ rec.pc = "ok" /\ rec.ids = names[Path]
          /\ rec.manifest = reader[q].manifest /\ rec.index = reader[q].index
          /\ rec.seen = reader[q].seen /\ rec.floor = reader[q].floor
      BY <2>1, <3>1 DEF ReaderRecords, ReaderPcs
    <3>3. reader \in [Readers -> ReaderRecords] /\ reader' = [reader EXCEPT ![q] = rec]
      BY <1>1, <1>4 DEF StateTyped
    <3> HIDE DEF rec
    <3> QED BY <3>2, <3>3, ReaderRecordSet
  <2>3. StateTyped'
    BY <1>1, <1>2, <2>2 DEF StateTyped
  <2>4. ReaderOK(q)'
    BY <1>1, <1>2, <2>1, <2>2 DEF ReaderOK
  <2>5. ~raced => RecoveryKnows(q)' /\ ReadSince(q)'
    BY <1>2, <2>1, <2>2, PathSince DEF RecoveryKnows, ReadSince, IInv, ServeInv, ReadsSince
  <2> QED BY <1>2, <2>2, <2>3, <2>4, <2>5, QuietReaderStep
<1> QED BY <1>3, <1>4 DEF LoadIds

LEMMA PowerLossInv ==
  ASSUME IInv, PowerLoss
  PROVE  IInv'
<1>1. /\ StateTyped /\ DirsOK /\ Counted /\ crashes' \in 0..MaxCrashes /\ clock \in Nat /\ newest \in Nat
      /\ begun \in Nat /\ acked \in Nat
  BY BundleBounds, BundleFacts DEF IInv, StateTyped, PowerLoss
<1>2. /\ names' \in survivable /\ survivable' = {names'}
      /\ writer' = [p \in Writers |-> IdleWriter] /\ reader' = [q \in Readers |-> IdleReader]
      /\ UNCHANGED <<pub, acked, raced, begun, clock, newest, loads, errors>>
  BY DEF PowerLoss
<1>3. PICK lost \in SUBSET {b \in Bundles : tree[b] \in {"written", "removing"}} :
        tree' = [b \in Bundles |-> IF b \in lost THEN AfterLoss(b) ELSE tree[b]]
  BY DEF PowerLoss
<1>4. /\ tree' \in [Bundles -> TreeStates]
      /\ \A b \in Bundles : tree[b] = "synced" => tree'[b] = "synced"
  BY <1>1, <1>3 DEF StateTyped, AfterLoss, TreeStates
<1>5. IdleWriter \in WriterRecords /\ IdleReader \in ReaderRecords
  BY BundleFacts DEF IdleWriter, IdleReader, WriterRecords, ReaderRecords, WriterPcs, ReaderPcs
<1>6. StateTyped'
  BY <1>1, <1>2, <1>4, <1>5 DEF StateTyped
<1>7. NewDirs /\ DirOK(names', begun', newest') /\ (names'[Path] = Foreign <=> names[Path] = Foreign)
  BY <1>1, <1>2 DEF NewDirs, DirsOK
<1>8. DirsOK'
  BY <1>1, <1>2, <1>7, DirsKept
<1>9. \A p \in Writers : writer'[p].pc = "idle" /\ writer'[p].backup = 0
  BY <1>2 DEF IdleWriter, None
<1>10. Counted'
  <2>1. Pending' \subseteq Pending
    BY <1>9 DEF Pending, BeforeBackup
  <2> QED BY <1>1, <1>2, <2>1, CountedKept
<1>11. WritersOK'
  BY <1>1, <1>2, <1>9 DEF WritersOK, WriterOK, Unpublished, BeforeBackup
<1>12. \A q \in Readers : reader'[q].pc = "idle" /\ reader'[q].seen = 0 /\ reader'[q].floor = 0
  BY <1>2 DEF IdleReader
<1>13. ReadersOK'
  BY <1>1, <1>2, <1>12 DEF ReadersOK, ReaderOK
<1>14. ServeInv'
  <2> SUFFICES ASSUME ~raced
               PROVE  ServedSynced' /\ SparesKept' /\ RecoveriesKnow'
                      /\ CommitServed' /\ WritesServed' /\ ReadsSince'
    BY <1>2 DEF ServeInv
  <2>1. ServedSynced'
    BY <1>2, <1>4 DEF IInv, ServeInv, ServedSynced
  <2>2. CommitServed'
    BY <1>2 DEF IInv, ServeInv, CommitServed, ServesSince
  <2>3. SparesKept' /\ WritesServed'
    BY <1>9 DEF SparesKept, SpareBackup, WritesServed, WriteServed
  <2>4. RecoveriesKnow' /\ ReadsSince'
    BY <1>12 DEF RecoveriesKnow, RecoveryKnows, ReadsSince, ReadSince
  <2> QED BY <2>1, <2>2, <2>3, <2>4
<1>15. StampsOK'
  BY <1>9 DEF StampsOK, StampFresh
<1> QED BY <1>6, <1>8, <1>10, <1>11, <1>13, <1>14, <1>15 DEF IInv

-----------------------------------------------------------------------------
(* The theorems                                                             *)

LEMMA BundleInit == Init => IInv
<1> SUFFICES ASSUME Init PROVE IInv
  OBVIOUS
<1>1. PICK at \in {None, Foreign, 1} :
        /\ names = [x \in Names |-> IF x = Path THEN at ELSE None]
        /\ tree = [b \in Bundles |-> IF b = at THEN "synced" ELSE "none"]
        /\ pub = [b \in Bundles |-> IF b = at THEN 1 ELSE 0]
        /\ acked = IF at = 1 THEN 1 ELSE 0
  BY DEF Init
<1>2. /\ survivable = {names}
      /\ writer = [p \in Writers |-> IdleWriter] /\ reader = [q \in Readers |-> IdleReader]
      /\ begun = 1 /\ clock = 0 /\ newest = 0 /\ raced = FALSE /\ loads = 0 /\ errors = 0 /\ crashes = 0
  BY DEF Init
<1>3. 1 \in Bundles /\ at \in Bundles \cup {None, Foreign} /\ 1 # None /\ 1 # Foreign
      /\ (at \in Bundles => at = 1)
  BY BundleFacts
<1>4. IdleWriter \in WriterRecords /\ IdleReader \in ReaderRecords
  BY BundleFacts DEF IdleWriter, IdleReader, WriterRecords, ReaderRecords, WriterPcs, ReaderPcs
<1>5. StateTyped
  <2>1. /\ 0 \in 0..MaxLoads /\ 0 \in 0..MaxErrors /\ 0 \in 0..MaxCrashes /\ acked \in 0..MaxBundles
        /\ newest \in 0..clock /\ clock \in Nat
    BY <1>1, <1>2, BundleBounds
  <2> QED BY <1>1, <1>2, <1>3, <1>4, <2>1 DEF StateTyped, TreeStates
<1>6. /\ names \in [Names -> Bundles \cup {None, Foreign}]
      /\ names[Path] = at /\ \A x \in Names : x # Path => names[x] = None
      /\ \A n \in Bundles : names[Bak(n)] = None
  BY <1>1, <1>3, NameFacts
<1>7. DirsOK
  <2>1. DirOK(names, 1, 0)
    BY <1>3, <1>6, BundleFacts DEF DirOK
  <2> QED BY <1>2, <2>1 DEF DirsOK
<1>8. \A p \in Writers : writer[p].pc = "idle" /\ writer[p].backup = 0
  BY <1>2 DEF IdleWriter, None
<1>9. Counted
  <2>1. Pending = {}
    BY <1>8 DEF Pending, BeforeBackup
  <2>2. IsFiniteSet(Pending) /\ clock + Cardinality(Pending) <= begun - 1
    BY <1>2, <2>1, FS_EmptySet
  <2>3. ASSUME NEW b \in Bundles PROVE pub[b] <= Cardinality(Published)
    <3>1. IsFiniteSet(Published) /\ Cardinality(Published) \in Nat
      BY BundleFacts, FS_Subset, FS_CardinalityType DEF Published
    <3>2. CASE b # at
      BY <1>1, <3>1, <3>2
    <3>3. CASE b = at
      <4>1. b \in Published /\ pub[b] = 1
        BY <1>1, <3>3 DEF Published
      <4>2. Cardinality(Published) # 0
        BY <3>1, <4>1, FS_EmptySet
      <4> QED BY <3>1, <4>1, <4>2
    <3> QED BY <3>2, <3>3
  <2>4. \A b \in Bundles : b > begun => pub[b] = 0
    BY <1>1, <1>2, <1>3, BundleFacts
  <2> QED BY <2>2, <2>3, <2>4 DEF Counted
<1>10. WritersOK
  BY <1>2, <1>8 DEF WritersOK, WriterOK, Unpublished, BeforeBackup
<1>11. \A q \in Readers : reader[q].pc = "idle" /\ reader[q].seen = 0 /\ reader[q].floor = 0
  BY <1>2 DEF IdleReader
<1>12. ReadersOK
  BY <1>1, <1>2, <1>11 DEF ReadersOK, ReaderOK
<1>13. ServeInv
  <2>1. \A b \in Bundles : Serves(names, b) <=> b = at
    BY <1>3, <1>6, BundleFacts DEF Serves
  <2>2. ServedSynced
    BY <1>1, <1>2, <2>1 DEF ServedSynced
  <2>3. CommitServed
    BY <1>1, <1>2, <1>3, <2>1 DEF CommitServed, ServesSince
  <2>4. SparesKept /\ WritesServed
    BY <1>8 DEF SparesKept, SpareBackup, WritesServed, WriteServed
  <2>5. RecoveriesKnow /\ ReadsSince
    BY <1>11 DEF RecoveriesKnow, RecoveryKnows, ReadsSince, ReadSince
  <2> QED BY <2>2, <2>3, <2>4, <2>5 DEF ServeInv
<1>14. StampsOK
  BY <1>8 DEF StampsOK, StampFresh
<1> QED BY <1>5, <1>7, <1>9, <1>10, <1>12, <1>13, <1>14 DEF IInv

LEMMA BundleStutter == IInv /\ UNCHANGED vars => IInv'
<1> SUFFICES ASSUME IInv, UNCHANGED vars PROVE IInv'
  OBVIOUS
<1> USE DEF vars, fsVars, counters
<1>1. StateTyped' /\ ReadersOK'
  BY DEF IInv, StateTyped, ReadersOK, ReaderOK
<1>2. DirsOK'
  BY DEF IInv, DirsOK
<1>3. Counted'
  BY DEF IInv, Counted, Pending, Published
<1>4. WritersOK'
  BY DEF IInv, WritersOK, WriterOK
<1>5. ServedSynced' = ServedSynced /\ CommitServed' = CommitServed
  BY DEF ServedSynced, CommitServed, ServesSince
<1>6. SparesKept' = SparesKept /\ WritesServed' = WritesServed
  BY DEF SparesKept, SpareBackup, WritesServed, WriteServed, ServesSince
<1>7. RecoveriesKnow' = RecoveriesKnow /\ ReadsSince' = ReadsSince
  BY DEF RecoveriesKnow, RecoveryKnows, ReadsSince, ReadSince, BackupsOnDisk
<1>8. ServeInv'
  BY <1>5, <1>6, <1>7 DEF IInv, ServeInv
<1>9. StampsOK'
  BY DEF IInv, StampsOK, StampFresh
<1> QED BY <1>1, <1>2, <1>3, <1>4, <1>8, <1>9 DEF IInv

LEMMA BundleStep == IInv /\ [Next]_vars => IInv'
<1> SUFFICES ASSUME IInv, [Next]_vars PROVE IInv'
  OBVIOUS
<1>1. ASSUME NEW p \in Writers, WriterStep(p) PROVE IInv'
  BY <1>1, WriteBeginInv, WriteContentsInv, SyncTreeInv, WriteFailsInv, ReplaceCheckInv,
     StampBackupInv, TakeBackupInv, BackupSyncInv, PublishInv, RestoreInv, PublishSyncInv, CleanupInv,
     UnlinkInv, WriterCrashInv DEF WriterStep
<1>2. ASSUME NEW q \in Readers, ReaderStep(q) PROVE IInv'
  BY <1>2, LoadBeginInv, LoadScanInv, LoadTryInv, LoadRecoverInv, LoadRecoverSyncInv,
     LoadVerifyInv, LoadIndexInv, LoadIdsInv DEF ReaderStep
<1>3. CASE PowerLoss
  BY <1>3, PowerLossInv
<1>4. CASE UNCHANGED vars
  BY <1>4, BundleStutter
<1> QED BY <1>1, <1>2, <1>3, <1>4 DEF Next

LEMMA BundleInvariant == Spec => []IInv
<1> QED BY BundleInit, BundleStep, PTL DEF Spec

\* What the directory serves is what a recovery would put at the path.
LEMMA ServedIsRecovered ==
  ASSUME IInv, ~raced, NEW b \in Bundles, Serves(names, b)
  PROVE  Recovered = b
<1>1. CASE names[Path] = b
  BY <1>1, BundleFacts DEF Recovered
<1>2. CASE names[Path] # b
  <2>1. names[Path] = None
    BY <1>2 DEF Serves
  <2>2. PICK n \in Bundles : names[Bak(n)] = b /\ \A m \in Bundles : names[Bak(m)] # None => m <= n
    BY <1>2 DEF Serves
  <2>3. tree[b] = "synced"
    BY DEF IInv, ServeInv, ServedSynced, DirsOK
  <2>4. n \in IntactBackups
    BY <2>2, <2>3, BundleFacts DEF IntactBackups, BackupsOnDisk, Intact
  <2>5. IntactBackups \in SUBSET Nat /\ \A m \in IntactBackups : m <= n
    BY <2>2, BundleFacts DEF IntactBackups, BackupsOnDisk
  <2>6. Max(IntactBackups) = n
    BY <2>4, <2>5, MaxIs
  <2> QED BY <2>1, <2>2, <2>4, <2>6 DEF Recovered
<1> QED BY <1>1, <1>2

\* Every reachable state is well typed; the clock and the publication order
\* stay in their bounds because a write uses up one bundle and at most one
\* backup name (write_bundle, replace_bundle).
THEOREM BundleTypeCorrect == Spec => []TypeOK
<1>1. IInv => TypeOK
  BY TypedIsTypeOK DEF IInv
<1> QED BY <1>1, BundleInvariant, PTL

\* Whatever fails, dies or loses power in replace_bundle, the path names no
\* half-written or half-removed bundle, in the directory as it is and in those
\* a power loss may leave, for any number of writers and readers.
THEOREM PathStaysIntact == Spec => []PathIntact
<1>1. IInv => PathIntact
  <2> SUFFICES ASSUME IInv, ~raced, NEW ns \in survivable \cup {names}, ns[Path] \in Bundles
               PROVE  Intact(ns[Path])
    BY DEF PathIntact
  <2>1. ns \in survivable /\ Serves(ns, ns[Path])
    BY DEF IInv, DirsOK, Serves
  <2>2. tree[ns[Path]] = "synced"
    BY <2>1 DEF IInv, ServeInv, ServedSynced
  <2> QED BY <2>2 DEF Intact
<1> QED BY <1>1, BundleInvariant, PTL

\* A write that has returned Ok is never lost: its bundle or a later one is at
\* the path, or is the backup recover_bundle_if_missing puts there.
THEOREM CommitsSurvive == Spec => []CommittedSurvives
<1>1. IInv => CommittedSurvives
  <2> SUFFICES ASSUME IInv, ~raced, acked > 0
               PROVE  Recovered \in Bundles /\ pub[Recovered] >= acked
    BY DEF CommittedSurvives
  <2>1. PICK b \in Bundles : Serves(names, b) /\ pub[b] >= acked
    BY DEF IInv, ServeInv, CommitServed, ServesSince, DirsOK
  <2> QED BY <2>1, ServedIsRecovered
<1> QED BY <1>1, BundleInvariant, PTL

\* A load that succeeds returns nothing older than what was acknowledged when
\* it began (recover_bundle_if_missing, load_bundle).
THEOREM LoadsAreFresh == Spec => []LoadFresh
<1>1. IInv => LoadFresh
  BY DEF IInv, ServeInv, ReadsSince, ReadSince, LoadFresh
<1> QED BY <1>1, BundleInvariant, PTL
=============================================================================
